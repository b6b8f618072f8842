----------------------------- MODULE NodeServer -----------------------------
(***************************************************************************)
(* The CSI node service of every node (pkg/nfsexport/nodeserver.go), for   *)
(* one exported volume: NodePublishVolume and NodeUnpublishVolume as       *)
(* gRPC goroutines, one step per API call, wait or mount operation, so     *)
(* that calls on several nodes interleave with each other and with the     *)
(* cluster of module Kube.  The kubelets that issue the calls are external *)
(* to the repository.                                                      *)
(***************************************************************************)
EXTENDS Kube, SourcePath

CONSTANTS
  Threads,        \* goroutines that serve node calls, over all nodes
  FaultKinds,     \* the faults that can happen, see Fault
  MaxFaults,      \* bound on their number in one behaviour
  HidingNodes,    \* nodes where the data volume is on the kubelet's own file
                  \* system: IsLikelyNotMountPoint sees no bind mount there
  SetMode         \* mountPermissions > 0

AllFaultKinds ==
  {"api", "list", "mount", "fs", "slow", "crash", "deadline", "kubelet",
   "evict"}

ASSUME FaultsAssumption == FaultKinds \subseteq AllFaultKinds /\ MaxFaults \in Nat
ASSUME FlagsAssumption == HidingNodes \subseteq Nodes /\ SetMode \in BOOLEAN

VARIABLES
  annotated,  \* application pods with the highest pod-deletion-cost
  exposed,    \* history: pods a teardown has overlooked: created while it was
              \* under way, or hidden from it by a failing pod list
  skipped,    \* history: an unpublish call has left the server alone though no
              \* pod was running
  orphaned,   \* history: pods one of whose calls went on without its kubelet
  mnt,        \* the stack of mounts on the target path of each pod
  call,       \* what each goroutine is doing
  kub,        \* what the pod's kubelet believes about its volume
  faults      \* number of faults so far

driverVars == <<annotated, exposed, skipped, orphaned, mnt, call, kub, faults>>
vars == <<kubeVars, driverVars>>

Idle == [pc |-> "Idle", pod |-> None, uid |-> None, ip |-> None,
         dirOk |-> FALSE, live |-> FALSE]

PublishSteps ==
  {"getPVC", "getSTS", "createSTS", "getPod", "waitPod", "target", "source",
   "bind", "getApp", "annotate", "getSVC", "createSVC", "waitTcp", "mountNFS", "chmod"}
UnpublishSteps ==
  {"cleanup", "getPV", "listPods", "deleteSTS", "deleteSVC", "waitGone"}

\* From the decision that nobody uses the volume to the last deletion.
TearDown == {"deleteSTS", "deleteSVC"}

Mounts == [kind : {"bind", "nfs"}, ip : IPs \cup {None}, mode : BOOLEAN]

Calls == [pc : PublishSteps \cup UnpublishSteps \cup {"Idle"},
          pod : Pods \cup {None}, uid : Uids \cup {None}, ip : IPs \cup {None},
          dirOk : BOOLEAN, live : BOOLEAN]

Views == {"waiting", "publishing", "published", "failed", "uncertain",
          "unmounting", "done", "forgotten"}

CallsOK ==
  /\ call \in [Threads -> Calls]
  /\ \A t \in Threads : call[t].pc # "Idle" => call[t].pod \in Pods

\* Every variable has its type; a goroutine that works has a pod.
TypeOK ==
  /\ KubeTypeOK
  /\ annotated \subseteq Pods
  /\ exposed \subseteq Pods
  /\ skipped \in BOOLEAN
  /\ orphaned \subseteq Pods
  /\ mnt \in [Pods -> Seq(Mounts)]
  /\ CallsOK
  /\ kub \in [Pods -> Views]
  /\ faults \in 0..MaxFaults

Init ==
  /\ KubeInit
  /\ annotated = {}
  /\ exposed = {}
  /\ skipped = FALSE
  /\ orphaned = {}
  /\ mnt = [p \in Pods |-> <<>>]
  /\ call = [t \in Threads |-> Idle]
  /\ kub = [p \in Pods |-> "waiting"]
  /\ faults = 0

-----------------------------------------------------------------------------
(* Helpers. *)

\* A fault of one of these kinds, if the run allows it: a failing call of the
\* API server ("api") or of its pod list ("list"), of mount or umount
\* ("mount"), of another file operation ("fs"); a wait that takes longer than
\* the code allows ("slow"); a restart of the plugin ("crash") or of the
\* kubelet ("kubelet"); a kubelet that gives up on a call ("deadline"); the
\* loss of the server pod ("evict").
Fault(kind) ==
  /\ kind \in FaultKinds /\ faults < MaxFaults
  /\ faults' = faults + 1

NoFault == UNCHANGED faults

\* The goroutine goes on, with its local variables changed to those of c.
Continue(t, c) ==
  /\ call' = [call EXCEPT ![t] = c]
  /\ UNCHANGED kub

Goto(t, pc) == Continue(t, [call[t] EXCEPT !.pc = pc])

\* The goroutine is done.  A kubelet that still waits for the answer draws
\* its conclusion from it.
Answer(t, view) ==
  /\ call' = [call EXCEPT ![t] = Idle]
  /\ kub' = IF call[t].live THEN [kub EXCEPT ![call[t].pod] = view] ELSE kub

\* The kubelet takes Canceled for "may still be mounted"; InvalidArgument,
\* PermissionDenied and Internal are final: not mounted.
PublishView(code) ==
  CASE code = "OK" -> "published"
    [] code = "Canceled" -> "uncertain"
    [] OTHER -> "failed"

PublishAnswer(t, code) == Answer(t, PublishView(code))

UnpublishAnswer(t, code) ==
  Answer(t, IF code = "OK" THEN "done" ELSE "uncertain")

NodeOfCall(t) == NodeOf[call[t].pod]

Top(p) == mnt[p][Len(mnt[p])]
Push(p, m) == mnt' = [mnt EXCEPT ![p] = Append(@, m)]

-----------------------------------------------------------------------------
(* NodePublishVolume *)

\* Lines 110-115.  Any error of the Get is InvalidArgument.
GetPVC(t) ==
  /\ call[t].pc = "getPVC"
  /\ \/ dataPVC /\ Goto(t, "getSTS") /\ NoFault
     \/ ~ dataPVC /\ PublishAnswer(t, "InvalidArgument") /\ NoFault
     \/ Fault("api") /\ PublishAnswer(t, "InvalidArgument")
  /\ UNCHANGED <<kubeVars, annotated, exposed, skipped, orphaned, mnt>>

\* Lines 117-124.  Any error of the Get is taken for "does not exist".
GetSTS(t) ==
  /\ call[t].pc = "getSTS"
  /\ \/ Goto(t, IF sts THEN "getPod" ELSE "createSTS") /\ NoFault
     \/ Fault("api") /\ Goto(t, "createSTS")
  /\ UNCHANGED <<kubeVars, annotated, exposed, skipped, orphaned, mnt>>

\* Lines 127-256.  Creating what exists already is an error.
CreateSTS(t) ==
  /\ call[t].pc = "createSTS"
  /\ \/ ~ sts /\ sts' = TRUE /\ Goto(t, "getPod") /\ NoFault
     \/ sts /\ PublishAnswer(t, "Canceled") /\ NoFault /\ UNCHANGED sts
     \/ Fault("api") /\ PublishAnswer(t, "Canceled") /\ UNCHANGED sts
  /\ UNCHANGED <<dataPVC, pv, svc, nfsPod, appPod, annotated, exposed, skipped, orphaned, mnt>>

\* Lines 259-263.  The error is dropped: no pod is a pod with UID "".
GetPod(t) ==
  /\ call[t].pc = "getPod"
  /\ \/ NoFault /\ Continue(t, [call[t] EXCEPT !.pc = "waitPod", !.uid = nfsPod.uid])
     \/ Fault("api") /\ Goto(t, "waitPod")
  /\ UNCHANGED <<kubeVars, annotated, exposed, skipped, orphaned, mnt>>

\* Lines 265-270 with isPodRunning.  A pod that is not there, and one that
\* has failed, end the wait at once; only a Pending pod is waited for.
PodWaitEnds_IgnoresNotFound == nfsPod.phase = "Failed"

PodWaitEnds == nfsPod.phase \in {"Absent", "Failed"}

WaitPod_Exists(t) ==
  /\ call[t].pc = "waitPod" /\ nfsPod.phase # "Absent"
  /\ Goto(t, "target") /\ NoFault
  /\ UNCHANGED <<kubeVars, annotated, exposed, skipped, orphaned, mnt>>

WaitPod(t) ==
  /\ call[t].pc = "waitPod"
  /\ \/ nfsPod.phase = "Running" /\ Goto(t, "target") /\ NoFault
     \/ PodWaitEnds /\ PublishAnswer(t, "Canceled") /\ NoFault
     \/ nfsPod.phase = "Pending" /\ Fault("slow") /\ PublishAnswer(t, "Canceled")
     \/ Fault("api") /\ PublishAnswer(t, "Canceled")
  /\ UNCHANGED <<kubeVars, annotated, exposed, skipped, orphaned, mnt>>

\* Lines 277-291.  IsLikelyNotMountPoint, or a new directory.
LooksMounted_NfsOnly(p) == mnt[p] # <<>> /\ Top(p).kind = "nfs"

LooksMounted(p) ==
  mnt[p] # <<>> /\ (Top(p).kind = "bind" => NodeOf[p] \notin HidingNodes)

CheckTarget(t) ==
  /\ call[t].pc = "target"
  /\ \/ LooksMounted(call[t].pod) /\ PublishAnswer(t, "OK") /\ NoFault
     \/ ~ LooksMounted(call[t].pod) /\ Goto(t, "source") /\ NoFault
     \/ Fault("fs") /\ PublishAnswer(t, "Internal")
  /\ UNCHANGED <<kubeVars, annotated, exposed, skipped, orphaned, mnt>>

\* Lines 297-330.  dirOk stands for the error of ReadDir, which is only
\* logged here but still in `err` at line 420.  An error of IsNotMountPoint is
\* dropped, and notMnt is true then.
LocalSource(t) ==
  /\ PodVolumesMounted(NodeOfCall(t), call[t].uid)
  /\ PickSource(nfsPod.dirs) = DataMountPoint

FindSource(t) ==
  /\ call[t].pc = "source"
  /\ LET dirRead == PodDirExists(NodeOfCall(t), call[t].uid)
     IN
     \/ /\ NoFault
        /\ Continue(t, [call[t] EXCEPT
             !.dirOk = dirRead,
             !.pc = IF LocalSource(t) THEN "bind" ELSE "getSVC"])
     \/ /\ Fault("fs")
        /\ \E ok \in {FALSE, dirRead} :
             Continue(t, [call[t] EXCEPT !.dirOk = ok, !.pc = "getSVC"])
  /\ UNCHANGED <<kubeVars, annotated, exposed, skipped, orphaned, mnt>>

\* Lines 332-333 and 420-428.  The mount options are not passed on.
BindMount == [kind |-> "bind", ip |-> None, mode |-> FALSE]

BindLocal(t) ==
  /\ call[t].pc = "bind"
  /\ \/ /\ LocalSource(t) /\ NoFault
        /\ Push(call[t].pod, BindMount)
        /\ Goto(t, "getApp")
     \/ ~ LocalSource(t) /\ NoFault /\ PublishAnswer(t, "Internal") /\ UNCHANGED mnt
     \/ Fault("mount") /\ PublishAnswer(t, "Internal") /\ UNCHANGED mnt
  /\ UNCHANGED <<kubeVars, annotated, exposed, skipped, orphaned>>

\* Lines 334-342.  Errors are only logged, here and in the next step.
GetAppPod(t) ==
  /\ call[t].pc = "getApp"
  /\ \/ call[t].pod \in Listed /\ NoFault /\ Goto(t, "annotate")
     \/ call[t].pod \notin Listed /\ NoFault /\ Goto(t, "chmod")
     \/ Fault("api") /\ Goto(t, "chmod")
  /\ UNCHANGED <<kubeVars, annotated, exposed, skipped, orphaned, mnt>>

\* Lines 343-350.  The Update conflicts with a deletion since the Get.
Annotate(t) ==
  /\ call[t].pc = "annotate"
  /\ \/ NoFault /\ annotated' = annotated \cup ({call[t].pod} \cap Listed)
     \/ NoFault /\ appPod[call[t].pod] # "active" /\ UNCHANGED annotated
     \/ Fault("api") /\ UNCHANGED annotated
  /\ Goto(t, "chmod")
  /\ UNCHANGED <<kubeVars, exposed, skipped, orphaned, mnt>>

\* Lines 353-357.
GetSVC(t) ==
  /\ call[t].pc = "getSVC"
  /\ \/ /\ svc # None /\ NoFault
        /\ Continue(t, [call[t] EXCEPT !.pc = "waitTcp", !.ip = svc])
     \/ svc = None /\ NoFault /\ Goto(t, "createSVC")
     \/ Fault("api") /\ Goto(t, "createSVC")
  /\ UNCHANGED <<kubeVars, annotated, exposed, skipped, orphaned, mnt>>

\* Lines 358-405.
CreateSVC(t) ==
  /\ call[t].pc = "createSVC"
  /\ \/ /\ svc = None /\ NoFault
        /\ \E ip \in IPs :
             /\ svc' = ip
             /\ Continue(t, [call[t] EXCEPT !.pc = "waitTcp", !.ip = ip])
     \/ svc # None /\ NoFault /\ PublishAnswer(t, "Canceled") /\ UNCHANGED svc
     \/ Fault("api") /\ PublishAnswer(t, "Canceled") /\ UNCHANGED svc
  /\ UNCHANGED <<dataPVC, pv, sts, nfsPod, appPod, annotated, exposed, skipped, orphaned, mnt>>

\* Lines 407-413 with isTcpReady.  A server pod on its way out may be out of
\* the Service's endpoints already.
WaitTcp(t) ==
  /\ call[t].pc = "waitTcp"
  /\ \/ ServerUp(call[t].ip) /\ Goto(t, "mountNFS") /\ NoFault
     \/ /\ ~ ServerUp(call[t].ip) \/ ~ nfsPod.owned
        /\ PublishAnswer(t, "Canceled") /\ NoFault
     \/ Fault("slow") /\ PublishAnswer(t, "Canceled")
  /\ UNCHANGED <<kubeVars, annotated, exposed, skipped, orphaned, mnt>>

\* Lines 414-428.  The mount's error goes into the err that line 354 has
\* declared anew for the else block; line 420 tests the outer err, which
\* still holds what ReadDir returned at line 303.
AfterMountNFS_ErrorLost(t) == Goto(t, "chmod")

AfterMountNFS(t) ==
  IF call[t].dirOk THEN Goto(t, "chmod") ELSE PublishAnswer(t, "Internal")

NfsMount_ByName(ip) == [kind |-> "nfs", ip |-> "name of the Service", mode |-> FALSE]

NfsMount(ip) == [kind |-> "nfs", ip |-> ip, mode |-> FALSE]

MountNFS(t) ==
  /\ call[t].pc = "mountNFS"
  /\ AfterMountNFS(t)
  /\ \/ ServerUp(call[t].ip) /\ NoFault /\ Push(call[t].pod, NfsMount(call[t].ip))
     \/ ~ ServerUp(call[t].ip) /\ NoFault /\ UNCHANGED mnt
     \/ Fault("mount") /\ UNCHANGED mnt
  /\ UNCHANGED <<kubeVars, annotated, exposed, skipped, orphaned>>

\* Lines 430-440.
ModeSet(stack) == [stack EXCEPT ![Len(stack)] = [@ EXCEPT !.mode = TRUE]]

SetTopMode_NfsOnly(p) ==
  IF SetMode /\ mnt[p] # <<>> /\ Top(p).kind = "nfs"
  THEN mnt' = [mnt EXCEPT ![p] = ModeSet(@)]
  ELSE UNCHANGED mnt

SetTopMode(p) ==
  IF SetMode /\ mnt[p] # <<>>
  THEN mnt' = [mnt EXCEPT ![p] = ModeSet(@)]
  ELSE UNCHANGED mnt

Chmod(t) ==
  /\ call[t].pc = "chmod"
  /\ \/ SetTopMode(call[t].pod) /\ PublishAnswer(t, "OK") /\ NoFault
     \/ SetMode /\ Fault("fs") /\ PublishAnswer(t, "Internal") /\ UNCHANGED mnt
  /\ UNCHANGED <<kubeVars, annotated, exposed, skipped, orphaned>>

Publish(t) ==
  \/ GetPVC(t) \/ GetSTS(t) \/ CreateSTS(t) \/ GetPod(t) \/ WaitPod(t)
  \/ CheckTarget(t) \/ FindSource(t) \/ BindLocal(t) \/ GetAppPod(t) \/ Annotate(t)
  \/ GetSVC(t) \/ CreateSVC(t) \/ WaitTcp(t) \/ MountNFS(t) \/ Chmod(t)

-----------------------------------------------------------------------------
(* NodeUnpublishVolume *)

\* Lines 454-459.  CleanupMountPoint takes one mount off the stack; it is an
\* error if the target is still a mount point then.
CleanupFailed_Logged(t) == Goto(t, "getPV")

CleanupFailed(t) == UnpublishAnswer(t, "Internal")

CleanupMountPoint(t) ==
  LET p == call[t].pod IN
  /\ call[t].pc = "cleanup"
  /\ \/ /\ Len(mnt[p]) <= 1 /\ NoFault
        /\ mnt' = [mnt EXCEPT ![p] = <<>>]
        /\ Goto(t, "getPV")
     \/ /\ Len(mnt[p]) > 1 /\ NoFault
        /\ mnt' = [mnt EXCEPT ![p] = SubSeq(@, 1, Len(@) - 1)]
        /\ CleanupFailed(t)
     \/ Fault("mount") /\ CleanupFailed(t) /\ UNCHANGED mnt
  /\ UNCHANGED <<kubeVars, annotated, exposed, skipped, orphaned>>

\* History: the server stays although no pod is running.
Skip == skipped' = (skipped \/ \A p \in Pods : appPod[p] # "active")

\* Lines 461-466 with getPvById.  An error of the List, too, is taken for a
\* PV that is gone, and the server is left alone.
GetPV(t) ==
  /\ call[t].pc = "getPV"
  /\ \/ pv /\ Goto(t, "listPods") /\ NoFault /\ UNCHANGED skipped
     \/ ~ pv /\ UnpublishAnswer(t, "OK") /\ NoFault /\ UNCHANGED skipped
     \/ Fault("api") /\ UnpublishAnswer(t, "OK") /\ Skip
  /\ UNCHANGED <<kubeVars, annotated, exposed, orphaned, mnt>>

\* Lines 474-482.  Any pod of the listing counts, whatever its phase.
ClaimInUse_Mounted == \E p \in Listed : mnt[p] # <<>>
ClaimInUse_NotTerminating == \E p \in Pods : appPod[p] = "active"
ClaimInUse_Ever == \E p \in Pods : appPod[p] # "unborn"

ClaimInUse == Listed # {}

\* Lines 468-483.  The error of the List is dropped: no answer, no pods.
ListPods(t) ==
  /\ call[t].pc = "listPods"
  /\ \/ ~ ClaimInUse /\ Goto(t, "deleteSTS") /\ NoFault /\ UNCHANGED <<exposed, skipped>>
     \/ /\ ClaimInUse /\ UnpublishAnswer(t, "OK") /\ NoFault
        /\ IF Listed # {} THEN Skip ELSE UNCHANGED skipped
        /\ UNCHANGED exposed
     \/ /\ Fault("list") /\ Goto(t, "deleteSTS")
        /\ exposed' = exposed \cup Listed /\ UNCHANGED skipped
  /\ UNCHANGED <<kubeVars, annotated, orphaned, mnt>>

\* Lines 485-510.  The server pod is left to the garbage collector.
DeleteSTS(t) ==
  /\ call[t].pc = "deleteSTS"
  /\ Goto(t, "deleteSVC")
  /\ \/ NoFault /\ sts' = FALSE /\ nfsPod' = [nfsPod EXCEPT !.owned = FALSE]
        /\ UNCHANGED skipped
     \/ Fault("api") /\ Skip /\ UNCHANGED <<sts, nfsPod>>
  /\ UNCHANGED <<dataPVC, pv, svc, appPod, annotated, exposed, orphaned, mnt>>

\* Lines 512-517.
DeleteSVC(t) ==
  /\ call[t].pc = "deleteSVC"
  /\ Goto(t, "waitGone")
  /\ \/ NoFault /\ svc' = None /\ UNCHANGED skipped
     \/ Fault("api") /\ Skip /\ UNCHANGED svc
  /\ UNCHANGED <<dataPVC, pv, sts, nfsPod, appPod, annotated, exposed, orphaned, mnt>>

\* Lines 519-536.  waitForPodRunning ends at once unless the pod is Pending,
\* and its error is not looked at.
WaitGone(t) ==
  /\ call[t].pc = "waitGone"
  /\ \/ nfsPod.phase # "Pending" /\ NoFault
     \/ nfsPod.phase = "Pending" /\ (Fault("slow") \/ Fault("api"))
  /\ UnpublishAnswer(t, "OK")
  /\ UNCHANGED <<kubeVars, annotated, exposed, skipped, orphaned, mnt>>

Unpublish(t) ==
  \/ CleanupMountPoint(t) \/ GetPV(t) \/ ListPods(t)
  \/ DeleteSTS(t) \/ DeleteSVC(t) \/ WaitGone(t)

-----------------------------------------------------------------------------
(* The kubelets, and restarts of the plugin. *)

\* One call at a time for each pod: kub[p] says whether one is under way.
Begin(p, t, pc, view) ==
  /\ call[t].pc = "Idle"
  /\ call' = [call EXCEPT ![t] = [Idle EXCEPT !.pc = pc, !.pod = p, !.live = TRUE]]
  /\ kub' = [kub EXCEPT ![p] = view]
  /\ UNCHANGED <<kubeVars, annotated, exposed, skipped, orphaned, mnt, faults>>

StartPublish(p, t) ==
  /\ appPod[p] = "active"
  /\ kub[p] \in {"waiting", "failed", "uncertain"}
  /\ Begin(p, t, "getPVC", "publishing")

Leaving(p) == appPod[p] \in {"terminating", "gone"}

StartUnpublish(p, t) ==
  /\ Leaving(p)
  /\ kub[p] \in {"published", "uncertain", "failed"}
  /\ Begin(p, t, "cleanup", "unmounting")

\* No unpublish call for a volume that was never published, nor for one whose
\* publishing ended in a final error, unless the kubelet finds the mount on
\* disk after all.
Forget(p) ==
  /\ Leaving(p)
  /\ kub[p] \in {"waiting", "failed"}
  /\ kub' = [kub EXCEPT ![p] = "forgotten"]
  /\ UNCHANGED <<kubeVars, annotated, exposed, skipped, orphaned, mnt, call, faults>>

\* The kubelet lets a terminating pod go once its volumes are unmounted.
FinalizePod(p) ==
  /\ appPod[p] = "terminating" /\ kub[p] \in {"done", "forgotten"}
  /\ appPod' = [appPod EXCEPT ![p] = "gone"]
  /\ UNCHANGED <<dataPVC, pv, sts, svc, nfsPod, driverVars>>

\* The kubelet's deadline for a call is shorter than the waits in it.  The
\* handlers use context.TODO(), so the goroutine does not notice.
KubeletTimeout(t) ==
  /\ call[t].live /\ Fault("deadline")
  /\ call' = [call EXCEPT ![t].live = FALSE]
  /\ kub' = [kub EXCEPT ![call[t].pod] = "uncertain"]
  /\ orphaned' = orphaned \cup {call[t].pod}
  /\ UNCHANGED <<kubeVars, annotated, exposed, skipped, mnt>>

CallsOn(n) == {t \in Threads : call[t].pc # "Idle" /\ NodeOfCall(t) = n}

\* The plugin's process ends; its mounts stay, its goroutines do not.
PluginRestart(n) ==
  /\ CallsOn(n) # {} /\ Fault("crash")
  /\ call' = [t \in Threads |-> IF t \in CallsOn(n) THEN Idle ELSE call[t]]
  /\ kub' = [p \in Pods |-> IF \E t \in CallsOn(n) : call[t].live /\ call[t].pod = p
                            THEN "uncertain" ELSE kub[p]]
  /\ UNCHANGED <<kubeVars, annotated, exposed, skipped, orphaned, mnt>>

\* A restarted kubelet waits for no call and mounts every volume once more.
KubeletRestart(n) ==
  /\ Fault("kubelet")
  /\ call' = [t \in Threads |-> IF t \in CallsOn(n)
                                THEN [call[t] EXCEPT !.live = FALSE] ELSE call[t]]
  /\ kub' = [p \in Pods |->
       IF NodeOf[p] = n /\ kub[p] \in {"publishing", "published", "unmounting"}
       THEN "uncertain" ELSE kub[p]]
  /\ orphaned' = orphaned \cup {call[t].pod : t \in CallsOn(n)}
  /\ UNCHANGED <<kubeVars, annotated, exposed, skipped, mnt>>

-----------------------------------------------------------------------------
\* Steps of Kube: the driver's own state stays, but for the history.
HeldUids == {call[t].uid : t \in Threads}

Cluster ==
  /\ \/ StsCreatesPod(HeldUids) \/ PodRuns \/ PodRemoved \/ CollectGarbage
     \/ DeletePV \/ DeleteDataPVC
     \/ \E p \in Pods : DeletePod(p) \/ ForceDeletePod(p)
  /\ UNCHANGED driverVars

PodCreated(p) ==
  /\ StartPod(p)
  /\ exposed' = IF \E t \in Threads : call[t].pc \in TearDown
                THEN exposed \cup {p} ELSE exposed
  /\ UNCHANGED <<annotated, skipped, orphaned, mnt, call, kub, faults>>

PodLost ==
  /\ PodFails /\ Fault("evict")
  /\ UNCHANGED <<annotated, exposed, skipped, orphaned, mnt, call, kub>>

\* Every pod has what it asked for, or is gone: the system may rest.
Settled ==
  /\ \A t \in Threads : call[t].pc = "Idle"
  /\ \A p \in Pods : \/ kub[p] \in {"published", "done", "forgotten"}
                     \/ appPod[p] = "unborn"
  /\ UNCHANGED vars

Kubelet(p) ==
  \/ \E t \in Threads : StartPublish(p, t) \/ StartUnpublish(p, t)
  \/ Forget(p) \/ FinalizePod(p)

Next ==
  \/ \E t \in Threads : Publish(t) \/ Unpublish(t) \/ KubeletTimeout(t)
  \/ \E p \in Pods : Kubelet(p) \/ PodCreated(p)
  \/ \E n \in Nodes : PluginRestart(n) \/ KubeletRestart(n)
  \/ Cluster \/ PodLost
  \/ Settled

Spec == Init /\ [][Next]_vars

\* Goroutines run; a kubelet retries what has failed; the controllers of the
\* cluster reconcile.  Nothing is assumed of users or of faults.
Fairness ==
  /\ \A t \in Threads : WF_vars(Publish(t) \/ Unpublish(t))
  /\ \A p \in Pods : WF_vars(Kubelet(p))
  /\ WF_vars(StsCreatesPod(HeldUids) /\ UNCHANGED driverVars)
  /\ WF_vars(PodRuns /\ UNCHANGED driverVars)
  /\ WF_vars(PodRemoved /\ UNCHANGED driverVars)
  /\ WF_vars(CollectGarbage /\ UNCHANGED driverVars)

FairSpec == Spec /\ Fairness

-----------------------------------------------------------------------------
(* What a node service call that was answered OK has achieved. *)

\* On a node without the data volume, a pod whose volume the kubelet takes
\* for published has a mount on its target path, whatever goes wrong
\* (nodeserver.go:353-428).
RemotePublishSound ==
  \A p \in Pods :
    kub[p] = "published" /\ NodeOf[p] \notin DataNodes => mnt[p] # <<>>

\* A published pod has a server: while a pod runs that no teardown has
\* overlooked, the StatefulSet stays, and an NFS mount leads to the present
\* Service (nodeserver.go:117-124 and 353-404, against the
\* deletions of lines 505-512).
PublishedHasServer ==
  \A p \in Pods :
    (kub[p] = "published" /\ p \in Listed \ exposed /\ dataPVC) =>
      /\ sts
      /\ \A i \in 1..Len(mnt[p]) : mnt[p][i].kind = "nfs" => mnt[p][i].ip = svc

\* A bind mount is published with all that belongs to it: a listed pod
\* carries the deletion cost only if it has one; and unless something failed
\* a running pod does carry it, and the mode is set (nodeserver.go:332-351,
\* 430-436).
LocalPublishComplete ==
  \A p \in Pods :
    (kub[p] = "published" /\ p \in Listed) =>
      LET binds == {i \in 1..Len(mnt[p]) : mnt[p][i].kind = "bind"} IN
      /\ p \in annotated => binds # {}
      /\ faults = 0 => \A i \in binds :
           /\ appPod[p] = "active" => p \in annotated
           /\ SetMode => mnt[p][i].mode

\* Unless something failed, a call falls back to NFS on the server pod's own
\* node for two reasons only: it read the pod's UID before the pod was there
\* (nodeserver.go:261, used at line 299), or the lookup takes another directory
\* of the pod for that of the data volume (lines 307-327).
FallsBackOnStaleUid ==
  \A t \in Threads :
    (/\ faults = 0
     /\ call[t].pc \in {"getSVC", "createSVC", "waitTcp", "mountNFS"}
     /\ NodeOfCall(t) = nfsPod.node)
    => call[t].uid # nfsPod.uid \/ PickSource(nfsPod.dirs) # DataMountPoint

\* As long as no call for the pod went on without its kubelet, retries never
\* mount over a mount that can be recognised as one (nodeserver.go:277-291).
NoStackedMounts ==
  \A p \in Pods \ orphaned : NodeOf[p] \notin HidingNodes => Len(mnt[p]) <= 1

\* When the kubelet of such a pod has been told that the volume is
\* unpublished, nothing is mounted on its target path any more
\* (nodeserver.go:454-459).
DoneMeansUnmounted == \A p \in Pods \ orphaned : kub[p] = "done" => mnt[p] = <<>>

\* When every pod that was created is gone and its kubelet has been told that
\* the volume is unpublished, the StatefulSet and the Service are deleted,
\* unless an unpublish call skipped a deletion: because an API call failed, or
\* because pods on their way out still counted as users (nodeserver.go:461-517).
LastUnmountDeletes ==
  (/\ pv /\ ~ skipped /\ orphaned = {}
   /\ \A p \in Pods : appPod[p] = "unborn" \/ (appPod[p] = "gone" /\ kub[p] = "done"))
  => ~ sts /\ svc = None

-----------------------------------------------------------------------------
(* What a step may never do. *)

\* A call deletes the StatefulSet only when no pod uses the claim; a pod that
\* it does not spare was created after the call had listed the pods, or the
\* list had failed (nodeserver.go:468-505).
TearDownSparesListedPods ==
  [][sts /\ ~ sts' /\ dataPVC => Listed \subseteq exposed]_vars

\* The promise of all node services together (module ExportService): the
\* goroutines, API objects and retries of nodeserver.go:50-537 implement it.
Export == INSTANCE ExportService WITH
  RemotePods <- {p \in Pods : NodeOf[p] \notin DataNodes},
  Blind <- "list" \in FaultKinds,
  users <- Listed,
  late <- exposed,
  data <- dataPVC,
  closing <- \E t \in Threads : call[t].pc \in TearDown,
  served <- sts,
  server <- nfsPod.phase,
  condemned <- nfsPod.phase # "Absent" /\ ~ nfsPod.owned,
  mounted <- {p \in Pods : mnt[p] # <<>>},
  published <- {p \in Pods : kub[p] = "published"}

ExportRefined == Export!Spec

-----------------------------------------------------------------------------
(* What must happen. *)

\* A pod that keeps running gets its volume, as long as there is data to
\* export (nodeserver.go:50-441 and the retries of the kubelet).
ActivePodPublished ==
  \A p \in Pods :
    appPod[p] = "active" ~> (kub[p] = "published" \/ appPod[p] # "active" \/ ~ dataPVC)

\* When every pod that was ever created is gone and its volume has been
\* unpublished, nothing having failed, the server goes (nodeserver.go:485-517).
AllUnpublished ==
  /\ pv /\ faults = 0
  /\ \A p \in Pods : appPod[p] = "gone" /\ kub[p] = "done"

CleanedUp == (~ sts /\ svc = None /\ nfsPod.phase = "Absent") \/ ~ pv

LastUnmountCleansUp == AllUnpublished ~> CleanedUp

\* Whatever a failed deletion, a crash, an eviction or a pod that never got
\* the volume has left behind, an unpublish call that is still to come when
\* all pods are gone and nobody publishes any more removes it (nodeserver.go:475, 509 and 516).
UnpublishDue ==
  /\ pv /\ faults = MaxFaults
  /\ \A p \in Pods : appPod[p] = "gone"
  /\ \A t \in Threads : call[t].pc \notin PublishSteps
  /\ \E p \in Pods : kub[p] \in {"published", "uncertain"}

LaterUnmountCleansUp == UnpublishDue ~> CleanedUp

-----------------------------------------------------------------------------
(* What the repository says of the program, and the program does not do. *)

\* nodeserver.go:438, "volume(%v) mount %s on %s succeeded": a publish call
\* that gets that far has mounted something.
PublishedIsMounted == \A p \in Pods : kub[p] = "published" => mnt[p] # <<>>

\* nodeserver.go:468, "Check if there is still any application POD using the
\* NFS PVC": while a running pod has the volume mounted over NFS, its server
\* is there.
ServerOutlivesUse ==
  \A p \in Pods :
    (/\ kub[p] = "published" /\ appPod[p] = "active" /\ dataPVC
     /\ mnt[p] # <<>> /\ Top(p).kind = "nfs") => sts
=============================================================================
