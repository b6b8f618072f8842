------------------------ MODULE NodeRefinementProofs ------------------------
(***************************************************************************)
(* NodeServer implements ExportService, for every value of its constants.  *)
(***************************************************************************)
EXTENDS NodeSafetyProofs

-----------------------------------------------------------------------------
(* The refinement mapping, and the abstract steps in terms of it. *)

Closing == \E t \in Threads : call[t].pc \in TearDown
MountedPods == {p \in Pods : mnt[p] # <<>>}
PublishedPods == {p \in Pods : kub[p] = "published"}
Condemned == nfsPod.phase # "Absent" /\ ~ nfsPod.owned

\* What the abstract specification sees of the API objects.
ClusterStays == UNCHANGED <<Listed, exposed, dataPVC, sts, nfsPod>>

\* A step that only gives up views, or the teardown, is a Forget.
LEMMA ByForget ==
  ASSUME ClusterStays, MountedPods' = MountedPods,
         Closing' => Closing, PublishedPods' \subseteq PublishedPods
  PROVE  Export!Next
BY DEF ClusterStays, MountedPods, Closing, PublishedPods, Export!Next, Export!Forget,
   Export!serverVars

\* A step that tells the kubelet of p "published" is a Confirm.
LEMMA ByConfirm ==
  ASSUME ClusterStays, MountedPods' = MountedPods, Closing' <=> Closing,
         NEW p \in Pods, PublishedPods' = PublishedPods \cup {p},
         NodeOf[p] \notin DataNodes => p \in MountedPods
  PROVE  Export!Next
<1>1. Export!Confirm(p)
  BY DEF ClusterStays, MountedPods, Closing, PublishedPods, Export!Confirm,
     Export!serverVars
<1> QED BY <1>1 DEF Export!Next

\* A step that mounts the volume of p is a Mount.
LEMMA ByMount ==
  ASSUME ClusterStays, Closing' <=> Closing, PublishedPods' = PublishedPods,
         NEW p \in Pods, MountedPods' = MountedPods \cup {p}, nfsPod.phase = "Running"
  PROVE  Export!Next
<1>1. Export!Mount(p)
  BY DEF ClusterStays, MountedPods, Closing, PublishedPods, Export!Mount,
     Export!serverVars
<1> QED BY <1>1 DEF Export!Next

\* A step that unmounts the volume of p is an Unmount.
LEMMA ByUnmount ==
  ASSUME ClusterStays, Closing' <=> Closing, PublishedPods' = PublishedPods,
         NEW p \in Pods, MountedPods' = MountedPods \ {p}, p \notin PublishedPods
  PROVE  Export!Next
<1>1. Export!Unmount(p)
  BY DEF ClusterStays, MountedPods, Closing, PublishedPods, Export!Unmount,
     Export!serverVars
<1> QED BY <1>1 DEF Export!Next

-----------------------------------------------------------------------------
(* The calls. *)

\* While a publish call runs, it neither begins nor ends a teardown.
LEMMA PublishClosing ==
  ASSUME TypeOK, NEW t \in Threads, Publish(t)
  PROVE  Closing' <=> Closing
<1>1. StepOf(t, PublishSteps, PublishViews)
  BY PublishShape
<1>2. call[t].pc \notin TearDown /\ call'[t].pc \notin TearDown
  <2>1. CASE GoesOn(t, PublishSteps)
    BY <1>1, <2>1 DEF StepOf, GoesOn, PublishSteps, TearDown
  <2>2. CASE Ends(t, PublishViews)
    BY <1>1, <2>2 DEF StepOf, Ends, Answer, Idle, PublishSteps, TearDown, TypeOK, CallsOK
  <2> QED BY <1>1, <2>1, <2>2 DEF StepOf
<1> QED BY <1>1, <1>2 DEF StepOf, OthersStay, Closing

\* A publish call that goes on, or fails, adds nothing to the published pods.
LEMMA PublishedStays ==
  ASSUME TypeOK, CallsAgree, NEW t \in Threads, call[t].pc \in PublishSteps
  PROVE  /\ \A c : Continue(t, c) => PublishedPods' = PublishedPods
         /\ \A pc : Goto(t, pc) => PublishedPods' = PublishedPods
         /\ \A code : code # "OK" /\ PublishAnswer(t, code) => PublishedPods' = PublishedPods
<1>1. \A c : Continue(t, c) => PublishedPods' = PublishedPods
  BY DEF Continue, PublishedPods
<1>2. ASSUME NEW code, code # "OK", PublishAnswer(t, code)
      PROVE  PublishedPods' = PublishedPods
  <2>1. PublishView(code) # "published"
    BY <1>2 DEF PublishView
  <2>2. call[t].live => kub[call[t].pod] # "published"
    BY DEF CallsAgree
  <2> QED BY <1>2, <2>1, <2>2 DEF PublishAnswer, Answer, PublishedPods, TypeOK
<1> QED BY <1>1, <1>2 DEF Goto

\* A publish call that answers OK may publish its own pod.
LEMMA PublishedGrows ==
  ASSUME TypeOK, NEW t \in Threads, call[t].pc \in PublishSteps, PublishAnswer(t, "OK")
  PROVE  PublishedPods' \in {PublishedPods, PublishedPods \cup {call[t].pod}}
<1>1. PublishView("OK") = "published"
  BY DEF PublishView
<1>2. call[t].pod \in Pods
  BY StepsDisjoint DEF TypeOK, CallsOK
<1> QED BY <1>1, <1>2 DEF PublishAnswer, Answer, PublishedPods, TypeOK

\* Every step of a publish call is a step of the abstract specification.
LEMMA RefinePublish ==
  ASSUME RemoteInv, NEW t \in Threads, Publish(t)
  PROVE  Export!Next \/ UNCHANGED Export!vars
<1> DEFINE p == call[t].pod
<1>0. /\ TypeOK /\ CallsAgree /\ call[t].pc \in PublishSteps
      /\ p \in Pods /\ mnt \in [Pods -> Seq(Mounts)]
  BY PublishShape, StepsDisjoint DEF RemoteInv, StepOf, TypeOK, CallsOK
<1>1. Closing' <=> Closing
  BY <1>0, PublishClosing
<1>2. UNCHANGED <<Listed, exposed>>
  <2>1. Listed' = Listed
    BY <1>0, PublishShape DEF StepOf, Listed
  <2>2. exposed' = exposed
    BY DEF Publish, GetPVC, GetSTS, CreateSTS, GetPod, WaitPod, CheckTarget, FindSource,
       BindLocal, GetAppPod, Annotate, GetSVC, CreateSVC, WaitTcp, MountNFS, Chmod
  <2> QED BY <2>1, <2>2
<1>3. /\ \A c : Continue(t, c) => PublishedPods' = PublishedPods
      /\ \A pc : Goto(t, pc) => PublishedPods' = PublishedPods
      /\ \A code : code # "OK" /\ PublishAnswer(t, code) => PublishedPods' = PublishedPods
  BY <1>0, PublishedStays
<1>4. ASSUME NEW m, Push(p, m) PROVE MountedPods' = MountedPods \cup {p}
  <2>1. mnt'[p] # <<>> /\ \A q \in Pods \ {p} : mnt'[q] = mnt[q]
    BY <1>0, <1>4 DEF Push
  <2> QED BY <1>0, <2>1 DEF MountedPods
<1>5. mnt' = mnt => MountedPods' = MountedPods
  BY DEF MountedPods
<1>6. CASE GetPVC(t) \/ GetSTS(t) \/ GetPod(t) \/ WaitPod(t) \/ FindSource(t)
           \/ GetAppPod(t) \/ Annotate(t) \/ GetSVC(t) \/ CreateSVC(t) \/ WaitTcp(t)
  <2>1. ClusterStays /\ mnt' = mnt
    BY <1>2, <1>6 DEF GetPVC, GetSTS, GetPod, WaitPod, FindSource, GetAppPod, Annotate, GetSVC,
       CreateSVC, WaitTcp, ClusterStays, kubeVars
  <2>2. PublishedPods' = PublishedPods
    BY <1>3, <1>6 DEF GetPVC, GetSTS, GetPod, WaitPod, FindSource, GetAppPod, Annotate, GetSVC,
       CreateSVC, WaitTcp
  <2> QED BY <1>1, <1>5, <2>1, <2>2, ByForget
<1>7. CASE CreateSTS(t)
  <2>1. PublishedPods' = PublishedPods /\ MountedPods' = MountedPods
    BY <1>3, <1>5, <1>7 DEF CreateSTS
  <2>2. CASE UNCHANGED sts
    <3>1. ClusterStays
      BY <1>2, <1>7, <2>2 DEF CreateSTS, ClusterStays
    <3> QED BY <1>1, <2>1, <3>1, ByForget
  <2>3. CASE sts' = TRUE
    <3>1. Export!Serve
      BY <1>1, <1>2, <1>7, <2>1, <2>3
         DEF CreateSTS, Export!Serve, Export!podVars, Closing, MountedPods, PublishedPods
    <3> QED BY <3>1 DEF Export!Next
  <2> QED BY <1>7, <2>2, <2>3 DEF CreateSTS
<1>8. CASE CheckTarget(t)
  <2>1. ClusterStays /\ MountedPods' = MountedPods
    BY <1>2, <1>5, <1>8 DEF CheckTarget, ClusterStays, kubeVars
  <2>2. CASE PublishedPods' = PublishedPods
    BY <1>1, <2>1, <2>2, ByForget
  <2>3. CASE LooksMounted(p) /\ PublishAnswer(t, "OK")
    <3>1. p \in MountedPods
      BY <1>0, <2>3 DEF LooksMounted, MountedPods
    <3>2. PublishedPods' \in {PublishedPods, PublishedPods \cup {p}}
      BY <1>0, <2>3, PublishedGrows
    <3> QED BY <1>0, <1>1, <2>1, <2>2, <3>1, <3>2, ByConfirm
  <2> QED BY <1>3, <1>8, <2>2, <2>3 DEF CheckTarget
<1>9. CASE BindLocal(t) \/ MountNFS(t)
  <2>1. ClusterStays /\ PublishedPods' = PublishedPods
    BY <1>2, <1>3, <1>9 DEF BindLocal, MountNFS, AfterMountNFS, ClusterStays, kubeVars
  <2>2. CASE UNCHANGED mnt
    BY <1>1, <1>5, <2>1, <2>2, ByForget
  <2>3. CASE nfsPod.phase = "Running" /\ \E m : Push(p, m)
    BY <1>0, <1>1, <1>4, <2>1, <2>3, ByMount
  <2> QED BY <1>9, <2>2, <2>3
          DEF BindLocal, MountNFS, LocalSource, PodVolumesMounted, ServerUp
<1>10. CASE Chmod(t)
  <2>1. ClusterStays
    BY <1>2, <1>10 DEF Chmod, ClusterStays, kubeVars
  <2>2. MountedPods' = MountedPods
    <3>1. ASSUME SetTopMode(p) PROVE MountedPods' = MountedPods
      BY <1>0, <1>5, <3>1 DEF SetTopMode, ModeSet, MountedPods
    <3> QED BY <1>5, <1>10, <3>1 DEF Chmod
  <2>3. CASE PublishAnswer(t, "OK")
    <3>1. NodeOf[p] \in DataNodes
      BY <1>0, <1>10 DEF Chmod, RemoteInv, RemoteCalls, NodeOfCall
    <3>2. PublishedPods' \in {PublishedPods, PublishedPods \cup {p}}
      BY <1>0, <2>3, PublishedGrows
    <3> QED BY <1>0, <1>1, <2>1, <2>2, <3>1, <3>2, ByConfirm, ByForget
  <2>4. CASE PublishAnswer(t, "Internal")
    BY <1>1, <1>3, <2>1, <2>2, <2>4, ByForget
  <2> QED BY <1>10, <2>3, <2>4 DEF Chmod
<1> QED BY <1>6, <1>7, <1>8, <1>9, <1>10 DEF Publish

\* Every step of an unpublish call is a step of the abstract specification.
LEMMA RefineUnpublish ==
  ASSUME RemoteInv, NEW t \in Threads, Unpublish(t)
  PROVE  Export!Next \/ UNCHANGED Export!vars
<1> DEFINE p == call[t].pod
<1>0. /\ TypeOK /\ call[t].pc \in UnpublishSteps
      /\ p \in Pods /\ mnt \in [Pods -> Seq(Mounts)] /\ p \notin PublishedPods
  BY UnpublishShape, StepsDisjoint
     DEF RemoteInv, StepOf, TypeOK, CallsOK, CallsAgree, PublishedPods
<1>1. /\ Listed' = Listed /\ PublishedPods' = PublishedPods
      /\ ~ ListPods(t) => exposed' = exposed
  <2>1. PublishedPods' = PublishedPods
    BY <1>0, UnpublishShape
       DEF StepOf, GoesOn, Ends, Answer, UnpublishViews, PublishedPods, TypeOK
  <2>2. ~ ListPods(t) => exposed' = exposed
    BY DEF Unpublish, CleanupMountPoint, GetPV, DeleteSTS, DeleteSVC, WaitGone
  <2> QED BY <1>0, <2>1, <2>2, UnpublishShape DEF StepOf, Listed
<1>2. OthersStay(t)
  BY <1>0, UnpublishShape DEF StepOf
<1>3. /\ \A pc : Goto(t, pc) => call'[t].pc = pc
      /\ \A code : UnpublishAnswer(t, code) => call'[t].pc = "Idle"
  <2>1. \A pc : Goto(t, pc) => call'[t].pc = pc
    BY <1>0, GotoPc
  <2>2. \A code : UnpublishAnswer(t, code) => call'[t].pc = "Idle"
    BY <1>0, UnpublishAnswerShape DEF Idle
  <2> QED BY <2>1, <2>2
<1>4. CASE CleanupMountPoint(t)
  <2>1. ClusterStays
    BY <1>1, <1>4 DEF CleanupMountPoint, ListPods, ClusterStays, kubeVars
  <2>2. Closing' <=> Closing
    BY <1>2, <1>3, <1>4
       DEF CleanupMountPoint, CleanupFailed, OthersStay, Closing, TearDown
  <2>3. CASE mnt' = [mnt EXCEPT ![p] = <<>>]
    <3>1. MountedPods' = MountedPods \ {p}
      BY <1>0, <2>3 DEF MountedPods
    <3> QED BY <1>0, <1>1, <2>1, <2>2, <3>1, ByUnmount
  <2>4. CASE MountedPods' = MountedPods
    BY <1>1, <2>1, <2>2, <2>4, ByForget
  <2>5. CASE Len(mnt[p]) > 1 /\ mnt' = [mnt EXCEPT ![p] = SubSeq(@, 1, Len(@) - 1)]
    <3>1. Len(SubSeq(mnt[p], 1, Len(mnt[p]) - 1)) = Len(mnt[p]) - 1
      BY <1>0, <2>5
    <3>2. mnt'[p] # <<>> /\ mnt[p] # <<>>
      <4>1. mnt'[p] = SubSeq(mnt[p], 1, Len(mnt[p]) - 1)
        BY <1>0, <2>5
      <4>2. mnt[p] \in Seq(Mounts) /\ Len(mnt[p]) \in Nat
        BY <1>0
      <4>3. Len(mnt'[p]) > 0
        BY <2>5, <3>1, <4>1, <4>2
      <4>4. \A s : Len(s) > 0 => s # <<>>
        OBVIOUS
      <4>5. Len(mnt[p]) > 0
        BY <2>5, <4>2
      <4> QED BY <4>3, <4>4, <4>5, Zenon
    <3>3. MountedPods' = MountedPods
      BY <1>0, <2>5, <3>2 DEF MountedPods
    <3> QED BY <2>4, <3>3
  <2> QED BY <1>4, <2>3, <2>4, <2>5 DEF CleanupMountPoint, MountedPods
<1>5. CASE ListPods(t) /\ Goto(t, "deleteSTS")
  <2>1. Closing'
    BY <1>3, <1>5 DEF Closing, TearDown
  <2>2. CASE Listed = {} /\ UNCHANGED exposed
    <3>1. Export!Close
      BY <1>1, <1>5, <2>1, <2>2 DEF ListPods, Export!Close, Export!serverVars, Export!podVars,
         Closing, MountedPods, PublishedPods, kubeVars
    <3> QED BY <3>1 DEF Export!Next
  <2>3. CASE "list" \in FaultKinds /\ exposed' = exposed \cup Listed
    <3>1. Export!CloseBlindly
      BY <1>1, <1>5, <2>1, <2>3 DEF ListPods, Export!CloseBlindly, Export!serverVars,
         Export!podVars, Closing, MountedPods, PublishedPods, kubeVars
    <3> QED BY <3>1 DEF Export!Next
  <2> QED BY <1>3, <1>5, <2>2, <2>3 DEF ListPods, ClaimInUse, Fault
<1>6. CASE GetPV(t) \/ (ListPods(t) /\ UnpublishAnswer(t, "OK")) \/ DeleteSVC(t) \/ WaitGone(t)
  <2>1. ClusterStays /\ MountedPods' = MountedPods
    <3>1. ListPods(t) /\ UnpublishAnswer(t, "OK") => exposed' = exposed
      BY <1>3 DEF ListPods
    <3> QED BY <1>1, <1>6, <3>1
            DEF GetPV, ListPods, DeleteSVC, WaitGone, ClusterStays, MountedPods, kubeVars
  <2>2. Closing' => Closing
    BY <1>2, <1>3, <1>6
       DEF GetPV, ListPods, DeleteSVC, WaitGone, OthersStay, Closing, TearDown
  <2> QED BY <1>1, <2>1, <2>2, ByForget
<1>7. CASE DeleteSTS(t)
  <2>1. Closing /\ Closing'
    BY <1>3, <1>7 DEF DeleteSTS, Closing, TearDown
  <2>2. CASE UNCHANGED <<sts, nfsPod>>
    <3>1. ClusterStays /\ MountedPods' = MountedPods
      BY <1>1, <1>7, <2>2 DEF DeleteSTS, ListPods, ClusterStays, MountedPods
    <3> QED BY <1>1, <2>1, <3>1, ByForget
  <2>3. CASE sts' = FALSE /\ nfsPod' = [nfsPod EXCEPT !.owned = FALSE]
    <3>1. nfsPod'.phase = nfsPod.phase /\ ~ nfsPod'.owned
      BY <1>0, <2>3 DEF TypeOK, KubeTypeOK
    <3>2. Export!Withdraw
      BY <1>1, <1>7, <2>1, <2>3, <3>1 DEF DeleteSTS, Export!Withdraw, Export!podVars,
         Closing, MountedPods, PublishedPods
    <3> QED BY <3>2 DEF Export!Next
  <2> QED BY <1>7, <2>2, <2>3 DEF DeleteSTS
<1>8. ListPods(t) => Goto(t, "deleteSTS") \/ UnpublishAnswer(t, "OK")
  BY DEF ListPods
<1> QED BY <1>4, <1>5, <1>6, <1>7, <1>8 DEF Unpublish

-----------------------------------------------------------------------------
(* The kubelets, the restarts and the cluster. *)

\* A kubelet, a restart or a lost answer only takes views and calls away.
LEMMA RefineKubelet ==
  ASSUME TypeOK,
         \/ \E t \in Threads : KubeletTimeout(t)
         \/ \E p \in Pods : Forget(p) \/ \E t \in Threads : StartPublish(p, t) \/ StartUnpublish(p, t)
         \/ \E n \in Nodes : PluginRestart(n) \/ KubeletRestart(n)
  PROVE  Export!Next
<1>0. /\ call \in [Threads -> Calls] /\ kub \in [Pods -> Views]
      /\ Idle.pc \notin TearDown
  BY DEF TypeOK, CallsOK, Idle, TearDown
<1>1. ClusterStays /\ MountedPods' = MountedPods
  BY DEF KubeletTimeout, Forget, StartPublish, StartUnpublish, Begin, PluginRestart,
     KubeletRestart, ClusterStays, MountedPods, Listed, kubeVars
<1>2. \A u \in Threads : call'[u].pc \in TearDown => call[u].pc \in TearDown
  <2>1. ASSUME NEW t \in Threads, KubeletTimeout(t)
        PROVE  \A u \in Threads : call'[u].pc = call[u].pc
    BY <1>0, <2>1 DEF KubeletTimeout, Calls
  <2>2. ASSUME NEW p \in Pods, NEW t \in Threads, StartPublish(p, t) \/ StartUnpublish(p, t)
        PROVE  \A u \in Threads : call'[u].pc \in TearDown => call[u].pc \in TearDown
    <3>1. PICK pc \in {"getPVC", "cleanup"} :
            call' = [call EXCEPT ![t] = [Idle EXCEPT !.pc = pc, !.pod = p, !.live = TRUE]]
      BY <2>2 DEF StartPublish, StartUnpublish, Begin
    <3> QED BY <1>0, <3>1 DEF Idle, TearDown
  <2>3. ASSUME NEW n \in Nodes, PluginRestart(n) \/ KubeletRestart(n)
        PROVE  \A u \in Threads : call'[u].pc \in TearDown => call[u].pc \in TearDown
    BY <1>0, <2>3 DEF PluginRestart, KubeletRestart, Calls
  <2>4. ASSUME NEW p \in Pods, Forget(p)
        PROVE  call' = call
    BY <2>4 DEF Forget
  <2> QED BY <2>1, <2>2, <2>3, <2>4
<1>3. \A p \in Pods : kub'[p] = "published" => kub[p] = "published"
  BY <1>0 DEF KubeletTimeout, Forget, StartPublish, StartUnpublish, Begin, PluginRestart,
     KubeletRestart
<1>4. Closing' => Closing
  BY <1>2 DEF Closing
<1>5. PublishedPods' \subseteq PublishedPods
  BY <1>3 DEF PublishedPods
<1> QED BY <1>1, <1>4, <1>5, ByForget

\* Pods come and go, and so do the server and its data.
LEMMA RefineCluster ==
  ASSUME TypeOK,
         \/ \E p \in Pods : FinalizePod(p) \/ PodCreated(p)
         \/ Cluster \/ PodLost \/ UNCHANGED vars
  PROVE  Export!Next \/ UNCHANGED Export!vars
<1> USE DEF Closing, MountedPods, PublishedPods, driverVars
<1>0. appPod \in [Pods -> {"unborn", "active", "terminating", "gone"}]
  BY DEF TypeOK, KubeTypeOK
<1>1. ASSUME NEW p \in Pods, PodCreated(p) PROVE Export!Next
  <2>1. Listed' = Listed \cup {p}
    BY <1>0, <1>1 DEF PodCreated, StartPod, Listed
  <2>2. Export!Arrive(p)
    BY <1>1, <2>1 DEF PodCreated, StartPod, Export!Arrive, Export!serverVars, Export!podVars
  <2> QED BY <2>2 DEF Export!Next
<1>2. ASSUME NEW p \in Pods, FinalizePod(p) \/ (ForceDeletePod(p) /\ UNCHANGED driverVars)
      PROVE  Export!Next
  <2>1. Listed' = Listed \ {p}
    BY <1>0, <1>2 DEF FinalizePod, ForceDeletePod, Listed
  <2>2. Export!Leave(p)
    BY <1>2, <2>1 DEF FinalizePod, ForceDeletePod, Export!Leave, Export!serverVars,
       Export!podVars
  <2> QED BY <2>2 DEF Export!Next
<1>3. ASSUME NEW p \in Pods, DeletePod(p), UNCHANGED driverVars PROVE Export!Next
  <2>1. Listed' = Listed
    BY <1>0, <1>3 DEF DeletePod, Listed
  <2> QED BY <1>3, <2>1, ByForget DEF DeletePod, ClusterStays
<1>4. CASE (StsCreatesPod(HeldUids) \/ PodRuns \/ PodRemoved) /\ UNCHANGED driverVars
  <2>1. Listed' = Listed
    BY <1>4 DEF StsCreatesPod, PodRuns, PodRemoved, Listed
  <2>2. CASE StsCreatesPod(HeldUids)
    <3>1. sts /\ dataPVC /\ nfsPod.phase = "Absent" /\ nfsPod'.phase = "Pending" /\ nfsPod'.owned
      BY <2>2 DEF StsCreatesPod
    <3>2. Export!Launch
      BY <3>1 DEF Export!Launch, Export!Moves
    <3>3. Export!ServerMoves
      BY <1>4, <2>1, <2>2, <3>2 DEF StsCreatesPod, Export!ServerMoves, Export!podVars
    <3> QED BY <3>3 DEF Export!Next
  <2>3. CASE PodRuns
    <3>1. nfsPod.phase = "Pending" /\ nfsPod'.phase = "Running" /\ nfsPod'.owned = nfsPod.owned
      BY <2>3 DEF PodRuns, TypeOK, KubeTypeOK
    <3>2. Export!Run
      BY <3>1 DEF Export!Run, Export!Moves
    <3>3. Export!ServerMoves
      BY <1>4, <2>1, <2>3, <3>2 DEF PodRuns, Export!ServerMoves, Export!podVars
    <3> QED BY <3>3 DEF Export!Next
  <2>4. CASE PodRemoved
    <3>1. /\ nfsPod.phase # "Absent" /\ (~ nfsPod.owned \/ nfsPod.phase = "Failed")
          /\ nfsPod'.phase = "Absent"
      BY <2>4 DEF PodRemoved, NoPod
    <3>2. Export!Remove
      BY <3>1 DEF Export!Remove
    <3>3. Export!ServerMoves
      BY <1>4, <2>1, <2>4, <3>2 DEF PodRemoved, Export!ServerMoves, Export!podVars
    <3> QED BY <3>3 DEF Export!Next
  <2> QED BY <1>4, <2>2, <2>3, <2>4
<1>5. CASE PodLost
  <2>1. /\ nfsPod.phase \in {"Pending", "Running"} /\ nfsPod'.phase = "Failed"
        /\ nfsPod'.owned = nfsPod.owned
    BY <1>5 DEF PodLost, PodFails, TypeOK, KubeTypeOK
  <2>2. Export!Fail
    BY <2>1 DEF Export!Fail, Export!Moves
  <2>3. Export!ServerMoves
    BY <1>5, <2>2 DEF PodLost, PodFails, Listed, Export!ServerMoves, Export!podVars
  <2> QED BY <2>3 DEF Export!Next
<1>6. CASE CollectGarbage /\ UNCHANGED driverVars
  <2>1. nfsPod'.phase = nfsPod.phase /\ ~ nfsPod'.owned
    BY <1>6 DEF CollectGarbage, TypeOK, KubeTypeOK
  <2>2. Export!Withdraw
    BY <1>6, <2>1 DEF CollectGarbage, Listed, Export!Withdraw, Export!podVars
  <2> QED BY <2>2 DEF Export!Next
<1>7. CASE DeletePV /\ UNCHANGED driverVars
  BY <1>7, ByForget DEF DeletePV, Listed, ClusterStays
<1>8. CASE DeleteDataPVC /\ UNCHANGED driverVars
  <2>1. Export!LoseData
    BY <1>8 DEF DeleteDataPVC, Listed, Export!LoseData, Export!serverVars, Export!podVars
  <2> QED BY <2>1 DEF Export!Next
<1>9. CASE UNCHANGED vars
  BY <1>9, ByForget DEF vars, kubeVars, Listed, ClusterStays
<1> QED BY <1>1, <1>2, <1>3, <1>4, <1>5, <1>6, <1>7, <1>8, <1>9 DEF Cluster

-----------------------------------------------------------------------------
\* The initial states are initial states of the abstract specification.
LEMMA RefineInit == Init => Export!Init
BY DEF Init, KubeInit, Idle, NoPod, TearDown, Listed, Export!Init

\* Every step is an abstract step, or changes nothing abstract.
LEMMA RefineNext == RemoteInv /\ [Next]_vars => [Export!Next]_(Export!vars)
<1> SUFFICES ASSUME RemoteInv, [Next]_vars
             PROVE  Export!Next \/ UNCHANGED Export!vars
  OBVIOUS
<1>1. ASSUME NEW t \in Threads, Publish(t) PROVE Export!Next \/ UNCHANGED Export!vars
  BY <1>1, RefinePublish
<1>2. ASSUME NEW t \in Threads, Unpublish(t) PROVE Export!Next \/ UNCHANGED Export!vars
  BY <1>2, RefineUnpublish
<1> QED BY <1>1, <1>2, RefineKubelet, RefineCluster DEF Next, Kubelet, Settled, RemoteInv

\* The node services implement the abstract export service: for any number of
\* nodes, pods, goroutines, crashes, lost answers and other failures, the
\* server is withdrawn only after nobody was seen to use the volume, a remote
\* pod is told "published" only while it has a mount, and a mount is never
\* taken from a published pod (nodeserver.go:50-537).
THEOREM NodeServerImplementsExport == Spec => ExportRefined
<1>1. RemoteInv /\ [Next]_vars => [Export!Next]_(Export!vars)
  BY RefineNext
<1> QED
  BY <1>1, RemoteInit, RemoteInvNext, RefineInit, PTL DEF Spec, ExportRefined, Export!Spec

-----------------------------------------------------------------------------
(* What the promise is worth to a pod. *)

\* The abstract specification keeps it, whatever implements it.
LEMMA ExportKeepsPromise == Export!Spec => []Export!Promise
<1>1. Export!Init => Export!Promise
  BY DEF Export!Init, Export!Promise
<1>2. Export!Promise /\ [Export!Next]_(Export!vars) => Export!Promise'
  <2> SUFFICES ASSUME Export!Promise, [Export!Next]_(Export!vars)
               PROVE  Export!Promise'
    OBVIOUS
  <2> USE DEF Export!Promise, Export!serverVars, Export!podVars
  <2>1. ASSUME NEW p \in Pods, Export!Arrive(p) \/ Export!Leave(p)
        PROVE  Export!Promise'
    BY <2>1 DEF Export!Arrive, Export!Leave
  <2>2. ASSUME NEW p \in Pods, Export!Mount(p) \/ Export!Unmount(p) \/ Export!Confirm(p)
        PROVE  Export!Promise'
    BY <2>2 DEF Export!Mount, Export!Unmount, Export!Confirm
  <2>3. CASE Export!Close \/ Export!CloseBlindly \/ Export!Forget
    BY <2>3 DEF Export!Close, Export!CloseBlindly, Export!Forget
  <2>4. CASE \/ Export!Serve \/ Export!Withdraw \/ Export!ServerMoves \/ Export!LoseData
             \/ UNCHANGED Export!vars
    BY <2>4
       DEF Export!Serve, Export!Withdraw, Export!ServerMoves, Export!LoseData, Export!vars
  <2> QED BY <2>1, <2>2, <2>3, <2>4 DEF Export!Next
<1> QED BY <1>1, <1>2, PTL DEF Export!Spec

\* So does each of its steps.
LEMMA ExportStepKeeps ==
  ASSUME Export!Promise, Export!Next
  PROVE  /\ (sts /\ ~ sts') \/ (~ Condemned /\ Condemned') =>
              Listed \subseteq exposed \/ ~ dataPVC
         /\ (PublishedPods \cap MountedPods) \subseteq MountedPods'
<1> USE DEF Export!Promise, Export!serverVars, Export!podVars, PublishedPods, MountedPods,
            Condemned
<1>1. ASSUME NEW p \in Pods, Export!Arrive(p) \/ Export!Leave(p)
      PROVE  UNCHANGED <<sts, Condemned, MountedPods>>
  BY <1>1 DEF Export!Arrive, Export!Leave
<1>2. ASSUME NEW p \in Pods, Export!Mount(p) \/ Export!Unmount(p) \/ Export!Confirm(p)
      PROVE  /\ UNCHANGED <<sts, Condemned>>
             /\ (PublishedPods \cap MountedPods) \subseteq MountedPods'
  BY <1>2 DEF Export!Mount, Export!Unmount, Export!Confirm
<1>3. CASE Export!Close \/ Export!CloseBlindly \/ Export!Forget \/ Export!Serve \/ Export!LoseData
  BY <1>3 DEF Export!Close, Export!CloseBlindly, Export!Forget, Export!Serve, Export!LoseData
<1>4. CASE Export!Withdraw
  BY <1>4 DEF Export!Withdraw
<1>5. CASE Export!ServerMoves
  BY <1>5 DEF Export!ServerMoves, Export!Launch, Export!Run, Export!Fail, Export!Remove,
              Export!Moves
<1> QED BY <1>1, <1>2, <1>3, <1>4, <1>5 DEF Export!Next

\* Whatever fails, whoever withdraws the server has overlooked only late
\* pods, and a remote pod that was told "published" has its mount
\* (nodeserver.go:353-428 and 468-505).
THEOREM NodeServerKeepsPromise == Spec => []Export!Promise
BY NodeServerImplementsExport, ExportKeepsPromise, PTL DEF ExportRefined

\* Whatever fails, the StatefulSet is given up, and its pod with it, only when
\* all users are late or the data is gone, and no pod loses its mount while it
\* relies on it (nodeserver.go:444-517).
THEOREM NodeServerLasts == Spec => Export!ServerLasts /\ Export!MountsLast
<1>1. Export!Promise /\ [Export!Next]_(Export!vars) =>
        /\ [(sts /\ ~ sts') \/ (~ Condemned /\ Condemned') =>
              Listed \subseteq exposed \/ ~ dataPVC]_(Export!vars)
        /\ [(PublishedPods \cap MountedPods) \subseteq MountedPods']_(Export!vars)
  BY ExportStepKeeps
<1>2. Spec => []Export!Promise /\ [][Export!Next]_(Export!vars)
  BY NodeServerKeepsPromise, NodeServerImplementsExport, PTL DEF ExportRefined, Export!Spec
<1> QED
  BY <1>1, <1>2, PTL
     DEF Export!ServerLasts, Export!MountsLast, PublishedPods, MountedPods, Condemned
=============================================================================
