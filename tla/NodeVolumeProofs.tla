-------------------------- MODULE NodeVolumeProofs --------------------------
(***************************************************************************)
(* More properties of module NodeServer, for every value of its            *)
(* constants: that a published pod has a server, how mounts and retries    *)
(* get on with each other, why a pod beside the data gets an NFS mount,    *)
(* what belongs to a bind mount, and that the last unmount deletes the     *)
(* server.                                                                 *)
(***************************************************************************)
EXTENDS NodeSafetyProofs

-----------------------------------------------------------------------------
(* A published pod has a server. *)

\* The mode is set on the topmost mount, and nothing else is touched.
LEMMA ModeSetMounts ==
  ASSUME NEW s \in Seq(Mounts), s # <<>>
  PROVE  /\ Len(ModeSet(s)) = Len(s)
         /\ \A i \in 1..Len(s) : /\ ModeSet(s)[i].kind = s[i].kind
                                 /\ ModeSet(s)[i].ip = s[i].ip
                                 /\ s[i].mode => ModeSet(s)[i].mode
         /\ ModeSet(s)[Len(s)].mode
<1> DEFINE n == Len(s)
           m == [s[n] EXCEPT !.mode = TRUE]
<1>1. n \in 1..Len(s) /\ \A i \in 1..Len(s) : s[i] \in Mounts
  OBVIOUS
<1>2. m.kind = s[n].kind /\ m.ip = s[n].ip /\ m.mode
  BY <1>1 DEF Mounts
<1>3. ModeSet(s) = [s EXCEPT ![n] = m]
  BY <1>1 DEF ModeSet
<1>4. /\ Len(ModeSet(s)) = Len(s)
      /\ \A i \in 1..Len(s) : ModeSet(s)[i] = IF i = n THEN m ELSE s[i]
  BY <1>1, <1>3
<1> HIDE DEF m
<1> QED BY <1>1, <1>2, <1>4

\* Nothing has happened yet for a pod that is still to be created.
UnbornIdle ==
  \A p \in Pods : appPod[p] = "unborn" =>
    /\ mnt[p] = <<>> /\ kub[p] = "waiting"
    /\ \A t \in Threads : call[t].pc # "Idle" => call[t].pod # p

AfterSTS == PublishSteps \ {"getPVC", "getSTS", "createSTS"}
HasIP == {"waitTcp", "mountNFS"}

\* What a publish call has found or made is still there.
CallServed(t) ==
  /\ call[t].pc \in AfterSTS => sts
  /\ call[t].pc \in HasIP => call[t].ip = svc /\ svc # None

\* The pod's NFS mounts lead to the present Service.
MountsServed(p) ==
  \A i \in 1..Len(mnt[p]) : mnt[p][i].kind = "nfs" => mnt[p][i].ip = svc /\ svc # None

\* The pod, its mounts and its calls have what they need.
PodServed(p) ==
  /\ kub[p] = "published" => sts
  /\ MountsServed(p)
  /\ \A t \in Threads : call[t].pod = p => CallServed(t)

\* So have all pods that no teardown has exposed, while there is data.
Served == \A p \in Listed \ exposed : dataPVC => PodServed(p)

ServedInv == RemoteInv /\ TearDownInv /\ UnbornIdle /\ Served

\* Only an unpublish call in its teardown takes a Service away whose data is
\* still there, and only a call that finds none makes one.
LEMMA ServiceStays ==
  ASSUME TypeOK, TearDownInv, [Next]_vars, svc # None, svc' # svc, dataPVC
  PROVE  Listed \subseteq exposed
<1>1. ASSUME NEW t \in Threads, Publish(t) PROVE FALSE
  BY <1>1 DEF Publish, GetPVC, GetSTS, CreateSTS, GetPod, WaitPod, CheckTarget, FindSource,
     BindLocal, GetAppPod, Annotate, GetSVC, CreateSVC, WaitTcp, MountNFS, Chmod, kubeVars
<1>2. ASSUME NEW t \in Threads, Unpublish(t) PROVE call[t].pc \in TearDown
  BY <1>2 DEF Unpublish, CleanupMountPoint, GetPV, ListPods, DeleteSTS, DeleteSVC,
     WaitGone, kubeVars, TearDown
<1>3. ASSUME NEW t \in Threads, KubeletTimeout(t) PROVE FALSE
  BY <1>3 DEF KubeletTimeout, kubeVars
<1>4. ASSUME NEW p \in Pods, Kubelet(p) \/ PodCreated(p) PROVE FALSE
  BY <1>4 DEF Kubelet, StartPublish, StartUnpublish, Begin, Forget, FinalizePod,
     PodCreated, StartPod, kubeVars
<1>5. ASSUME NEW n \in Nodes, PluginRestart(n) \/ KubeletRestart(n) PROVE FALSE
  BY <1>5 DEF PluginRestart, KubeletRestart, kubeVars
<1>6. CASE Cluster \/ PodLost
  BY <1>6 DEF Cluster, PodLost, PodFails, StsCreatesPod, PodRuns, PodRemoved,
     CollectGarbage, DeletePV, DeleteDataPVC, DeletePod, ForceDeletePod
<1>7. CASE UNCHANGED vars
  BY <1>7 DEF vars, kubeVars
<1> QED BY <1>1, <1>2, <1>3, <1>4, <1>5, <1>6, <1>7 DEF Next, Settled, TearDownInv

\* What was there is there after the step.
ServerStays == (sts => sts') /\ (svc # None => svc' = svc)

\* So it is, as long as a listed pod needs it.
LEMMA ServerStaysFor ==
  ASSUME TypeOK, TearDownInv, [Next]_vars, NEW p \in Listed \ exposed, dataPVC
  PROVE  ServerStays
BY TearDownStep, ServiceStays DEF ServerStays, TypeOK, KubeTypeOK

\* A pod of which the step changes nothing stays served.
LEMMA ServedUntouched ==
  ASSUME TypeOK, NEW p \in Pods, PodServed(p), ServerStays,
         mnt'[p] = mnt[p], kub'[p] = "published" => kub[p] = "published",
         \A t \in Threads : call'[t].pod = p =>
           \/ call'[t].pc \notin AfterSTS
           \/ call'[t].pod = call[t].pod /\ call'[t].pc = call[t].pc /\ call'[t].ip = call[t].ip
  PROVE  PodServed(p)'
<1>1. ASSUME NEW t \in Threads, call'[t].pod = p PROVE CallServed(t)'
  <2>1. HasIP \subseteq AfterSTS
    BY DEF HasIP, AfterSTS, PublishSteps
  <2> QED BY <1>1, <2>1 DEF PodServed, CallServed, ServerStays
<1>2. MountsServed(p)'
  BY DEF PodServed, MountsServed, ServerStays
<1> QED BY <1>1, <1>2 DEF PodServed, ServerStays

\* A goroutine of another pod leaves the pod p alone.
LEMMA ServedOthers ==
  ASSUME TypeOK, NEW p \in Pods, PodServed(p), ServerStays,
         NEW t \in Threads, Publish(t) \/ Unpublish(t), call[t].pod # p
  PROVE  PodServed(p)'
<1>0. /\ call[t].pod \in Pods /\ OthersStay(t) /\ kub \in [Pods -> Views]
      /\ mnt \in [Pods -> Seq(Mounts)]
  BY PublishShape, UnpublishShape, StepsDisjoint DEF StepOf, TypeOK, CallsOK
<1>1. kub'[p] = kub[p] /\ (call'[t] = Idle \/ call'[t].pod = call[t].pod)
  BY <1>0, PublishShape, UnpublishShape, AnswerShape DEF StepOf, GoesOn, Ends, Answer, TypeOK, CallsOK
<1>2. mnt'[p] = mnt[p]
  BY <1>0 DEF Publish, GetPVC, GetSTS, CreateSTS, GetPod, WaitPod, CheckTarget, FindSource,
     BindLocal, GetAppPod, Annotate, GetSVC, CreateSVC, WaitTcp, MountNFS, Chmod, Push, SetTopMode,
     Unpublish, CleanupMountPoint, GetPV, ListPods, DeleteSTS, DeleteSVC, WaitGone
<1>3. Idle.pc \notin AfterSTS
  BY DEF Idle, AfterSTS, PublishSteps
<1> QED BY <1>0, <1>1, <1>2, <1>3, ServedUntouched DEF OthersStay

\* The call of a publish step itself keeps its promise.
LEMMA ServedOwnCall ==
  ASSUME TypeOK, CallsAgree, NEW t \in Threads, Publish(t), CallServed(t), ServerStays
  PROVE  /\ CallServed(t)'
         /\ kub'[call[t].pod] = "published" => kub[call[t].pod] = "published" \/ sts'
<1> DEFINE p == call[t].pod
<1>0. /\ call[t] \in Calls /\ call[t].pc \in PublishSteps /\ p \in Pods
      /\ kub \in [Pods -> Views]
  BY PublishShape, StepsDisjoint DEF StepOf, TypeOK, CallsOK
<1>1. ASSUME NEW code, PublishAnswer(t, code)
      PROVE  CallServed(t)' /\ (code # "OK" => (kub'[p] = "published" => kub[p] = "published"))
  <2>1. call'[t].pc \notin AfterSTS /\ call'[t].pc \notin HasIP
    BY <1>1, PublishAnswerShape DEF Idle, AfterSTS, HasIP, PublishSteps
  <2>2. code # "OK" => (kub'[p] = "published" => kub[p] = "published")
    BY <1>0, <1>1 DEF PublishAnswer, PublishView, Answer
  <2> QED BY <2>1, <2>2 DEF CallServed
<1>2. ASSUME NEW pc, Goto(t, pc)
      PROVE  call'[t].pc = pc /\ call'[t].ip = call[t].ip /\ kub' = kub
  <2>1. call'[t].pc = pc /\ call'[t].ip = call[t].ip
    <3>1. call'[t] = [call[t] EXCEPT !.pc = pc]
      BY <1>2, GotoPc
    <3> QED BY <1>0, <3>1 DEF Calls
  <2>2. kub' = kub
    BY <1>2 DEF Goto, Continue
  <2> QED BY <2>1, <2>2
<1>3. ASSUME NEW pc \in AfterSTS, Goto(t, pc), sts',
             pc \in HasIP => call[t].pc \in HasIP
      PROVE  CallServed(t)' /\ kub' = kub
  BY <1>2, <1>3 DEF CallServed, ServerStays
<1>4. ASSUME NEW c \in Calls, Continue(t, c), c.pc \in AfterSTS => sts',
             c.pc \in HasIP => c.ip = svc' /\ svc' # None
      PROVE  CallServed(t)' /\ kub' = kub
  BY <1>4, ContinueShape DEF CallServed
<1>5. ASSUME NEW pc \in {"getSTS", "createSTS"}, Goto(t, pc)
      PROVE  CallServed(t)' /\ kub' = kub
  BY <1>2, <1>5 DEF CallServed, AfterSTS, HasIP, PublishSteps
<1>6. call[t].pc \in AfterSTS => sts'
  BY DEF CallServed, ServerStays
<1> USE DEF AfterSTS, HasIP, PublishSteps
<1>7. CASE GetPVC(t)
  BY <1>1, <1>5, <1>7 DEF GetPVC
<1>8. CASE GetSTS(t)
  BY <1>3, <1>5, <1>8 DEF GetSTS, ServerStays
<1>9. CASE CreateSTS(t)
  BY <1>1, <1>3, <1>9 DEF CreateSTS
<1>10. CASE GetPod(t)
  <2> DEFINE c == [call[t] EXCEPT !.pc = "waitPod", !.uid = nfsPod.uid]
  <2>1. c \in Calls /\ c.pc = "waitPod"
    BY <1>0 DEF Calls, TypeOK, KubeTypeOK
  <2>2. Continue(t, c) => CallServed(t)' /\ kub' = kub
    BY <1>4, <1>6, <1>10, <2>1 DEF GetPod
  <2> QED BY <1>3, <1>6, <1>10, <2>2 DEF GetPod
<1>11. CASE WaitPod(t)
  BY <1>1, <1>3, <1>6, <1>11 DEF WaitPod
<1>12. CASE CheckTarget(t)
  BY <1>1, <1>3, <1>6, <1>12 DEF CheckTarget
<1>13. CASE FindSource(t)
  <2>1. PICK ok \in BOOLEAN, pc \in {"bind", "getSVC"} :
          Continue(t, [call[t] EXCEPT !.dirOk = ok, !.pc = pc])
    BY <1>13, SourceFound
  <2> DEFINE c == [call[t] EXCEPT !.dirOk = ok, !.pc = pc]
  <2>2. c \in Calls /\ c.pc \in {"bind", "getSVC"} /\ Continue(t, c)
    BY <1>0, <2>1 DEF Calls
  <2> HIDE DEF c
  <2> QED BY <1>4, <1>6, <1>13, <2>2 DEF FindSource
<1>14. CASE BindLocal(t) \/ GetAppPod(t) \/ Annotate(t)
  BY <1>1, <1>3, <1>6, <1>14 DEF BindLocal, GetAppPod, Annotate
<1>15. CASE GetSVC(t)
  <2> DEFINE c == [call[t] EXCEPT !.pc = "waitTcp", !.ip = svc]
  <2>1. c \in Calls /\ c.pc = "waitTcp" /\ c.ip = svc
    BY <1>0 DEF Calls, TypeOK, KubeTypeOK
  <2>2. svc # None /\ Continue(t, c) => CallServed(t)' /\ kub' = kub
    BY <1>4, <1>6, <1>15, <2>1 DEF GetSVC, ServerStays
  <2> QED BY <1>3, <1>6, <1>15, <2>2 DEF GetSVC
<1>16. CASE CreateSVC(t)
  <2>1. ASSUME NEW ip \in IPs, svc' = ip,
               Continue(t, [call[t] EXCEPT !.pc = "waitTcp", !.ip = ip])
        PROVE  CallServed(t)' /\ kub' = kub
    <3> DEFINE c == [call[t] EXCEPT !.pc = "waitTcp", !.ip = ip]
    <3>1. c \in Calls /\ c.pc = "waitTcp" /\ c.ip = ip /\ ip # None
      BY <1>0, NoneAssumption DEF Calls
    <3> QED BY <1>4, <1>6, <1>16, <2>1, <3>1 DEF CreateSVC
  <2>2. CASE \E ip \in IPs :
               svc' = ip /\ Continue(t, [call[t] EXCEPT !.pc = "waitTcp", !.ip = ip])
    BY <2>1, <2>2
  <2>3. CASE PublishAnswer(t, "Canceled")
    BY <1>1, <2>3
  <2> QED BY <1>16, <2>2, <2>3 DEF CreateSVC
<1>17. CASE WaitTcp(t) \/ MountNFS(t) \/ Chmod(t)
  BY <1>1, <1>3, <1>6, <1>17 DEF WaitTcp, MountNFS, AfterMountNFS, Chmod
<1> QED BY <1>7, <1>8, <1>9, <1>10, <1>11, <1>12, <1>13, <1>14, <1>15, <1>16, <1>17 DEF Publish

\* One more mount that leads to the Service, or that is no NFS mount.
LEMMA ServedPush ==
  ASSUME TypeOK, NEW p \in Pods, NEW m \in Mounts, Push(p, m), MountsServed(p), ServerStays,
         m.kind = "nfs" => m.ip = svc' /\ svc' # None
  PROVE  MountsServed(p)'
<1>0. mnt[p] \in Seq(Mounts) /\ mnt'[p] = Append(mnt[p], m)
  BY DEF TypeOK, Push
<1>1. /\ Len(mnt'[p]) = Len(mnt[p]) + 1 /\ mnt'[p][Len(mnt[p]) + 1] = m
      /\ \A i \in 1..Len(mnt[p]) : mnt'[p][i] = mnt[p][i]
  BY <1>0
<1> QED BY <1>0, <1>1 DEF MountsServed, ServerStays

\* A call leaves its pod with mounts that lead to the Service.
LEMMA ServedOwnMounts ==
  ASSUME TypeOK, NEW t \in Threads, Publish(t) \/ Unpublish(t),
         NEW p \in Pods, p = call[t].pod, MountsServed(p), ServerStays
  PROVE  MountsServed(p)'
<1>0. /\ call[t] \in Calls /\ mnt \in [Pods -> Seq(Mounts)]
      /\ mnt[p] \in Seq(Mounts) /\ Len(mnt[p]) \in Nat
  BY PublishShape, UnpublishShape, StepsDisjoint DEF StepOf, TypeOK, CallsOK
<1>1. CASE mnt'[p] = mnt[p]
  BY <1>1 DEF MountsServed, ServerStays
<1>2. CASE BindLocal(t)
  BY <1>0, <1>1, <1>2, ServedPush DEF BindLocal, BindMount, Mounts
<1>3. CASE MountNFS(t)
  <2>1. CASE ServerUp(call[t].ip) /\ Push(p, NfsMount(call[t].ip))
    <3>1. /\ NfsMount(call[t].ip) \in Mounts
          /\ NfsMount(call[t].ip).ip = svc /\ svc # None
      BY <1>0, <2>1 DEF NfsMount, Mounts, ServerUp, Calls
    <3> QED BY <1>0, <2>1, <3>1, ServedPush DEF ServerStays
  <2> QED BY <1>1, <1>3, <2>1 DEF MountNFS
<1>4. CASE Chmod(t)
  <2>1. CASE SetTopMode(p) /\ mnt'[p] # mnt[p]
    <3>1. mnt[p] # <<>> /\ mnt'[p] = ModeSet(mnt[p])
      BY <1>0, <2>1 DEF SetTopMode
    <3>2. /\ Len(mnt'[p]) = Len(mnt[p])
          /\ \A i \in 1..Len(mnt[p]) :
               mnt'[p][i].kind = mnt[p][i].kind /\ mnt'[p][i].ip = mnt[p][i].ip
      BY <1>0, <3>1, ModeSetMounts
    <3> QED BY <3>2 DEF MountsServed, ServerStays
  <2> QED BY <1>1, <1>4, <2>1 DEF Chmod
<1>5. CASE CleanupMountPoint(t)
  <2>1. CASE mnt'[p] = <<>>
    BY <2>1 DEF MountsServed
  <2>2. CASE Len(mnt[p]) > 1 /\ mnt'[p] = SubSeq(mnt[p], 1, Len(mnt[p]) - 1)
    <3>1. /\ Len(mnt'[p]) = Len(mnt[p]) - 1
          /\ \A i \in 1..Len(mnt[p]) - 1 : mnt'[p][i] = mnt[p][i]
      BY <1>0, <2>2
    <3> QED BY <1>0, <3>1 DEF MountsServed, ServerStays
  <2> QED BY <1>0, <1>1, <1>5, <2>1, <2>2 DEF CleanupMountPoint
<1>6. CASE ~ (BindLocal(t) \/ MountNFS(t) \/ Chmod(t) \/ CleanupMountPoint(t))
  BY <1>1, <1>6 DEF Publish, GetPVC, GetSTS, CreateSTS, GetPod, WaitPod, CheckTarget,
     FindSource, GetAppPod, Annotate, GetSVC, CreateSVC, WaitTcp, Unpublish, GetPV, ListPods,
     DeleteSTS, DeleteSVC, WaitGone
<1> QED BY <1>2, <1>3, <1>4, <1>5, <1>6

\* A step of a call serves the call's own pod as well.
LEMMA ServedOwn ==
  ASSUME RemoteInv, NEW t \in Threads, Publish(t) \/ Unpublish(t),
         NEW p \in Pods, p = call[t].pod, PodServed(p), ServerStays
  PROVE  PodServed(p)'
<1>0. /\ TypeOK /\ CallsAgree /\ OthersStay(t) /\ CallServed(t)
      /\ kub \in [Pods -> Views]
  BY PublishShape, UnpublishShape, StepsDisjoint
     DEF RemoteInv, StepOf, TypeOK, CallsOK, PodServed
<1>1. MountsServed(p)'
  BY <1>0, ServedOwnMounts DEF PodServed
<1>2. ASSUME NEW u \in Threads, u # t, call'[u].pod = p PROVE CallServed(u)'
  <2>1. HasIP \subseteq AfterSTS
    BY DEF HasIP, AfterSTS, PublishSteps
  <2> QED BY <1>0, <1>2, <2>1 DEF OthersStay, PodServed, CallServed, ServerStays
<1>3. CASE Publish(t)
  <2>1. CallServed(t)' /\ (kub'[p] = "published" => kub[p] = "published" \/ sts')
    BY <1>0, <1>3, ServedOwnCall
  <2> QED BY <1>1, <1>2, <2>1 DEF PodServed, ServerStays
<1>4. CASE Unpublish(t)
  <2>1. call'[t] = Idle \/ call'[t].pc \in UnpublishSteps
    BY <1>0, <1>4, UnpublishShape, AnswerShape DEF StepOf, GoesOn, Ends
  <2>2. CallServed(t)'
    BY <2>1 DEF CallServed, Idle, UnpublishSteps, AfterSTS, HasIP, PublishSteps
  <2>3. kub'[p] = "published" => kub[p] = "published"
    BY <1>0, <1>4, UnpublishShape DEF StepOf, GoesOn, Ends, Answer, UnpublishViews
  <2> QED BY <1>1, <1>2, <2>2, <2>3 DEF PodServed, ServerStays
<1> QED BY <1>3, <1>4

\* Kubelets, restarts and the cluster take nothing away from a served pod.
LEMMA ServedEnvironment ==
  ASSUME TypeOK, NEW p \in Pods, PodServed(p), ServerStays,
         \/ \E t \in Threads : KubeletTimeout(t)
         \/ \E q \in Pods : Kubelet(q) \/ PodCreated(q)
         \/ \E n \in Nodes : PluginRestart(n) \/ KubeletRestart(n)
         \/ Cluster \/ PodLost \/ UNCHANGED vars
  PROVE  PodServed(p)'
<1>0. /\ call \in [Threads -> Calls] /\ kub \in [Pods -> Views]
      /\ Idle.pc \notin AfterSTS
  BY DEF TypeOK, CallsOK, Idle, AfterSTS, PublishSteps
<1>1. ASSUME \/ \E t \in Threads : KubeletTimeout(t)
             \/ \E n \in Nodes : PluginRestart(n) \/ KubeletRestart(n)
      PROVE  /\ mnt' = mnt /\ (kub'[p] = "published" => kub[p] = "published")
             /\ \A t \in Threads : \/ call'[t].pc \notin AfterSTS
                                   \/ /\ call'[t].pod = call[t].pod
                                      /\ call'[t].pc = call[t].pc /\ call'[t].ip = call[t].ip
  BY <1>0, <1>1 DEF KubeletTimeout, PluginRestart, KubeletRestart, Calls
<1>2. ASSUME NEW q \in Pods, NEW t \in Threads, StartPublish(q, t) \/ StartUnpublish(q, t)
      PROVE  /\ mnt' = mnt /\ (kub'[p] = "published" => kub[p] = "published")
             /\ \A u \in Threads : call'[u].pc \notin AfterSTS \/ call'[u] = call[u]
  <2>1. PICK pc \in {"getPVC", "cleanup"} :
          call' = [call EXCEPT ![t] = [Idle EXCEPT !.pc = pc, !.pod = q, !.live = TRUE]]
    BY <1>2 DEF StartPublish, StartUnpublish, Begin
  <2>2. call'[t].pc = pc /\ pc \notin AfterSTS /\ OthersStay(t)
    BY <1>0, <2>1 DEF Idle, AfterSTS, PublishSteps, OthersStay
  <2>3. mnt' = mnt /\ (kub'[p] = "published" => kub[p] = "published")
    BY <1>0, <1>2 DEF StartPublish, StartUnpublish, Begin
  <2> QED BY <2>2, <2>3 DEF OthersStay
<1>3. ASSUME \/ \E q \in Pods : Forget(q) \/ FinalizePod(q) \/ PodCreated(q)
             \/ Cluster \/ PodLost \/ UNCHANGED vars
      PROVE  mnt' = mnt /\ call' = call /\ (kub'[p] = "published" => kub[p] = "published")
  BY <1>0, <1>3 DEF Forget, FinalizePod, PodCreated, Cluster, PodLost, vars, driverVars
<1> QED BY <1>1, <1>2, <1>3, ServedUntouched DEF Kubelet

\* A pod is created once, and then only leaves; what a teardown has overlooked
\* is not forgotten.
LEMMA PodLife ==
  ASSUME TypeOK,
         \/ \E t \in Threads : KubeletTimeout(t)
         \/ \E p \in Pods : Kubelet(p) \/ PodCreated(p)
         \/ \E n \in Nodes : PluginRestart(n) \/ KubeletRestart(n)
         \/ Cluster \/ PodLost \/ UNCHANGED vars
  PROVE  /\ exposed \subseteq exposed'
         /\ \A p \in Pods :
              \/ appPod'[p] = appPod[p]
              \/ PodCreated(p)
              \/ appPod[p] \in {"active", "terminating"} /\ appPod'[p] # "unborn"
<1>0. appPod \in [Pods -> {"unborn", "active", "terminating", "gone"}]
  BY DEF TypeOK, KubeTypeOK
<1>1. ASSUME NEW q \in Pods, PodCreated(q)
      PROVE  exposed \subseteq exposed' /\ \A p \in Pods : p # q => appPod'[p] = appPod[p]
  BY <1>0, <1>1 DEF PodCreated, StartPod
<1>2. ASSUME NEW q \in Pods, FinalizePod(q) \/ (DeletePod(q) /\ UNCHANGED driverVars)
                             \/ (ForceDeletePod(q) /\ UNCHANGED driverVars)
      PROVE  /\ exposed' = exposed
             /\ \A p \in Pods : \/ appPod'[p] = appPod[p]
                                \/ /\ appPod[p] \in {"active", "terminating"}
                                   /\ appPod'[p] # "unborn"
  BY <1>0, <1>2 DEF FinalizePod, DeletePod, ForceDeletePod, driverVars
<1>3. CASE \/ \E t \in Threads : KubeletTimeout(t)
           \/ \E n \in Nodes : PluginRestart(n) \/ KubeletRestart(n)
           \/ \E p \in Pods : \/ Forget(p)
                              \/ \E t \in Threads : StartPublish(p, t) \/ StartUnpublish(p, t)
           \/ PodLost \/ UNCHANGED vars
  <2>1. UNCHANGED <<appPod, exposed>>
    BY <1>3 DEF KubeletTimeout, PluginRestart, KubeletRestart, Forget, StartPublish,
       StartUnpublish, Begin, PodLost, PodFails, vars, kubeVars, driverVars
  <2> QED BY <2>1
<1>4. CASE /\ \/ StsCreatesPod(HeldUids) \/ PodRuns \/ PodRemoved \/ CollectGarbage
              \/ DeletePV \/ DeleteDataPVC
           /\ UNCHANGED driverVars
  <2>1. UNCHANGED <<appPod, exposed>>
    BY <1>4 DEF StsCreatesPod, PodRuns, PodRemoved, CollectGarbage, DeletePV, DeleteDataPVC,
       driverVars
  <2> QED BY <2>1
<1> QED BY <1>1, <1>2, <1>3, <1>4 DEF Kubelet, Cluster

\* Before a pod is created nothing happens for it.
LEMMA UnbornNext == TypeOK /\ CallsAgree /\ UnbornIdle /\ [Next]_vars => UnbornIdle'
<1> SUFFICES ASSUME TypeOK, CallsAgree, UnbornIdle, [Next]_vars,
                    NEW p \in Pods, appPod'[p] = "unborn"
             PROVE  /\ mnt'[p] = <<>> /\ kub'[p] = "waiting"
                    /\ \A t \in Threads : call'[t].pc # "Idle" => call'[t].pod # p
  BY DEF UnbornIdle
<1>0. /\ call \in [Threads -> Calls] /\ kub \in [Pods -> Views] /\ mnt \in [Pods -> Seq(Mounts)]
      /\ appPod \in [Pods -> {"unborn", "active", "terminating", "gone"}]
      /\ Idle.pc = "Idle"
      /\ \A t \in Threads : call[t].pc # "Idle" => call[t].pod \in Pods
  BY DEF TypeOK, CallsOK, KubeTypeOK, Idle
<1>1. appPod[p] = "unborn"
  <2>1. ASSUME NEW t \in Threads, Publish(t) \/ Unpublish(t) PROVE appPod' = appPod
    BY <2>1, PublishShape, UnpublishShape DEF StepOf
  <2>2. CASE \/ \E t \in Threads : KubeletTimeout(t)
             \/ \E q \in Pods : Kubelet(q) \/ PodCreated(q)
             \/ \E n \in Nodes : PluginRestart(n) \/ KubeletRestart(n)
             \/ Cluster \/ PodLost \/ UNCHANGED vars
    BY <1>0, <2>2 DEF KubeletTimeout, Kubelet, StartPublish, StartUnpublish, Begin, Forget,
       FinalizePod, PodCreated, StartPod, PluginRestart, KubeletRestart, Cluster, StsCreatesPod,
       PodRuns, PodRemoved, CollectGarbage, DeletePV, DeleteDataPVC, DeletePod, ForceDeletePod,
       PodLost, PodFails, vars, kubeVars
  <2> QED BY <2>1, <2>2 DEF Next, Settled
<1>2. /\ mnt[p] = <<>> /\ kub[p] = "waiting"
      /\ \A t \in Threads : call[t].pc # "Idle" => call[t].pod # p
  BY <1>1 DEF UnbornIdle
<1>3. ASSUME NEW t \in Threads, Publish(t) \/ Unpublish(t)
      PROVE  /\ mnt'[p] = <<>> /\ kub'[p] = "waiting"
             /\ \A u \in Threads : call'[u].pc # "Idle" => call'[u].pod # p
  <2>1. call[t].pc # "Idle" /\ call[t].pod \in Pods \ {p}
    BY <1>0, <1>2, <1>3, PublishShape, UnpublishShape, StepsDisjoint DEF StepOf
  <2>2. mnt'[p] = mnt[p]
    BY <1>0, <1>3, <2>1 DEF Publish, GetPVC, GetSTS, CreateSTS, GetPod, WaitPod, CheckTarget,
       FindSource, BindLocal, GetAppPod, Annotate, GetSVC, CreateSVC, WaitTcp, MountNFS, Chmod, Push,
       SetTopMode, Unpublish, CleanupMountPoint, GetPV, ListPods, DeleteSTS, DeleteSVC, WaitGone
  <2>3. /\ kub'[p] = kub[p] /\ (call'[t] = Idle \/ call'[t].pod = call[t].pod)
        /\ OthersStay(t)
    BY <1>0, <1>3, <2>1, PublishShape, UnpublishShape, AnswerShape
       DEF StepOf, GoesOn, Ends, Answer
  <2> QED BY <1>0, <1>2, <2>1, <2>2, <2>3 DEF OthersStay
<1>4. ASSUME NEW q \in Pods, NEW t \in Threads, StartPublish(q, t) \/ StartUnpublish(q, t)
      PROVE  /\ mnt'[p] = <<>> /\ kub'[p] = "waiting"
             /\ \A u \in Threads : call'[u].pc # "Idle" => call'[u].pod # p
  <2>1. PICK pc \in {"getPVC", "cleanup"} :
          call' = [call EXCEPT ![t] = [Idle EXCEPT !.pc = pc, !.pod = q, !.live = TRUE]]
    BY <1>4 DEF StartPublish, StartUnpublish, Begin
  <2>2. q # p
    BY <1>1, <1>4 DEF StartPublish, StartUnpublish, Leaving
  <2>3. call'[t].pod = q /\ OthersStay(t)
    BY <1>0, <2>1 DEF Idle, OthersStay
  <2>4. mnt' = mnt /\ kub'[p] = kub[p]
    BY <1>0, <1>4, <2>2 DEF StartPublish, StartUnpublish, Begin
  <2> QED BY <1>2, <2>2, <2>3, <2>4 DEF OthersStay
<1>5. ASSUME NEW t \in Threads, KubeletTimeout(t)
      PROVE  /\ mnt'[p] = <<>> /\ kub'[p] = "waiting"
             /\ \A u \in Threads : call'[u].pc # "Idle" => call'[u].pod # p
  <2>1. \A u \in Threads : call'[u].pc = call[u].pc /\ call'[u].pod = call[u].pod
    BY <1>0, <1>5 DEF KubeletTimeout, Calls
  <2>2. call[t].pod # p
    BY <1>2, <1>5 DEF KubeletTimeout, CallsAgree
  <2> QED BY <1>0, <1>2, <1>5, <2>1, <2>2 DEF KubeletTimeout
<1>6. ASSUME NEW n \in Nodes, PluginRestart(n) \/ KubeletRestart(n)
      PROVE  /\ mnt'[p] = <<>> /\ kub'[p] = "waiting"
             /\ \A u \in Threads : call'[u].pc # "Idle" => call'[u].pod # p
  <2>1. \A u \in Threads : call'[u] = Idle \/
                           (call'[u].pc = call[u].pc /\ call'[u].pod = call[u].pod)
    <3> SUFFICES ASSUME NEW u \in Threads
                 PROVE  call'[u] = Idle \/ (call'[u].pc = call[u].pc /\ call'[u].pod = call[u].pod)
      OBVIOUS
    <3>1. CASE PluginRestart(n)
      BY <3>1 DEF PluginRestart
    <3>2. CASE KubeletRestart(n)
      <4>1. call[u] \in Calls
        BY <1>0
      <4>2. \/ call'[u] = call[u]
            \/ call'[u] = [call[u] EXCEPT !.live = FALSE]
        BY <3>2 DEF KubeletRestart
      <4> QED BY <4>1, <4>2 DEF Calls
    <3> QED BY <1>6, <3>1, <3>2
  <2>2. \A u \in CallsOn(n) : call[u].pod # p
    BY <1>2 DEF CallsOn
  <2>3. kub'[p] = kub[p]
    <3>1. CASE PluginRestart(n)
      BY <2>2, <3>1 DEF PluginRestart
    <3>2. CASE KubeletRestart(n)
      BY <1>2, <3>2 DEF KubeletRestart
    <3> QED BY <1>6, <3>1, <3>2
  <2> QED BY <1>0, <1>2, <1>6, <2>1, <2>3 DEF PluginRestart, KubeletRestart
<1>7. ASSUME \/ \E q \in Pods : Forget(q) \/ FinalizePod(q) \/ PodCreated(q)
             \/ Cluster \/ PodLost \/ UNCHANGED vars
      PROVE  mnt' = mnt /\ call' = call /\ kub'[p] = kub[p]
  BY <1>0, <1>1, <1>7 DEF Forget, Leaving, FinalizePod, PodCreated, Cluster, PodLost, vars, driverVars
<1> QED BY <1>2, <1>3, <1>4, <1>5, <1>6, <1>7 DEF Next, Kubelet, Settled

\* The initial states have the invariant.
LEMMA ServedInit == Init => ServedInv
<1> SUFFICES ASSUME Init PROVE ServedInv
  OBVIOUS
<1>1. UnbornIdle /\ Served
  BY DEF Init, KubeInit, Idle, UnbornIdle, Served, Listed
<1> QED BY <1>1, RemoteInit, TearDownInit DEF ServedInv

\* Every step keeps the invariant.
LEMMA ServedNext == ServedInv /\ [Next]_vars => ServedInv'
<1> SUFFICES ASSUME ServedInv, [Next]_vars PROVE ServedInv'
  OBVIOUS
<1>0. TypeOK /\ CallsAgree /\ TearDownInv /\ UnbornIdle
  BY DEF ServedInv, RemoteInv
<1>1. RemoteInv' /\ TearDownInv' /\ UnbornIdle'
  BY <1>0, RemoteInvNext, TearDownNext, UnbornNext DEF ServedInv
<1>2. ASSUME NEW p \in (Listed \ exposed)', dataPVC' PROVE PodServed(p)'
  <2>1. p \in Pods /\ p \notin exposed' /\ appPod'[p] \in {"active", "terminating"}
    BY <1>2 DEF Listed
  <2>2. dataPVC
    <3>1. ASSUME NEW t \in Threads, Publish(t) \/ Unpublish(t) PROVE dataPVC' = dataPVC
      BY <3>1 DEF Publish, GetPVC, GetSTS, CreateSTS, GetPod, WaitPod, CheckTarget, FindSource,
         BindLocal, GetAppPod, Annotate, GetSVC, CreateSVC, WaitTcp, MountNFS, Chmod, kubeVars, Unpublish,
         CleanupMountPoint, GetPV, ListPods, DeleteSTS, DeleteSVC, WaitGone
    <3>2. CASE \/ \E t \in Threads : KubeletTimeout(t)
               \/ \E q \in Pods : Kubelet(q) \/ PodCreated(q)
               \/ \E n \in Nodes : PluginRestart(n) \/ KubeletRestart(n)
               \/ Cluster \/ PodLost \/ UNCHANGED vars
      BY <1>2, <3>2 DEF KubeletTimeout, Kubelet, StartPublish, StartUnpublish, Begin, Forget,
         FinalizePod, PodCreated, StartPod, PluginRestart, KubeletRestart, Cluster, StsCreatesPod,
         PodRuns, PodRemoved, CollectGarbage, DeletePV, DeleteDataPVC, DeletePod, ForceDeletePod,
         PodLost, PodFails, vars, kubeVars
    <3> QED BY <1>2, <3>1, <3>2 DEF Next, Settled
  <2>3. CASE p \in Listed \ exposed
    <3>1. PodServed(p) /\ ServerStays
      BY <1>0, <2>2, <2>3, ServerStaysFor DEF ServedInv, Served
    <3>2. ASSUME NEW t \in Threads, Publish(t) \/ Unpublish(t) PROVE PodServed(p)'
      BY <1>0, <2>1, <3>1, <3>2, ServedOwn, ServedOthers DEF ServedInv
    <3> QED BY <1>0, <2>1, <3>1, <3>2, ServedEnvironment DEF Next, Settled
  <2>4. CASE p \notin Listed \ exposed
    <3>1. PodCreated(p)
      <4>1. ASSUME NEW t \in Threads, Publish(t) \/ Unpublish(t) PROVE FALSE
        BY <1>0, <2>1, <2>4, <4>1, PublishShape, UnpublishShape DEF StepOf, Listed
      <4>2. CASE \/ \E t \in Threads : KubeletTimeout(t)
                 \/ \E q \in Pods : Kubelet(q) \/ PodCreated(q)
                 \/ \E n \in Nodes : PluginRestart(n) \/ KubeletRestart(n)
                 \/ Cluster \/ PodLost \/ UNCHANGED vars
        BY <1>0, <2>1, <2>4, <4>2, PodLife DEF Listed
      <4> QED BY <4>1, <4>2 DEF Next, Settled
    <3>2. /\ mnt'[p] = <<>> /\ kub'[p] = "waiting"
          /\ \A t \in Threads : call'[t].pod = p => call'[t].pc = "Idle"
      BY <1>0, <2>1, <3>1 DEF PodCreated, StartPod, UnbornIdle
    <3> QED BY <3>2 DEF PodServed, MountsServed, CallServed, AfterSTS, HasIP, PublishSteps
  <2> QED BY <2>3, <2>4
<1> QED BY <1>1, <1>2 DEF ServedInv, Served

\* A published pod has a server: while a pod that no teardown has overlooked
\* is listed, and its data is there, no concurrent teardown, failing call,
\* crash or lost answer on any node takes the StatefulSet away, and each of
\* its NFS mounts leads to the Service there is.
THEOREM PublishedServed == Spec => []PublishedHasServer
<1>1. ServedInv => PublishedHasServer
  BY DEF ServedInv, Served, PodServed, MountsServed, PublishedHasServer
<1>2. ServedInv /\ [Next]_vars => ServedInv'
  BY ServedNext
<1> QED BY <1>1, <1>2, ServedInit, PTL DEF Spec

-----------------------------------------------------------------------------
(* Mounts and retries, while the kubelet of a pod waits for its calls. *)

\* Only a call for an orphaned pod goes on without its kubelet.
CallsWatched ==
  \A t \in Threads : call[t].pc # "Idle" => call[t].live \/ call[t].pod \in orphaned

\* Steps on the way to a mount that was not there, and after an unmount.
BareSteps == {"source", "bind", "getSVC", "createSVC", "waitTcp", "mountNFS"}
CleanSteps == UnpublishSteps \ {"cleanup"}

\* What the call that works for p knows of its mounts.
CallMounts(t) ==
  /\ call[t].pc \in BareSteps /\ NodeOfCall(t) \notin HidingNodes => mnt[call[t].pod] = <<>>
  /\ call[t].pc \in CleanSteps => mnt[call[t].pod] = <<>>

MountInv ==
  /\ RemoteInv /\ CallsWatched
  /\ NoStackedMounts /\ DoneMeansUnmounted
  /\ \A t \in Threads : call[t].pod \notin orphaned => CallMounts(t)

\* A kubelet that waits has one call for a pod, and does not take its volume
\* for unpublished meanwhile.
LEMMA OneCallPerPod ==
  ASSUME CallsAgree, NEW t \in Threads, call[t].pc # "Idle",
         \A u \in Threads : call[u].pc # "Idle" /\ call[u].pod = call[t].pod => call[u].live
  PROVE  /\ kub[call[t].pod] # "done"
         /\ \A u \in Threads : call[u].pc # "Idle" /\ call[u].pod = call[t].pod => u = t
BY DEF CallsAgree

\* The pushes and pops of a call keep the stack of its pod in order.
LEMMA OwnMounts ==
  ASSUME MountInv, NEW t \in Threads, Publish(t) \/ Unpublish(t),
         NEW p \in Pods, p = call[t].pod, p \notin orphaned
  PROVE  /\ NodeOf[p] \notin HidingNodes => Len(mnt'[p]) <= 1
         /\ call'[t].pc \in BareSteps /\ NodeOf[p] \notin HidingNodes => mnt'[p] = <<>>
         /\ call'[t].pc \in CleanSteps => mnt'[p] = <<>>
         /\ kub'[p] = "done" => mnt'[p] = <<>>
<1>0. /\ TypeOK /\ CallsAgree /\ call[t] \in Calls /\ call[t].pc # "Idle"
      /\ mnt \in [Pods -> Seq(Mounts)] /\ mnt[p] \in Seq(Mounts) /\ Len(mnt[p]) \in Nat
      /\ kub \in [Pods -> Views] /\ CallMounts(t)
      /\ NodeOf[p] \notin HidingNodes => Len(mnt[p]) <= 1
      /\ kub[p] # "done"
  BY PublishShape, UnpublishShape, StepsDisjoint, OneCallPerPod
     DEF MountInv, CallsWatched, RemoteInv, StepOf, TypeOK, CallsOK, NoStackedMounts
<1>1. /\ \A pc : Goto(t, pc) => call'[t].pc = pc /\ kub' = kub
      /\ \A c : Continue(t, c) => call'[t] = c /\ kub' = kub
  <2>1. \A c : Continue(t, c) => call'[t] = c /\ kub' = kub
    BY <1>0, ContinueShape
  <2>2. \A pc : Goto(t, pc) => call'[t].pc = pc
    BY <1>0, GotoPc
  <2> QED BY <2>1, <2>2 DEF Goto
<1>2. ASSUME NEW code, PublishAnswer(t, code)
      PROVE  call'[t].pc = "Idle" /\ kub'[p] # "done"
  <2>1. PublishView(code) # "done"
    BY DEF PublishView
  <2>2. kub'[p] # "done"
    BY <1>0, <1>2, <2>1 DEF PublishAnswer, Answer
  <2> QED BY <1>0, <1>2, <2>2, PublishAnswerShape DEF Idle
<1>3. ASSUME NEW code, UnpublishAnswer(t, code)
      PROVE  call'[t].pc = "Idle" /\ (code # "OK" => kub'[p] # "done")
  <2>1. code # "OK" => kub'[p] # "done"
    BY <1>0, <1>3 DEF UnpublishAnswer, Answer
  <2> QED BY <1>0, <1>3, <2>1, UnpublishAnswerShape DEF Idle
<1>4. "Idle" \notin BareSteps \cup CleanSteps
  BY DEF BareSteps, CleanSteps, UnpublishSteps
<1> USE DEF BareSteps, CleanSteps, UnpublishSteps
<1>5. CASE GetPVC(t) \/ GetSTS(t) \/ CreateSTS(t) \/ GetPod(t) \/ WaitPod(t)
  <2>1. [call[t] EXCEPT !.pc = "waitPod", !.uid = nfsPod.uid].pc = "waitPod"
    BY <1>0 DEF Calls
  <2>2. call'[t].pc \notin BareSteps \cup CleanSteps /\ mnt' = mnt /\ kub'[p] # "done"
    <3>1. CASE GetPod(t)
      BY <1>0, <1>1, <2>1, <3>1 DEF GetPod
    <3>2. CASE GetPVC(t) \/ GetSTS(t) \/ CreateSTS(t) \/ WaitPod(t)
      BY <1>0, <1>1, <1>2, <3>2 DEF GetPVC, GetSTS, CreateSTS, WaitPod
    <3> QED BY <1>5, <3>1, <3>2
  <2> QED BY <1>0, <2>2
<1>6. CASE CheckTarget(t)
  <2>1. ~ LooksMounted(p) /\ NodeOf[p] \notin HidingNodes => mnt[p] = <<>>
    BY DEF LooksMounted
  <2> QED BY <1>0, <1>1, <1>2, <1>4, <1>6, <2>1 DEF CheckTarget
<1>7. CASE FindSource(t) \/ GetSVC(t) \/ CreateSVC(t) \/ WaitTcp(t)
  <2>1. mnt' = mnt /\ (NodeOf[p] \notin HidingNodes => mnt[p] = <<>>)
    BY <1>0, <1>7 DEF FindSource, GetSVC, CreateSVC, WaitTcp, CallMounts, NodeOfCall
  <2>2. kub'[p] # "done" /\ call'[t].pc \notin CleanSteps
    <3>1. CASE FindSource(t)
      <4>1. PICK ok \in BOOLEAN, pc \in {"bind", "getSVC"} :
              Continue(t, [call[t] EXCEPT !.dirOk = ok, !.pc = pc])
        BY <1>0, <3>1, SourceFound
      <4>2. call'[t] = [call[t] EXCEPT !.dirOk = ok, !.pc = pc] /\ kub' = kub
        BY <1>1, <4>1
      <4> QED BY <1>0, <4>2 DEF Calls
    <3>2. \A ip : [call[t] EXCEPT !.pc = "waitTcp", !.ip = ip].pc = "waitTcp"
      BY <1>0 DEF Calls
    <3>3. CASE GetSVC(t)
      <4>1. CASE Continue(t, [call[t] EXCEPT !.pc = "waitTcp", !.ip = svc])
        <5>1. call'[t] = [call[t] EXCEPT !.pc = "waitTcp", !.ip = svc] /\ kub' = kub
          BY <1>1, <4>1
        <5> QED BY <1>0, <5>1 DEF Calls
      <4>2. CASE Goto(t, "createSVC")
        BY <1>0, <1>1, <4>2
      <4> QED BY <3>3, <4>1, <4>2 DEF GetSVC
    <3>4. CASE CreateSVC(t)
      <4>1. CASE PublishAnswer(t, "Canceled")
        BY <1>2, <1>4, <4>1
      <4>2. ASSUME NEW ip, Continue(t, [call[t] EXCEPT !.pc = "waitTcp", !.ip = ip])
            PROVE  kub'[p] # "done" /\ call'[t].pc \notin CleanSteps
        BY <1>0, <1>1, <3>2, <4>2
      <4> QED BY <3>4, <4>1, <4>2 DEF CreateSVC
    <3>5. CASE WaitTcp(t)
      BY <1>0, <1>1, <1>2, <1>4, <3>5 DEF WaitTcp
    <3> QED BY <1>7, <3>1, <3>3, <3>4, <3>5
  <2> QED BY <1>0, <2>1, <2>2
<1>8. ASSUME NEW m, Push(p, m), mnt[p] = <<>> PROVE Len(mnt'[p]) <= 1
  BY <1>0, <1>8 DEF Push
<1>9. CASE BindLocal(t) \/ MountNFS(t)
  <2>1. NodeOf[p] \notin HidingNodes => mnt[p] = <<>>
    BY <1>0, <1>9 DEF BindLocal, MountNFS, CallMounts, NodeOfCall
  <2>2. kub'[p] # "done" /\ call'[t].pc \notin CleanSteps \cup BareSteps
    BY <1>0, <1>1, <1>2, <1>4, <1>9 DEF BindLocal, MountNFS, AfterMountNFS
  <2>3. mnt' = mnt \/ \E m : Push(p, m)
    BY <1>9 DEF BindLocal, MountNFS
  <2>4. NodeOf[p] \notin HidingNodes => Len(mnt'[p]) <= 1
    <3>1. CASE mnt' = mnt
      BY <1>0, <3>1
    <3>2. CASE \E m : Push(p, m)
      <4>1. PICK m : Push(p, m)
        BY <3>2
      <4>2. mnt[p] = <<>> => Len(mnt'[p]) <= 1
        BY <1>8, <4>1
      <4> QED BY <2>1, <4>2
    <3> QED BY <2>3, <3>1, <3>2
  <2> QED BY <2>2, <2>4
<1>10. CASE GetAppPod(t) \/ Annotate(t)
  BY <1>0, <1>1, <1>10 DEF GetAppPod, Annotate
<1>11. CASE Chmod(t)
  <2>1. Len(mnt'[p]) = Len(mnt[p])
    BY <1>0, <1>11 DEF Chmod, SetTopMode, ModeSet
  <2> QED BY <1>0, <1>2, <1>4, <1>11, <2>1 DEF Chmod
<1>12. CASE CleanupMountPoint(t)
  <2>1. CASE mnt'[p] = <<>>
    BY <2>1
  <2>2. CASE mnt' = mnt /\ CleanupFailed(t)
    BY <1>0, <1>3, <1>4, <2>2 DEF CleanupFailed
  <2>3. CASE Len(mnt[p]) > 1 /\ CleanupFailed(t)
    BY <1>0, <1>3, <1>4, <2>3 DEF CleanupFailed
  <2> QED BY <1>0, <1>12, <2>1, <2>2, <2>3 DEF CleanupMountPoint
<1>13. CASE GetPV(t) \/ ListPods(t) \/ DeleteSTS(t) \/ DeleteSVC(t) \/ WaitGone(t)
  <2>1. mnt'[p] = <<>>
    BY <1>0, <1>13 DEF GetPV, ListPods, DeleteSTS, DeleteSVC, WaitGone, CallMounts
  <2> QED BY <2>1
<1> QED BY <1>5, <1>6, <1>7, <1>9, <1>10, <1>11, <1>12, <1>13 DEF Publish, Unpublish

\* A step of a call leaves the mounts and the views of other pods alone.
LEMMA OthersMounts ==
  ASSUME TypeOK, NEW t \in Threads, Publish(t) \/ Unpublish(t),
         NEW p \in Pods, p # call[t].pod
  PROVE  mnt'[p] = mnt[p] /\ kub'[p] = kub[p]
<1>0. /\ call[t].pod \in Pods /\ OthersStay(t) /\ kub \in [Pods -> Views]
      /\ mnt \in [Pods -> Seq(Mounts)] /\ TypeOK
  BY PublishShape, UnpublishShape, StepsDisjoint DEF StepOf, TypeOK, CallsOK
<1>1. kub'[p] = kub[p]
  BY <1>0, PublishShape, UnpublishShape DEF StepOf, GoesOn, Ends, Answer
<1>2. mnt'[p] = mnt[p]
  BY <1>0 DEF Publish, GetPVC, GetSTS, CreateSTS, GetPod, WaitPod, CheckTarget, FindSource,
     BindLocal, GetAppPod, Annotate, GetSVC, CreateSVC, WaitTcp, MountNFS, Chmod, Push, SetTopMode,
     Unpublish, CleanupMountPoint, GetPV, ListPods, DeleteSTS, DeleteSVC, WaitGone
<1> QED BY <1>1, <1>2

\* A step of a call keeps the invariant.
LEMMA MountsCall ==
  ASSUME MountInv, [Next]_vars, NEW t \in Threads, Publish(t) \/ Unpublish(t)
  PROVE  MountInv'
<1>0. /\ TypeOK /\ CallsAgree /\ CallsWatched /\ OthersStay(t) /\ call[t].pc # "Idle"
      /\ call[t].pod \in Pods
      /\ \A u \in Threads : call[u].pc # "Idle" => call[u].pod \in Pods
      /\ call'[t] = Idle \/ (call'[t].pod = call[t].pod /\ call'[t].live = call[t].live)
  BY PublishShape, UnpublishShape, StepsDisjoint, AnswerShape
     DEF MountInv, RemoteInv, StepOf, GoesOn, Ends, TypeOK, CallsOK
<1>1. RemoteInv'
  BY RemoteInvNext DEF MountInv
<1>2. orphaned' = orphaned
  BY DEF Publish, GetPVC, GetSTS, CreateSTS, GetPod, WaitPod, CheckTarget, FindSource,
     BindLocal, GetAppPod, Annotate, GetSVC, CreateSVC, WaitTcp, MountNFS, Chmod,
     Unpublish, CleanupMountPoint, GetPV, ListPods, DeleteSTS, DeleteSVC, WaitGone
<1>3. CallsWatched'
  BY <1>0, <1>2 DEF CallsWatched, OthersStay, Idle
<1>4. NoStackedMounts' /\ DoneMeansUnmounted'
  BY <1>0, <1>2, OwnMounts, OthersMounts DEF MountInv, NoStackedMounts, DoneMeansUnmounted
<1>5. ASSUME NEW u \in Threads, u # t, call'[u].pod \notin orphaned' PROVE CallMounts(u)'
  <2>1. call'[u] = call[u] /\ call[u].pod \notin orphaned /\ CallMounts(u)
    BY <1>0, <1>2, <1>5 DEF OthersStay, MountInv
  <2>2. CASE call[u].pc # "Idle"
    <3>1. call[u].pod # call[t].pod
      BY <1>0, <1>5, <2>1, <2>2, OneCallPerPod DEF CallsWatched
    <3> QED BY <1>0, <2>1, <2>2, <3>1, OthersMounts DEF CallMounts, NodeOfCall
  <2>3. CASE call[u].pc = "Idle"
    BY <2>1, <2>3 DEF CallMounts, BareSteps, CleanSteps, UnpublishSteps
  <2> QED BY <2>2, <2>3
<1>6. ASSUME call'[t].pod \notin orphaned' PROVE CallMounts(t)'
  <2>1. CASE call'[t] = Idle
    BY <2>1 DEF Idle, CallMounts, BareSteps, CleanSteps, UnpublishSteps
  <2>2. CASE call'[t].pod = call[t].pod
    BY <1>0, <1>2, <1>6, <2>2, OwnMounts DEF CallMounts, NodeOfCall
  <2> QED BY <1>0, <2>1, <2>2
<1> QED BY <1>1, <1>3, <1>4, <1>5, <1>6 DEF MountInv

\* A call of a pod that is not orphaned stays as it is, ends, or is a new one,
\* which begins with a look at the pod's mounts.
LEMMA WatchedCalls ==
  ASSUME TypeOK,
         \/ \E t \in Threads : KubeletTimeout(t)
         \/ \E p \in Pods : Kubelet(p) \/ PodCreated(p)
         \/ \E n \in Nodes : PluginRestart(n) \/ KubeletRestart(n)
         \/ Cluster \/ PodLost \/ UNCHANGED vars
  PROVE  /\ orphaned \subseteq orphaned'
         /\ \A u \in Threads :
              \/ call'[u] = call[u] \/ call'[u] = Idle
              \/ call'[u].live /\ call'[u].pc \notin BareSteps \cup CleanSteps
              \/ call'[u].pod \in orphaned'
<1>0. call \in [Threads -> Calls] /\ CallsOK
  BY DEF TypeOK, CallsOK
<1>1. orphaned \subseteq orphaned'
  BY DEF KubeletTimeout, Kubelet, StartPublish, StartUnpublish, Begin, Forget, FinalizePod,
     PodCreated, PluginRestart, KubeletRestart, Cluster, PodLost, vars, driverVars
<1>2. ASSUME NEW p \in Pods, NEW t \in Threads, StartPublish(p, t) \/ StartUnpublish(p, t)
      PROVE  OthersStay(t) /\ call'[t].live /\ call'[t].pc \notin BareSteps \cup CleanSteps
  <2>1. PICK pc \in {"getPVC", "cleanup"} :
          call' = [call EXCEPT ![t] = [Idle EXCEPT !.pc = pc, !.pod = p, !.live = TRUE]]
    BY <1>2 DEF StartPublish, StartUnpublish, Begin
  <2> QED BY <1>0, <2>1 DEF Idle, OthersStay, BareSteps, CleanSteps, UnpublishSteps
<1>3. ASSUME NEW t \in Threads, KubeletTimeout(t)
      PROVE  OthersStay(t) /\ call'[t].pod \in orphaned'
  <2>1. call[t] \in Calls /\ OthersStay(t) /\ call'[t] = [call[t] EXCEPT !.live = FALSE]
    BY <1>0, <1>3 DEF KubeletTimeout, OthersStay
  <2>2. call'[t].pod = call[t].pod
    BY <2>1 DEF Calls
  <2> QED BY <1>3, <2>1, <2>2 DEF KubeletTimeout
<1>4. ASSUME NEW n \in Nodes, KubeletRestart(n), NEW u \in Threads
      PROVE  call'[u] = call[u] \/ call'[u].pod \in orphaned'
  <2>1. CASE u \in CallsOn(n)
    <3>1. call[u] \in Calls /\ call'[u] = [call[u] EXCEPT !.live = FALSE]
      BY <1>0, <1>4, <2>1 DEF KubeletRestart
    <3>2. call'[u].pod = call[u].pod
      BY <3>1 DEF Calls
    <3>3. call[u].pod \in {call[t].pod : t \in CallsOn(n)}
      BY <2>1
    <3>4. orphaned' = orphaned \cup {call[t].pod : t \in CallsOn(n)}
      BY <1>4 DEF KubeletRestart
    <3> QED BY <3>2, <3>3, <3>4
  <2>2. CASE u \notin CallsOn(n)
    BY <1>4, <2>2 DEF KubeletRestart
  <2> QED BY <2>1, <2>2
<1>5. ASSUME NEW n \in Nodes, PluginRestart(n)
      PROVE  \A u \in Threads : call'[u] = call[u] \/ call'[u] = Idle
  BY <1>5 DEF PluginRestart
<1>6. CASE \/ \E p \in Pods : Forget(p) \/ FinalizePod(p) \/ PodCreated(p)
           \/ Cluster \/ PodLost \/ UNCHANGED vars
  BY <1>1, <1>6 DEF Forget, FinalizePod, PodCreated, Cluster, PodLost, vars, driverVars
<1> QED BY <1>1, <1>2, <1>3, <1>4, <1>5, <1>6 DEF Kubelet, OthersStay

\* Kubelets, restarts and the cluster mount nothing.
LEMMA MountsEnvironment ==
  ASSUME MountInv, [Next]_vars,
         \/ \E t \in Threads : KubeletTimeout(t)
         \/ \E p \in Pods : Kubelet(p) \/ PodCreated(p)
         \/ \E n \in Nodes : PluginRestart(n) \/ KubeletRestart(n)
         \/ Cluster \/ PodLost \/ UNCHANGED vars
  PROVE  MountInv'
<1>0. TypeOK /\ kub \in [Pods -> Views] /\ Idle.pc = "Idle"
  BY DEF MountInv, RemoteInv, TypeOK, Idle
<1>1. mnt' = mnt
  BY DEF KubeletTimeout, Kubelet, StartPublish, StartUnpublish, Begin, Forget, FinalizePod,
     PodCreated, PluginRestart, KubeletRestart, Cluster, PodLost, vars, driverVars
<1>2. \A p \in Pods : kub'[p] = "done" => kub[p] = "done"
  BY <1>0 DEF KubeletTimeout, Kubelet, StartPublish, StartUnpublish, Begin, Forget, FinalizePod,
     PodCreated, PluginRestart, KubeletRestart, Cluster, PodLost, vars, driverVars
<1>3. /\ orphaned \subseteq orphaned'
      /\ \A u \in Threads :
           \/ call'[u] = call[u] \/ call'[u] = Idle
           \/ call'[u].live /\ call'[u].pc \notin BareSteps \cup CleanSteps
           \/ call'[u].pod \in orphaned'
  BY <1>0, WatchedCalls
<1>4. RemoteInv'
  BY RemoteInvNext DEF MountInv
<1>5. CallsWatched'
  BY <1>0, <1>3 DEF MountInv, CallsWatched
<1>6. NoStackedMounts' /\ DoneMeansUnmounted'
  BY <1>1, <1>2, <1>3 DEF MountInv, NoStackedMounts, DoneMeansUnmounted
<1>7. ASSUME NEW u \in Threads, call'[u].pod \notin orphaned' PROVE CallMounts(u)'
  <2>1. CASE call'[u] = call[u]
    BY <1>1, <1>3, <1>7, <2>1 DEF MountInv, CallMounts, NodeOfCall
  <2>2. CASE call'[u].pc \notin BareSteps \cup CleanSteps
    BY <2>2 DEF CallMounts
  <2>3. Idle.pc \notin BareSteps \cup CleanSteps
    BY <1>0 DEF BareSteps, CleanSteps, UnpublishSteps
  <2> QED BY <1>3, <1>7, <2>1, <2>2, <2>3
<1> QED BY <1>4, <1>5, <1>6, <1>7 DEF MountInv

\* The initial states have the invariant.
LEMMA MountInit == Init => MountInv
<1> SUFFICES ASSUME Init PROVE MountInv
  OBVIOUS
<1>1. /\ CallsWatched /\ NoStackedMounts /\ DoneMeansUnmounted
      /\ \A t \in Threads : CallMounts(t)
  BY DEF Init, Idle, CallsWatched, NoStackedMounts, DoneMeansUnmounted, CallMounts, BareSteps,
     CleanSteps, UnpublishSteps
<1> QED BY <1>1, RemoteInit DEF MountInv

\* Every step keeps it.
LEMMA MountNext == MountInv /\ [Next]_vars => MountInv'
<1> SUFFICES ASSUME MountInv, [Next]_vars PROVE MountInv'
  OBVIOUS
<1>1. ASSUME NEW t \in Threads, Publish(t) \/ Unpublish(t) PROVE MountInv'
  BY <1>1, MountsCall
<1> QED BY <1>1, MountsEnvironment DEF Next, Settled

\* As long as no call for a pod goes on without its kubelet, retries after
\* errors and plugin crashes never mount over a mount of the pod that can be
\* recognised as one: whatever happens to other pods, and for any number of
\* pods, nodes and faults.
THEOREM RetriesDoNotStack == Spec => []NoStackedMounts
<1>1. MountInv => NoStackedMounts
  BY DEF MountInv
<1> QED BY <1>1, MountInit, MountNext, PTL DEF Spec

\* The volume of such a pod that was reported unpublished has nothing
\* mounted, also where mounts had been stacked.
THEOREM DoneUnmounted == Spec => []DoneMeansUnmounted
<1>1. MountInv => DoneMeansUnmounted
  BY DEF MountInv
<1> QED BY <1>1, MountInit, MountNext, PTL DEF Spec

-----------------------------------------------------------------------------
(* Why a pod beside the data gets an NFS mount. *)

FallbackSteps == {"getSVC", "createSVC", "waitTcp", "mountNFS"}

\* A call that has the UID of the present server pod has seen it running, and
\* does not fall back on its node if the lookup takes the right directory.
CallUid(t) ==
  /\ (call[t].pc \in {"target", "source"} /\ call[t].uid = nfsPod.uid /\ nfsPod.uid # None) =>
       nfsPod.phase = "Running"
  /\ (call[t].pc \in FallbackSteps /\ NodeOfCall(t) = nfsPod.node) =>
       call[t].uid # nfsPod.uid \/ PickSource(nfsPod.dirs) # DataMountPoint

UidInv ==
  faults = 0 => /\ nfsPod.uid = None => nfsPod.node = None
                /\ \A t \in Threads : CallUid(t)

\* Without faults nothing has failed before either.
LEMMA NoFaultsYet ==
  ASSUME TypeOK, [Next]_vars, faults' = 0
  PROVE  faults = 0 /\ \A kind : ~ Fault(kind)
<1>1. faults \in Nat
  BY FaultsAssumption DEF TypeOK
<1>2. \A kind : ~ Fault(kind)
  BY <1>1 DEF Fault
<1>3. faults' = faults
  <2>1. ASSUME NEW t \in Threads, Publish(t) PROVE faults' = faults
    BY <1>2, <2>1 DEF Publish, GetPVC, GetSTS, CreateSTS, GetPod, WaitPod, CheckTarget,
       FindSource, BindLocal, GetAppPod, Annotate, GetSVC, CreateSVC, WaitTcp, MountNFS, Chmod, NoFault
  <2>2. ASSUME NEW t \in Threads, Unpublish(t) PROVE faults' = faults
    BY <1>2, <2>2 DEF Unpublish, CleanupMountPoint, GetPV, ListPods, DeleteSTS, DeleteSVC,
       WaitGone, NoFault
  <2>3. ASSUME NEW p \in Pods, Kubelet(p) \/ PodCreated(p) PROVE faults' = faults
    BY <2>3 DEF Kubelet, StartPublish, StartUnpublish, Begin, Forget, FinalizePod, PodCreated,
       driverVars
  <2>4. CASE Cluster \/ UNCHANGED vars
    BY <2>4 DEF Cluster, vars, driverVars
  <2> QED BY <1>2, <2>1, <2>2, <2>3, <2>4 DEF Next, Settled, KubeletTimeout, PluginRestart,
        KubeletRestart, PodLost
<1> QED BY <1>2, <1>3

\* A step of a publish call.  With the right UID on the right node and the
\* right directory the lookup fails only if the server pod does not run.
LEMMA UidPublish ==
  ASSUME TypeOK, UidInv, [Next]_vars, faults' = 0,
         NEW t \in Threads, Publish(t)
  PROVE  CallUid(t)'
<1>0. /\ call[t] \in Calls /\ NodeOfCall(t) # None
      /\ CallUid(t) /\ (nfsPod.uid = None => nfsPod.node = None)
      /\ \A kind : ~ Fault(kind)
  <2>1. call[t] \in Calls /\ call[t].pod \in Pods
    BY PublishShape, StepsDisjoint DEF StepOf, TypeOK, CallsOK
  <2> QED BY <2>1, NoFaultsYet, NodeOfAssumption, NoneAssumption DEF UidInv, NodeOfCall
<1>1. nfsPod' = nfsPod
  BY DEF Publish, GetPVC, GetSTS, CreateSTS, GetPod, WaitPod, CheckTarget, FindSource,
     BindLocal, GetAppPod, Annotate, GetSVC, CreateSVC, WaitTcp, MountNFS, Chmod, kubeVars
<1>2. ASSUME NEW pc, Goto(t, pc)
      PROVE  /\ call'[t].pc = pc /\ call'[t].uid = call[t].uid
             /\ call'[t].pod = call[t].pod
  BY <1>0, <1>2, GotoPc DEF Calls
<1>3. ASSUME NEW code, PublishAnswer(t, code) PROVE call'[t].pc = "Idle"
  BY <1>3, PublishAnswerShape DEF Idle
<1>4. \A c : Continue(t, c) => call'[t] = c
  BY ContinueShape
<1> USE DEF FallbackSteps
<1>5. CASE GetPVC(t) \/ GetSTS(t) \/ CreateSTS(t)
  <2>1. call'[t].pc \in {"Idle", "getSTS", "getPod", "createSTS"}
    BY <1>0, <1>2, <1>3, <1>5 DEF GetPVC, GetSTS, CreateSTS
  <2> QED BY <2>1 DEF CallUid
<1>6. CASE GetPod(t)
  <2>1. call'[t].pc = "waitPod"
    BY <1>0, <1>4, <1>6 DEF GetPod, Calls
  <2> QED BY <2>1 DEF CallUid
<1>7. CASE WaitPod(t)
  <2>1. call'[t].pc = "Idle" \/ (call'[t].pc = "target" /\ nfsPod.phase = "Running")
    BY <1>0, <1>2, <1>3, <1>7 DEF WaitPod
  <2> QED BY <1>1, <2>1 DEF CallUid
<1>8. CASE CheckTarget(t)
  <2>1. CASE Goto(t, "source")
    BY <1>0, <1>1, <1>2, <1>8, <2>1 DEF CallUid, CheckTarget
  <2>2. CASE PublishAnswer(t, "OK")
    BY <1>3, <2>2 DEF CallUid
  <2> QED BY <1>0, <1>8, <2>1, <2>2 DEF CheckTarget
<1>9. CASE FindSource(t)
  <2>1. PICK ok \in BOOLEAN, pc \in {"bind", "getSVC"} :
          /\ Continue(t, [call[t] EXCEPT !.dirOk = ok, !.pc = pc])
          /\ NoFault => pc = IF LocalSource(t) THEN "bind" ELSE "getSVC"
    BY <1>9, SourceFound
  <2>2. NoFault
    BY <1>0, <1>9 DEF FindSource
  <2>3. call'[t] = [call[t] EXCEPT !.dirOk = ok, !.pc = pc]
    BY <1>4, <2>1
  <2>4. /\ call'[t].uid = call[t].uid /\ call'[t].pod = call[t].pod
        /\ call'[t].pc = IF LocalSource(t) THEN "bind" ELSE "getSVC"
    BY <1>0, <2>1, <2>2, <2>3 DEF Calls
  <2>5. /\ NodeOfCall(t) = nfsPod.node /\ call[t].uid = nfsPod.uid
        /\ PickSource(nfsPod.dirs) = DataMountPoint
        => LocalSource(t)
    BY <1>0, <1>9 DEF FindSource, CallUid, LocalSource, PodVolumesMounted, PodDirExists
  <2> QED BY <1>1, <2>4, <2>5 DEF CallUid, NodeOfCall
<1>10. CASE BindLocal(t) \/ GetAppPod(t) \/ Annotate(t) \/ Chmod(t)
  <2>1. call'[t].pc \in {"Idle", "getApp", "annotate", "chmod"}
    BY <1>0, <1>2, <1>3, <1>10 DEF BindLocal, GetAppPod, Annotate, Chmod
  <2> QED BY <2>1 DEF CallUid
<1>11. CASE GetSVC(t) \/ CreateSVC(t)
  <2>1. call[t].pc \in FallbackSteps
    BY <1>11 DEF GetSVC, CreateSVC
  <2>2. ASSUME NEW ip, Continue(t, [call[t] EXCEPT !.pc = "waitTcp", !.ip = ip])
        PROVE  /\ call'[t].pc = "waitTcp" /\ call'[t].uid = call[t].uid
               /\ call'[t].pod = call[t].pod
    BY <1>0, <1>4, <2>2 DEF Calls
  <2>3. \/ call'[t].pc = "Idle"
        \/ /\ call'[t].pc \in FallbackSteps /\ call'[t].uid = call[t].uid
           /\ call'[t].pod = call[t].pod
    BY <1>0, <1>2, <1>3, <1>11, <2>2 DEF GetSVC, CreateSVC
  <2> QED BY <1>0, <1>1, <2>1, <2>3 DEF CallUid, NodeOfCall
<1>12. CASE WaitTcp(t) \/ MountNFS(t)
  <2>1. call[t].pc \in FallbackSteps
    BY <1>12 DEF WaitTcp, MountNFS
  <2>2. \/ call'[t].pc \in {"Idle", "chmod"}
        \/ /\ call'[t].pc = "mountNFS" /\ call'[t].uid = call[t].uid
           /\ call'[t].pod = call[t].pod
    BY <1>0, <1>2, <1>3, <1>12 DEF WaitTcp, MountNFS, AfterMountNFS
  <2> QED BY <1>0, <1>1, <2>1, <2>2 DEF CallUid, NodeOfCall
<1> QED BY <1>5, <1>6, <1>7, <1>8, <1>9, <1>10, <1>11, <1>12 DEF Publish

\* The server pod goes, or a new one comes with a UID of its own, or the
\* present one changes its phase.
PodStays ==
  \/ /\ nfsPod'.uid = nfsPod.uid /\ nfsPod'.node = nfsPod.node /\ nfsPod'.dirs = nfsPod.dirs
     /\ nfsPod'.phase = nfsPod.phase \/ nfsPod'.phase = "Running"
  \/ nfsPod'.uid = None /\ nfsPod'.node = None
  \/ nfsPod'.uid # None /\ \A t \in Threads : call'[t].uid # nfsPod'.uid

\* So it is in every step, as long as nothing fails.
LEMMA PodSteps == TypeOK /\ [Next]_vars /\ faults' = 0 => PodStays
<1> SUFFICES ASSUME TypeOK, [Next]_vars, faults' = 0 PROVE PodStays
  OBVIOUS
<1> USE DEF PodStays
<1>0. /\ nfsPod \in [uid : Uids \cup {None}, node : DataNodes \cup {None},
                     phase : Phases, owned : BOOLEAN,
                     dirs : PodVolumeDirs \cup {{}}]
      /\ \A kind : ~ Fault(kind)
  BY NoFaultsYet DEF TypeOK, KubeTypeOK
<1>1. CASE StsCreatesPod(HeldUids) /\ UNCHANGED driverVars
  <2>1. PICK v \in Uids : v \notin HeldUids /\ nfsPod'.uid = v
    BY <1>1 DEF StsCreatesPod
  <2>2. call' = call /\ v # None
    BY <1>1, NoneAssumption DEF driverVars
  <2> QED BY <2>1, <2>2 DEF HeldUids
<1>2. CASE PodRuns
  BY <1>0, <1>2 DEF PodRuns
<1>3. CASE PodRemoved
  BY <1>3 DEF PodRemoved, NoPod
<1>4. CASE nfsPod' = [nfsPod EXCEPT !.owned = FALSE]
  BY <1>0, <1>4
<1>5. CASE nfsPod' = nfsPod
  BY <1>5
<1>6. \/ nfsPod' = nfsPod \/ nfsPod' = [nfsPod EXCEPT !.owned = FALSE]
      \/ PodRemoved \/ PodRuns \/ (StsCreatesPod(HeldUids) /\ UNCHANGED driverVars)
  <2>1. ASSUME NEW t \in Threads, Publish(t) PROVE nfsPod' = nfsPod
    BY <2>1 DEF Publish, GetPVC, GetSTS, CreateSTS, GetPod, WaitPod, CheckTarget, FindSource,
       BindLocal, GetAppPod, Annotate, GetSVC, CreateSVC, WaitTcp, MountNFS, Chmod, kubeVars
  <2>2. ASSUME NEW t \in Threads, Unpublish(t)
        PROVE  nfsPod' = nfsPod \/ nfsPod' = [nfsPod EXCEPT !.owned = FALSE]
    BY <2>2 DEF Unpublish, CleanupMountPoint, GetPV, ListPods, DeleteSTS, DeleteSVC, WaitGone,
       kubeVars
  <2>3. ASSUME NEW p \in Pods, Kubelet(p) \/ PodCreated(p) PROVE nfsPod' = nfsPod
    BY <2>3 DEF Kubelet, StartPublish, StartUnpublish, Begin, Forget, FinalizePod, PodCreated,
       StartPod, kubeVars
  <2>4. CASE Cluster
    BY <2>4 DEF Cluster, CollectGarbage, DeletePV, DeleteDataPVC, DeletePod, ForceDeletePod
  <2>5. CASE UNCHANGED vars
    BY <2>5 DEF vars, kubeVars
  <2> QED BY <1>0, <2>1, <2>2, <2>3, <2>4, <2>5 DEF Next, Settled, KubeletTimeout,
        PluginRestart, KubeletRestart, PodLost
<1> QED BY <1>1, <1>2, <1>3, <1>4, <1>5, <1>6

\* What the steps of others may do to a call: nothing, end it, or turn it into
\* one that has read no UID yet.
LEMMA UidOthers ==
  ASSUME TypeOK, UidInv, [Next]_vars, faults' = 0, NEW u \in Threads, ~ Publish(u)
  PROVE  CallUid(u)'
<1>0. /\ call \in [Threads -> Calls]
      /\ \A t \in Threads : call[t].pc # "Idle" => call[t].pod \in Pods
      /\ nfsPod \in [uid : Uids \cup {None}, node : DataNodes \cup {None},
                     phase : Phases, owned : BOOLEAN,
                     dirs : PodVolumeDirs \cup {{}}]
      /\ CallUid(u) /\ (nfsPod.uid = None => nfsPod.node = None)
      /\ \A kind : ~ Fault(kind)
  BY NoFaultsYet DEF UidInv, TypeOK, CallsOK, KubeTypeOK
<1>1. \/ call'[u] = call[u]
      \/ call'[u].pc \notin {"target", "source"} \cup FallbackSteps
  <2> USE DEF FallbackSteps
  <2>1. ASSUME NEW t \in Threads, Publish(t) PROVE call'[u] = call[u]
    BY <2>1, PublishShape DEF StepOf, OthersStay
  <2>2. ASSUME NEW t \in Threads, Unpublish(t)
        PROVE  call'[u] = call[u] \/ call'[u].pc \in UnpublishSteps \cup {"Idle"}
    BY <2>2, UnpublishShape, AnswerShape DEF StepOf, OthersStay, GoesOn, Ends, Idle
  <2>3. ASSUME NEW p \in Pods, Kubelet(p)
        PROVE  call'[u] = call[u] \/ call'[u].pc \in {"getPVC", "cleanup"}
    <3>1. ASSUME NEW t \in Threads, NEW pc \in {"getPVC", "cleanup"}, NEW view,
                 Begin(p, t, pc, view)
          PROVE  call'[u] = call[u] \/ call'[u].pc \in {"getPVC", "cleanup"}
      BY <1>0, <3>1 DEF Begin, Idle
    <3> QED BY <2>3, <3>1 DEF Kubelet, StartPublish, StartUnpublish, Forget, FinalizePod,
          driverVars
  <2>4. CASE \/ \E p \in Pods : PodCreated(p)
             \/ Cluster \/ PodLost \/ UNCHANGED vars
    BY <2>4 DEF PodCreated, Cluster, PodLost, vars, driverVars
  <2> QED BY <1>0, <2>1, <2>2, <2>3, <2>4 DEF Next, Settled, KubeletTimeout, PluginRestart,
        KubeletRestart, UnpublishSteps
<1>2. PodStays
  BY PodSteps
<1>3. call'[u].pc \in FallbackSteps => NodeOfCall(u)' # None
  <2>1. TypeOK'
    BY NextType
  <2>2. call'[u].pc # "Idle" => call'[u].pod \in Pods
    BY <2>1 DEF TypeOK, CallsOK
  <2> QED BY <2>2, NodeOfAssumption, NoneAssumption DEF FallbackSteps, NodeOfCall
<1> QED BY <1>0, <1>1, <1>2, <1>3 DEF PodStays, CallUid, NodeOfCall

\* Every step keeps the invariant.
LEMMA UidNext == TypeOK /\ UidInv /\ [Next]_vars => UidInv'
<1> SUFFICES ASSUME TypeOK, UidInv, [Next]_vars, faults' = 0
             PROVE  /\ nfsPod'.uid = None => nfsPod'.node = None
                    /\ \A t \in Threads : CallUid(t)'
  BY DEF UidInv
<1>1. \A t \in Threads : CallUid(t)'
  BY UidPublish, UidOthers
<1>2. nfsPod'.uid = None => nfsPod'.node = None
  BY PodSteps, NoFaultsYet DEF PodStays, UidInv
<1> QED BY <1>1, <1>2

\* Unless something failed, a call on the server pod's own node falls back to
\* NFS only because it has read no UID, or that of an earlier pod, or because
\* the lookup takes another directory of the pod for that of the data volume
\* (nodeserver.go:261, used at line 299; lines 307-327): for any number of
\* nodes, pods and concurrent calls, and whatever directories the pods have.
THEOREM FallbackMeansStaleUid == Spec => []FallsBackOnStaleUid
<1>1. TypeOK /\ UidInv => FallsBackOnStaleUid
  BY DEF UidInv, CallUid, FallbackSteps, FallsBackOnStaleUid
<1>2. Init => UidInv
  BY DEF Init, KubeInit, NoPod, Idle, UidInv, CallUid, FallbackSteps
<1>3. TypeOK /\ UidInv /\ [Next]_vars => UidInv'
  BY UidNext
<1> QED BY <1>1, <1>2, <1>3, InitType, NextType, PTL DEF Spec

-----------------------------------------------------------------------------
(* What belongs to a bind mount. *)

Binds(p) == {i \in 1..Len(mnt[p]) : mnt[p][i].kind = "bind"}

AnnotateSteps == {"getApp", "annotate"}

\* A pod with the deletion cost, or about to get it, has a bind mount, until
\* it is unmounted for good.
Marked(p) ==
  p \in annotated \/ \E t \in Threads : call[t].pc \in AnnotateSteps /\ call[t].pod = p

BindKept(p) ==
  Marked(p) => \/ Binds(p) # {}
               \/ Leaving(p) /\ kub[p] \notin {"publishing", "published"}

\* The bind mount i has all that belongs to it, or a call is still at it.
Done(p, i) ==
  /\ appPod[p] = "active" => p \in annotated
  /\ p \in Listed /\ SetMode => mnt[p][i].mode

WorksAt(t, p, i) ==
  /\ i = Len(mnt[p]) /\ call[t].pod = p
  /\ \/ call[t].pc \in AnnotateSteps
     \/ call[t].pc = "chmod" /\ (appPod[p] = "active" => p \in annotated)

BindDone(p) == \A i \in Binds(p) : Done(p, i) \/ \E t \in Threads : WorksAt(t, p, i)

\* Every kubelet waits for its calls.
AllLive == \A t \in Threads : call[t].pc # "Idle" => call[t].live

LocalInv ==
  /\ RemoteInv /\ UnbornIdle
  /\ \A p \in Pods : BindKept(p)
  /\ faults = 0 => AllLive /\ \A p \in Pods : BindDone(p)

\* One more mount on the stack.
LEMMA PushedMount ==
  ASSUME TypeOK, NEW p \in Pods, NEW m, Push(p, m)
  PROVE  /\ Len(mnt'[p]) = Len(mnt[p]) + 1
         /\ \A i \in 1..Len(mnt[p]) : mnt'[p][i] = mnt[p][i]
         /\ mnt'[p][Len(mnt'[p])] = m
<1>1. mnt[p] \in Seq(Mounts) /\ mnt'[p] = Append(mnt[p], m)
  BY DEF TypeOK, Push
<1> QED BY <1>1

\* The mode of the topmost mount.
LEMMA ModedMount ==
  ASSUME TypeOK, NEW p \in Pods, SetTopMode(p)
  PROVE  /\ Len(mnt'[p]) = Len(mnt[p])
         /\ \A i \in 1..Len(mnt[p]) : /\ mnt'[p][i].kind = mnt[p][i].kind
                                      /\ mnt[p][i].mode => mnt'[p][i].mode
         /\ SetMode /\ mnt[p] # <<>> => mnt'[p][Len(mnt[p])].mode
<1>1. /\ mnt \in [Pods -> Seq(Mounts)] /\ mnt[p] \in Seq(Mounts)
      /\ \A i \in 1..Len(mnt[p]) : mnt[p][i] \in Mounts
  BY DEF TypeOK
<1>2. CASE SetMode /\ mnt[p] # <<>>
  <2>1. mnt'[p] = ModeSet(mnt[p])
    BY <1>1, <1>2 DEF SetTopMode
  <2> QED BY <1>1, <1>2, <2>1, ModeSetMounts
<1>3. CASE ~ (SetMode /\ mnt[p] # <<>>)
  BY <1>3 DEF SetTopMode
<1> QED BY <1>2, <1>3

\* What a step of a publish call does to the mounts of its pod: they stay, and
\* a new bind mount comes with a call at the annotation.
LEMMA PublishStack ==
  ASSUME TypeOK, NEW t \in Threads, Publish(t), NEW p \in Pods, p = call[t].pod
  PROVE  /\ Len(mnt'[p]) \in Nat /\ Len(mnt[p]) \in Nat /\ Len(mnt[p]) <= Len(mnt'[p])
         /\ \A i \in 1..Len(mnt[p]) : /\ mnt'[p][i].kind = mnt[p][i].kind
                                      /\ mnt[p][i].mode => mnt'[p][i].mode
         /\ \A i \in 1..Len(mnt'[p]) :
              i > Len(mnt[p]) /\ mnt'[p][i].kind = "bind" =>
                i = Len(mnt'[p]) /\ call'[t].pc = "getApp"
         /\ call'[t].pc = "getApp" => Binds(p)' # {}
<1>0. /\ mnt[p] \in Seq(Mounts) /\ Len(mnt[p]) \in Nat /\ call[t] \in Calls
  BY DEF TypeOK, CallsOK
<1>1. CASE BindLocal(t) /\ Push(p, BindMount)
  <2>1. call'[t].pc = "getApp"
    <3>1. BindMount.kind = "bind"
      BY DEF BindMount
    <3>2. Goto(t, "getApp")
      BY <1>1, <1>0, PushedMount DEF BindLocal
    <3> QED BY <3>2, GotoPc
  <2>2. Len(mnt'[p]) \in Binds(p)'
    BY <1>0, <1>1, PushedMount DEF BindMount, Binds
  <2>3. /\ Len(mnt'[p]) = Len(mnt[p]) + 1
        /\ \A i \in 1..Len(mnt[p]) : mnt'[p][i] = mnt[p][i]
    BY <1>1, PushedMount
  <2>4. \A i \in 1..Len(mnt[p]) : /\ mnt'[p][i].kind = mnt[p][i].kind
                                  /\ mnt[p][i].mode => mnt'[p][i].mode
    BY <2>3
  <2>5. \A i \in 1..Len(mnt'[p]) : i > Len(mnt[p]) => i = Len(mnt'[p])
    BY <1>0, <2>3
  <2>6. Len(mnt'[p]) \in Nat /\ Len(mnt[p]) <= Len(mnt'[p])
    BY <1>0, <2>3
  <2>7. \A i \in 1..Len(mnt'[p]) :
         i > Len(mnt[p]) /\ mnt'[p][i].kind = "bind" =>
           i = Len(mnt'[p]) /\ call'[t].pc = "getApp"
    BY <2>1, <2>5
  <2>8. call'[t].pc = "getApp" => Binds(p)' # {}
    BY <2>2
  <2> QED BY <1>0, <2>4, <2>6, <2>7, <2>8
<1>2. CASE MountNFS(t) /\ Push(p, NfsMount(call[t].ip))
  <2>1. call'[t].pc # "getApp"
    <3>1. Goto(t, "chmod") \/ PublishAnswer(t, "Internal")
      BY <1>2 DEF MountNFS, AfterMountNFS
    <3>2. Goto(t, "chmod") => call'[t].pc = "chmod"
      BY GotoPc
    <3>3. PublishAnswer(t, "Internal") => call'[t].pc = "Idle"
      BY PublishAnswerShape DEF Idle
    <3> QED BY <3>1, <3>2, <3>3
  <2>2. NfsMount(call[t].ip).kind = "nfs"
    BY DEF NfsMount
  <2>3. /\ Len(mnt'[p]) = Len(mnt[p]) + 1
        /\ \A i \in 1..Len(mnt[p]) : mnt'[p][i] = mnt[p][i]
        /\ mnt'[p][Len(mnt'[p])].kind = "nfs"
    BY <1>2, <2>2, PushedMount
  <2>4. \A i \in 1..Len(mnt'[p]) : i > Len(mnt[p]) => mnt'[p][i].kind = "nfs"
    BY <1>0, <2>3
  <2>5. \A i \in 1..Len(mnt[p]) : /\ mnt'[p][i].kind = mnt[p][i].kind
                                  /\ mnt[p][i].mode => mnt'[p][i].mode
    BY <2>3
  <2>6. Len(mnt'[p]) \in Nat /\ Len(mnt[p]) <= Len(mnt'[p])
    BY <1>0, <2>3
  <2>7. \A i \in 1..Len(mnt'[p]) :
         i > Len(mnt[p]) /\ mnt'[p][i].kind = "bind" =>
           i = Len(mnt'[p]) /\ call'[t].pc = "getApp"
    BY <2>4
  <2>8. call'[t].pc = "getApp" => Binds(p)' # {}
    BY <2>1
  <2> QED BY <1>0, <2>5, <2>6, <2>7, <2>8
<1>3. CASE Chmod(t) /\ SetTopMode(p)
  <2>1. call'[t].pc # "getApp"
    BY <1>3, PublishAnswerShape DEF Chmod, Idle
  <2> QED BY <1>0, <1>3, <2>1, ModedMount
<1>4. CASE mnt' = mnt /\ ~ (BindLocal(t) /\ Push(p, BindMount))
  <2>1. call'[t].pc # "getApp"
    <3>1. ASSUME NEW pc, Goto(t, pc), pc # "getApp" PROVE call'[t].pc # "getApp"
      BY <3>1, GotoPc
    <3>2. ASSUME NEW code, PublishAnswer(t, code) PROVE call'[t].pc # "getApp"
      BY <3>2, PublishAnswerShape DEF Idle
    <3>3. \A c : Continue(t, c) => call'[t] = c
      BY ContinueShape
    <3>4. CASE GetPVC(t) \/ GetSTS(t) \/ CreateSTS(t) \/ WaitPod(t) \/ CheckTarget(t)
      BY <3>1, <3>2, <3>4 DEF GetPVC, GetSTS, CreateSTS, WaitPod, CheckTarget
    <3>5. CASE GetPod(t)
      <4>1. [call[t] EXCEPT !.pc = "waitPod", !.uid = nfsPod.uid].pc = "waitPod"
        BY <1>0 DEF Calls
      <4> QED BY <3>1, <3>3, <3>5, <4>1 DEF GetPod
    <3>6. CASE FindSource(t)
      <4>1. PICK ok \in BOOLEAN, pc \in {"bind", "getSVC"} :
              Continue(t, [call[t] EXCEPT !.dirOk = ok, !.pc = pc])
        BY <3>6, SourceFound
      <4>2. call'[t] = [call[t] EXCEPT !.dirOk = ok, !.pc = pc]
        BY <3>3, <4>1
      <4> QED BY <1>0, <4>2 DEF Calls
    <3>7. CASE GetSVC(t) \/ CreateSVC(t)
      <4>1. \A ip : [call[t] EXCEPT !.pc = "waitTcp", !.ip = ip].pc = "waitTcp"
        BY <1>0 DEF Calls
      <4> QED BY <3>1, <3>2, <3>3, <3>7, <4>1 DEF GetSVC, CreateSVC
    <3>8. CASE BindLocal(t)
      BY <1>4, <3>2, <3>8 DEF BindLocal
    <3>9. CASE WaitTcp(t) \/ MountNFS(t) \/ GetAppPod(t) \/ Annotate(t) \/ Chmod(t)
      BY <3>1, <3>2, <3>9 DEF WaitTcp, MountNFS, AfterMountNFS, GetAppPod, Annotate, Chmod
    <3> QED BY <3>4, <3>5, <3>6, <3>7, <3>8, <3>9 DEF Publish
  <2> QED BY <1>0, <1>4, <2>1
<1> QED BY <1>1, <1>2, <1>3, <1>4 DEF Publish, GetPVC, GetSTS, CreateSTS, GetPod, WaitPod,
      CheckTarget, FindSource, BindLocal, GetAppPod, Annotate, GetSVC, CreateSVC, WaitTcp, MountNFS, Chmod

\* A call comes to the annotation from the step before it only.
LEMMA AnnotateAfterGet ==
  ASSUME TypeOK, NEW t \in Threads, Publish(t), call'[t].pc = "annotate"
  PROVE  call[t].pc = "getApp"
<1>0. call[t] \in Calls
  BY DEF TypeOK, CallsOK
<1>1. \A pc : Goto(t, pc) => pc = "annotate"
  BY GotoPc
<1>2. \A code : ~ PublishAnswer(t, code)
  BY PublishAnswerShape DEF Idle
<1>3. \A c : Continue(t, c) => c.pc = "annotate"
  BY ContinueShape
<1>4. ~ (GetPVC(t) \/ GetSTS(t) \/ CreateSTS(t) \/ WaitPod(t) \/ CheckTarget(t))
  BY <1>1, <1>2 DEF GetPVC, GetSTS, CreateSTS, WaitPod, CheckTarget
<1>5. ~ GetPod(t)
  <2>1. [call[t] EXCEPT !.pc = "waitPod", !.uid = nfsPod.uid].pc = "waitPod"
    BY <1>0 DEF Calls
  <2> QED BY <1>1, <1>3, <2>1 DEF GetPod
<1>6. ~ FindSource(t)
  <2> SUFFICES ASSUME FindSource(t) PROVE FALSE
    OBVIOUS
  <2>1. PICK ok \in BOOLEAN, pc \in {"bind", "getSVC"} :
          Continue(t, [call[t] EXCEPT !.dirOk = ok, !.pc = pc])
    BY SourceFound
  <2>2. [call[t] EXCEPT !.dirOk = ok, !.pc = pc].pc = "annotate"
    BY <1>3, <2>1
  <2> QED BY <1>0, <2>2 DEF Calls
<1>7. ~ (GetSVC(t) \/ CreateSVC(t))
  <2>1. \A ip : [call[t] EXCEPT !.pc = "waitTcp", !.ip = ip].pc = "waitTcp"
    BY <1>0 DEF Calls
  <2> QED BY <1>1, <1>2, <1>3, <2>1 DEF GetSVC, CreateSVC
<1>8. ~ (BindLocal(t) \/ WaitTcp(t) \/ MountNFS(t) \/ Annotate(t) \/ Chmod(t))
  BY <1>1, <1>2 DEF BindLocal, WaitTcp, MountNFS, AfterMountNFS, Annotate, Chmod
<1> QED BY <1>4, <1>5, <1>6, <1>7, <1>8 DEF Publish, GetAppPod

\* Only the annotation step changes the annotations, for its own pod.
LEMMA Annotations ==
  ASSUME TypeOK, [Next]_vars
  PROVE  /\ annotated \subseteq annotated'
         /\ \A p \in annotated' \ annotated :
              \E t \in Threads : Annotate(t) /\ call[t].pod = p
<1>1. ASSUME NEW t \in Threads, Publish(t)
      PROVE  annotated' = annotated \/ (Annotate(t) /\ annotated' = annotated \cup ({call[t].pod} \cap Listed))
  BY <1>1 DEF Publish, GetPVC, GetSTS, CreateSTS, GetPod, WaitPod, CheckTarget, FindSource,
     BindLocal, GetAppPod, Annotate, GetSVC, CreateSVC, WaitTcp, MountNFS, Chmod
<1>2. ASSUME NEW t \in Threads, Unpublish(t) PROVE annotated' = annotated
  BY <1>2 DEF Unpublish, CleanupMountPoint, GetPV, ListPods, DeleteSTS, DeleteSVC, WaitGone
<1>3. CASE \/ \E t \in Threads : KubeletTimeout(t)
           \/ \E p \in Pods : Kubelet(p) \/ PodCreated(p)
           \/ \E n \in Nodes : PluginRestart(n) \/ KubeletRestart(n)
           \/ Cluster \/ PodLost \/ UNCHANGED vars
  BY <1>3 DEF KubeletTimeout, Kubelet, StartPublish, StartUnpublish, Begin, Forget, FinalizePod,
     PodCreated, PluginRestart, KubeletRestart, Cluster, PodLost, vars, driverVars
<1> QED BY <1>1, <1>2, <1>3 DEF Next, Settled

\* A call that goes on works for the same pod; an idle one for none.
LEMMA OwnPod ==
  ASSUME TypeOK, NEW t \in Threads, Publish(t) \/ Unpublish(t)
  PROVE  /\ call[t].pod \in Pods /\ call[t].pc # "Idle" /\ OthersStay(t) /\ appPod' = appPod
         /\ call'[t].pc = "Idle" \/ call'[t].pod = call[t].pod
         /\ Publish(t) => call[t].pc \in PublishSteps
         /\ Unpublish(t) => /\ call[t].pc \in UnpublishSteps
                            /\ call'[t].pc \in UnpublishSteps \cup {"Idle"}
BY PublishShape, UnpublishShape, AnswerShape, StepsDisjoint
   DEF StepOf, GoesOn, Ends, Idle, TypeOK, CallsOK

\* A step of a call keeps the bind mounts of marked pods.
LEMMA KeptCall ==
  ASSUME LocalInv, [Next]_vars, NEW t \in Threads, Publish(t) \/ Unpublish(t),
         NEW p \in Pods
  PROVE  BindKept(p)'
<1>0. TypeOK /\ CallsAgree /\ BindKept(p) /\ kub \in [Pods -> Views]
  BY DEF LocalInv, RemoteInv, TypeOK
<1>1. SUFFICES ASSUME Marked(p)' PROVE (Binds(p) # {} \/ (Leaving(p) /\ kub[p] \notin {"publishing", "published"}))'
  BY DEF BindKept
<1>2. CASE p # call[t].pod
  <2>1. mnt'[p] = mnt[p] /\ kub'[p] = kub[p] /\ appPod' = appPod
    BY <1>0, <1>2, OthersMounts, OwnPod
  <2>2. p \in annotated' => p \in annotated
    <3>1. ASSUME NEW u \in Threads, Annotate(u), call[u].pod = p, p \in annotated' PROVE p \in annotated
      <4>1. u # t
        BY <1>2, <3>1
      <4>2. call'[u] = call[u]
        BY <1>0, <4>1, OwnPod DEF OthersStay
      <4>3. call'[u].pc = "chmod" /\ call[u].pc = "annotate"
        BY <1>0, <3>1, GotoPc DEF GetAppPod, Annotate
      <4> QED BY <4>2, <4>3
    <3> QED BY <1>0, <3>1, Annotations
  <2>3. Marked(p)
    <3>1. ASSUME NEW u \in Threads, call'[u].pc \in AnnotateSteps, call'[u].pod = p
          PROVE  call[u].pc \in AnnotateSteps /\ call[u].pod = p
      BY <1>0, <1>2, <3>1, OwnPod DEF OthersStay, AnnotateSteps
    <3> QED BY <1>1, <2>2, <3>1 DEF Marked
  <2> QED BY <1>0, <2>1, <2>3 DEF BindKept, Binds, Leaving
<1>3. CASE p = call[t].pod /\ Publish(t)
  <2>1. CASE call'[t].pc = "getApp"
    BY <1>0, <1>3, <2>1, PublishStack
  <2>2. CASE call'[t].pc # "getApp"
    <3>1. Marked(p)
      <4>1. ASSUME NEW u \in Threads, call'[u].pc \in AnnotateSteps, call'[u].pod = p
            PROVE  call[u].pc \in AnnotateSteps /\ call[u].pod = p
        <5>1. CASE u = t
          BY <1>0, <1>3, <2>2, <4>1, <5>1, AnnotateAfterGet DEF AnnotateSteps
        <5>2. CASE u # t
          BY <1>0, <1>3, <4>1, <5>2, OwnPod DEF OthersStay
        <5> QED BY <5>1, <5>2
      <4>2. ASSUME NEW u \in Threads, Annotate(u), call[u].pod = p PROVE Marked(p)
        BY <4>2 DEF Annotate, Marked, AnnotateSteps
      <4> QED BY <1>0, <1>1, <4>1, <4>2, Annotations DEF Marked
    <3>2. CASE Binds(p) # {}
      <4>1. PICK i \in 1..Len(mnt[p]) : mnt[p][i].kind = "bind"
        BY <3>2 DEF Binds
      <4>2. /\ Len(mnt'[p]) \in Nat /\ Len(mnt[p]) \in Nat /\ Len(mnt[p]) <= Len(mnt'[p])
            /\ mnt'[p][i].kind = mnt[p][i].kind
        BY <1>0, <1>3, PublishStack
      <4>3. i \in 1..Len(mnt'[p]) /\ mnt'[p][i].kind = "bind"
        BY <4>1, <4>2
      <4> QED BY <4>3 DEF Binds
    <3>3. CASE Leaving(p) /\ kub[p] \notin {"publishing", "published"}
      <4>1. ~ call[t].live
        BY <1>0, <1>3, <3>3, OwnPod DEF CallsAgree
      <4>2. kub' = kub /\ appPod' = appPod
        BY <1>0, <1>3, <4>1, PublishShape DEF StepOf, GoesOn, Ends, Answer
      <4> QED BY <3>3, <4>2 DEF Leaving
    <3> QED BY <1>0, <3>1, <3>2, <3>3 DEF BindKept
  <2> QED BY <2>1, <2>2
<1>4. CASE p = call[t].pod /\ Unpublish(t)
  <2>1. Leaving(p) /\ kub[p] \notin {"publishing", "published"}
    BY <1>0, <1>4, OwnPod DEF CallsAgree
  <2>2. kub'[p] \notin {"publishing", "published"} /\ appPod' = appPod
    BY <1>0, <1>4, <2>1, UnpublishShape DEF StepOf, GoesOn, Ends, Answer, UnpublishViews
  <2> QED BY <2>1, <2>2 DEF Leaving
<1> QED BY <1>2, <1>3, <1>4

\* A step of a call finishes the bind mount it works at, and leaves the others.
LEMMA DoneCall ==
  ASSUME LocalInv, [Next]_vars, faults' = 0, NEW t \in Threads, Publish(t) \/ Unpublish(t),
         NEW p \in Pods
  PROVE  BindDone(p)'
<1>0. /\ TypeOK /\ CallsAgree /\ AllLive /\ BindDone(p) /\ \A kind : ~ Fault(kind)
      /\ mnt[p] \in Seq(Mounts) /\ Len(mnt[p]) \in Nat
  BY NoFaultsYet DEF LocalInv, RemoteInv, TypeOK
<1>1. Listed' = Listed /\ appPod' = appPod /\ annotated \subseteq annotated'
  BY <1>0, OwnPod, Annotations DEF Listed
<1>2. CASE p # call[t].pod
  <2>1. mnt'[p] = mnt[p]
    BY <1>0, <1>2, OthersMounts
  <2>2. \A u \in Threads : call[u].pod = p => call'[u] = call[u]
    BY <1>0, <1>2, OwnPod DEF OthersStay
  <2> QED BY <1>0, <1>1, <2>1, <2>2 DEF BindDone, Binds, Done, WorksAt
<1>3. CASE p = call[t].pod /\ Publish(t)
  <2> SUFFICES ASSUME NEW i \in Binds(p)' PROVE Done(p, i)' \/ \E u \in Threads : WorksAt(u, p, i)'
    BY DEF BindDone
  <2>0. i \in 1..Len(mnt'[p]) /\ mnt'[p][i].kind = "bind"
    BY DEF Binds
  <2>1. CASE i > Len(mnt[p])
    <3>1. i = Len(mnt'[p]) /\ call'[t].pc = "getApp"
      BY <1>0, <1>3, <2>0, <2>1, PublishStack
    <3>2. call'[t].pod = p
      BY <1>0, <1>3, <3>1, OwnPod
    <3> QED BY <3>1, <3>2 DEF WorksAt, AnnotateSteps
  <2>2. CASE i <= Len(mnt[p])
    <3>1. /\ i \in 1..Len(mnt[p]) /\ mnt[p][i].kind = "bind"
          /\ mnt[p][i].mode => mnt'[p][i].mode
      <4>1. Len(mnt'[p]) \in Nat
        BY <1>0, <1>3, PublishStack
      <4>2. i \in 1..Len(mnt[p])
        BY <1>0, <2>0, <2>2, <4>1
      <4>3. mnt'[p][i].kind = mnt[p][i].kind /\ (mnt[p][i].mode => mnt'[p][i].mode)
        BY <1>0, <1>3, <4>2, PublishStack
      <4> QED BY <2>0, <4>2, <4>3
    <3>2. CASE Done(p, i)
      BY <1>1, <3>1, <3>2 DEF Done
    <3>3. CASE \E u \in Threads : WorksAt(u, p, i)
      <4>1. WorksAt(t, p, i)
        <5>1. PICK u \in Threads : WorksAt(u, p, i)
          BY <3>3
        <5>2. u = t
          <6>1. call[u].pc # "Idle" /\ call[u].pod = p
            BY <5>1 DEF WorksAt, AnnotateSteps
          <6> QED BY <1>0, <1>3, <6>1, OwnPod, OneCallPerPod DEF AllLive
        <5> QED BY <5>1, <5>2
      <4>2. CASE call[t].pc \in AnnotateSteps
        <5>1. GetAppPod(t) \/ Annotate(t)
          BY <1>3, <4>2 DEF AnnotateSteps, Publish, GetPVC, GetSTS, CreateSTS, GetPod, WaitPod,
             CheckTarget, FindSource, BindLocal, GetSVC, CreateSVC, WaitTcp, MountNFS, Chmod
        <5>2. /\ mnt' = mnt
              /\ \/ call'[t].pc = "annotate"
                 \/ call'[t].pc = "chmod" /\ (appPod[p] = "active" => p \in annotated')
          BY <1>0, <1>3, <5>1, GotoPc DEF GetAppPod, Annotate, Listed
        <5>3. call'[t].pod = p
          BY <1>0, <1>3, <5>2, OwnPod
        <5> QED BY <1>1, <4>1, <5>2, <5>3 DEF WorksAt, AnnotateSteps
      <4>3. CASE call[t].pc = "chmod"
        <5>1. Chmod(t)
          BY <1>3, <4>3 DEF Publish, GetPVC, GetSTS, CreateSTS, GetPod, WaitPod, CheckTarget,
             FindSource, BindLocal, GetAppPod, Annotate, GetSVC, CreateSVC, WaitTcp, MountNFS
        <5>2. SetTopMode(p)
          BY <1>0, <1>3, <5>1 DEF Chmod
        <5>3. mnt[p] # <<>> /\ i = Len(mnt[p])
          BY <1>0, <3>1, <4>1 DEF WorksAt
        <5>4. SetMode => mnt'[p][i].mode
          BY <1>0, <5>2, <5>3, ModedMount
        <5>5. appPod[p] = "active" => p \in annotated
          BY <4>1, <4>3 DEF WorksAt, AnnotateSteps
        <5> QED BY <1>1, <5>4, <5>5 DEF Done
      <4> QED BY <4>1, <4>2, <4>3 DEF WorksAt
    <3> QED BY <1>0, <3>1, <3>2, <3>3 DEF BindDone, Binds
  <2> QED BY <1>0, <2>0, <2>1, <2>2
<1>4. CASE p = call[t].pod /\ Unpublish(t)
  <2>1. \A u \in Threads : WorksAt(u, p, Len(mnt[p])) => FALSE
    <3>1. \A u \in Threads : call[u].pc # "Idle" /\ call[u].pod = p => u = t
      BY <1>0, <1>4, OwnPod, OneCallPerPod DEF AllLive
    <3>2. call[t].pc \notin AnnotateSteps \cup {"chmod"}
      BY <1>0, <1>4, OwnPod DEF AnnotateSteps, UnpublishSteps
    <3>3. \A u \in Threads : WorksAt(u, p, Len(mnt[p])) =>
            call[u].pc # "Idle" /\ call[u].pod = p /\ call[u].pc \in AnnotateSteps \cup {"chmod"}
      BY DEF WorksAt, AnnotateSteps
    <3> QED BY <3>1, <3>2, <3>3
  <2>2. \A i \in Binds(p) : Done(p, i)
    BY <1>0, <2>1 DEF BindDone, WorksAt
  <2>3. \A i \in 1..Len(mnt'[p]) : i \in 1..Len(mnt[p]) /\ mnt'[p][i] = mnt[p][i]
    <3>1. CASE mnt' = mnt
      BY <3>1
    <3>2. CASE mnt' = [mnt EXCEPT ![p] = <<>>]
      BY <1>0, <3>2 DEF TypeOK
    <3>3. CASE /\ Len(mnt[p]) > 1
               /\ mnt' = [mnt EXCEPT ![p] = SubSeq(mnt[p], 1, Len(mnt[p]) - 1)]
      BY <1>0, <3>3 DEF TypeOK
    <3> QED BY <1>4, <3>1, <3>2, <3>3 DEF Unpublish, CleanupMountPoint, GetPV, ListPods, DeleteSTS,
          DeleteSVC, WaitGone
  <2> QED BY <1>1, <2>2, <2>3 DEF BindDone, Binds, Done
<1> QED BY <1>2, <1>3, <1>4

\* Nothing but a step of its own, or a failure, moves a call; new calls are live.
LEMMA CallsStay ==
  ASSUME TypeOK, [Next]_vars,
         \/ \E t \in Threads : KubeletTimeout(t)
         \/ \E p \in Pods : Kubelet(p) \/ PodCreated(p)
         \/ \E n \in Nodes : PluginRestart(n) \/ KubeletRestart(n)
         \/ Cluster \/ PodLost \/ UNCHANGED vars,
         NEW u \in Threads
  PROVE  \/ call'[u].pc = call[u].pc /\ call'[u].pod = call[u].pod
              /\ (faults' = 0 => call'[u] = call[u])
         \/ call'[u].pc = "Idle" /\ faults' # 0
         \/ call[u].pc = "Idle" /\ call'[u].live /\ call'[u].pc \in {"getPVC", "cleanup"}
<1>0. call \in [Threads -> Calls] /\ Idle.pc = "Idle"
  BY DEF TypeOK, CallsOK, Idle
<1>1. ASSUME NEW q \in Pods, NEW t \in Threads, NEW pc \in {"getPVC", "cleanup"}, NEW view,
             Begin(q, t, pc, view)
      PROVE  \/ call'[u] = call[u]
             \/ call[u].pc = "Idle" /\ call'[u].live /\ call'[u].pc \in {"getPVC", "cleanup"}
  BY <1>0, <1>1 DEF Begin, Idle
<1>2. CASE \E q \in Pods : Kubelet(q) \/ PodCreated(q)
  BY <1>1, <1>2 DEF Kubelet, StartPublish, StartUnpublish, Forget, FinalizePod, PodCreated,
     driverVars
<1>3. CASE \E t \in Threads : KubeletTimeout(t)
  BY <1>0, <1>3, NoFaultsYet DEF KubeletTimeout, Calls
<1>4. CASE \E n \in Nodes : PluginRestart(n) \/ KubeletRestart(n)
  BY <1>0, <1>4, NoFaultsYet DEF PluginRestart, KubeletRestart, Calls
<1>5. CASE Cluster \/ PodLost \/ UNCHANGED vars
  BY <1>5 DEF Cluster, PodLost, vars, driverVars
<1> QED BY <1>2, <1>3, <1>4, <1>5

\* Nobody else mounts or annotates, or goes on with a call.
LEMMA LocalEnvironment ==
  ASSUME LocalInv, [Next]_vars,
         \/ \E t \in Threads : KubeletTimeout(t)
         \/ \E p \in Pods : Kubelet(p) \/ PodCreated(p)
         \/ \E n \in Nodes : PluginRestart(n) \/ KubeletRestart(n)
         \/ Cluster \/ PodLost \/ UNCHANGED vars,
         NEW p \in Pods
  PROVE  /\ BindKept(p)'
         /\ faults' = 0 => BindDone(p)'
<1>0. /\ TypeOK /\ UnbornIdle /\ BindKept(p) /\ call \in [Threads -> Calls] /\ kub \in [Pods -> Views]
      /\ appPod \in [Pods -> {"unborn", "active", "terminating", "gone"}]
      /\ Idle.pc = "Idle"
  BY DEF LocalInv, RemoteInv, TypeOK, CallsOK, KubeTypeOK, Idle
<1>1. mnt' = mnt /\ annotated' = annotated
  BY DEF KubeletTimeout, Kubelet, StartPublish, StartUnpublish, Begin, Forget, FinalizePod,
     PodCreated, PluginRestart, KubeletRestart, Cluster, PodLost, vars, driverVars
<1>2. /\ Leaving(p) => Leaving(p)'
      /\ p \in Listed' => p \in Listed \/ appPod[p] = "unborn"
      /\ appPod'[p] = "active" => appPod[p] \in {"active", "unborn"}
  BY <1>0 DEF KubeletTimeout, Kubelet, StartPublish, StartUnpublish, Begin, Forget, FinalizePod,
     PodCreated, StartPod, PluginRestart, KubeletRestart, Cluster, StsCreatesPod, PodRuns,
     PodRemoved, CollectGarbage, DeletePV, DeleteDataPVC, DeletePod, ForceDeletePod, PodLost,
     PodFails, vars, kubeVars, Leaving, Listed
<1>3. Leaving(p) /\ kub[p] \notin {"publishing", "published"} => kub'[p] \notin {"publishing", "published"}
  BY <1>0 DEF KubeletTimeout, Kubelet, StartPublish, StartUnpublish, Begin, Forget, FinalizePod,
     PodCreated, PluginRestart, KubeletRestart, Cluster, PodLost, vars, driverVars, Leaving
<1>4. BindKept(p)'
  <2>1. Marked(p)' => Marked(p)
    BY <1>0, <1>1, CallsStay DEF Marked, AnnotateSteps
  <2> QED BY <1>0, <1>1, <1>2, <1>3, <2>1 DEF BindKept, Binds
<1>5. ASSUME faults' = 0 PROVE BindDone(p)'
  <2>1. BindDone(p)
    BY <1>0, <1>5, NoFaultsYet DEF LocalInv
  <2>2. appPod[p] = "unborn" => Binds(p) = {}
    BY <1>0 DEF UnbornIdle, Binds
  <2>3. ASSUME NEW u \in Threads, call[u].pc # "Idle" PROVE call'[u] = call[u]
    BY <1>0, <1>5, <2>3, CallsStay
  <2> QED BY <1>1, <1>2, <2>1, <2>2, <2>3 DEF BindDone, Binds, Done, WorksAt, AnnotateSteps
<1> QED BY <1>4, <1>5

\* The initial states have the invariant.
LEMMA LocalInit == Init => LocalInv
<1> SUFFICES ASSUME Init PROVE LocalInv
  OBVIOUS
<1>1. UnbornIdle /\ AllLive /\ \A p \in Pods : BindKept(p) /\ BindDone(p)
  BY DEF Init, KubeInit, Idle, UnbornIdle, AllLive, BindKept, Marked, AnnotateSteps,
     BindDone, Binds
<1> QED BY <1>1, RemoteInit DEF LocalInv

\* Every step keeps it.
LEMMA LocalNext == LocalInv /\ [Next]_vars => LocalInv'
<1> SUFFICES ASSUME LocalInv, [Next]_vars PROVE LocalInv'
  OBVIOUS
<1>1. RemoteInv' /\ UnbornIdle'
  BY RemoteInvNext, UnbornNext DEF LocalInv, RemoteInv
<1>2. ASSUME NEW t \in Threads, Publish(t) \/ Unpublish(t)
      PROVE  /\ \A p \in Pods : BindKept(p)'
             /\ faults' = 0 => AllLive' /\ \A p \in Pods : BindDone(p)'
  <2>1. ASSUME faults' = 0 PROVE AllLive'
    <3>1. TypeOK /\ AllLive
      BY <2>1, NoFaultsYet DEF LocalInv, RemoteInv
    <3>2. call'[t] = Idle \/ call'[t].live = call[t].live
      BY <1>2, <3>1, PublishShape, UnpublishShape, AnswerShape DEF StepOf, GoesOn, Ends
    <3> QED BY <1>2, <3>1, <3>2, OwnPod DEF AllLive, OthersStay, Idle
  <2> QED BY <1>2, <2>1, KeptCall, DoneCall
<1>3. /\ \A p \in Pods : BindKept(p)'
      /\ faults' = 0 => AllLive' /\ \A p \in Pods : BindDone(p)'
  <2>1. CASE \E t \in Threads : Publish(t) \/ Unpublish(t)
    BY <1>2, <2>1
  <2>2. CASE \/ \E t \in Threads : KubeletTimeout(t)
             \/ \E p \in Pods : Kubelet(p) \/ PodCreated(p)
             \/ \E n \in Nodes : PluginRestart(n) \/ KubeletRestart(n)
             \/ Cluster \/ PodLost \/ UNCHANGED vars
    <3>1. \A p \in Pods : BindKept(p)' /\ (faults' = 0 => BindDone(p)')
      BY <2>2, LocalEnvironment
    <3>2. faults' = 0 => AllLive'
      <4>1. ASSUME faults' = 0 PROVE TypeOK /\ AllLive
        BY <4>1, NoFaultsYet DEF LocalInv, RemoteInv
      <4> QED BY <2>2, <4>1, CallsStay DEF AllLive
    <3> QED BY <3>1, <3>2
  <2> QED BY <2>1, <2>2 DEF Next, Settled
<1> QED BY <1>1, <1>3 DEF LocalInv

\* A running pod with the deletion cost has a bind mount, whatever fails; and
\* unless something failed, every bind mount of a published volume has the
\* deletion cost and the mode: for any number of nodes, pods and concurrent
\* calls (nodeserver.go:332-351 and 430-436).
THEOREM LocalComplete == Spec => []LocalPublishComplete
<1>1. ASSUME LocalInv PROVE LocalPublishComplete
  <2> SUFFICES ASSUME NEW p \in Pods, kub[p] = "published", p \in Listed
               PROVE  /\ p \in annotated => Binds(p) # {}
                      /\ faults = 0 => \A i \in Binds(p) :
                           /\ appPod[p] = "active" => p \in annotated
                           /\ SetMode => mnt[p][i].mode
    BY DEF LocalPublishComplete, Binds
  <2>1. p \in annotated => Binds(p) # {}
    BY <1>1 DEF LocalInv, BindKept, Marked
  <2>2. ASSUME faults = 0, NEW i \in Binds(p), NEW t \in Threads, WorksAt(t, p, i) PROVE FALSE
    <3>1. call[t].pc \in PublishSteps /\ call[t].pc # "Idle" /\ call[t].pod = p
      BY <2>2 DEF WorksAt, AnnotateSteps, PublishSteps
    <3> QED BY <1>1, <2>2, <3>1 DEF LocalInv, RemoteInv, CallsAgree, AllLive
  <2> QED BY <1>1, <2>1, <2>2 DEF LocalInv, BindDone, Done
<1> QED BY <1>1, LocalInit, LocalNext, PTL DEF Spec

-----------------------------------------------------------------------------
(* The last unmount deletes the server. *)

\* Volumes of pods that no longer run are the only ones that are unmounted.
UnmountedLeave ==
  \A p \in Pods : kub[p] \in {"unmounting", "done", "forgotten"} => Leaving(p)

\* The pod still owes the server a visit: its kubelet has not been told that
\* the volume is unpublished, and if a call is about to tell it so, the call
\* has one of the steps S still to take.
Owes(p, S) ==
  /\ appPod[p] # "unborn" /\ kub[p] # "done"
  /\ kub[p] = "unmounting" => \E t \in Threads : call[t].pod = p /\ call[t].pc \in S

ToDeleteSTS == {"cleanup", "getPV", "listPods", "deleteSTS"}
ToDeleteSVC == ToDeleteSTS \cup {"deleteSVC"}

Watched == ~ skipped /\ orphaned = {}

\* Whatever is left of the server, some pod owes it the deletion.
OwedSTS == sts => \E p \in Pods : Owes(p, ToDeleteSTS)
OwedSVC == svc # None => \E p \in Pods : Owes(p, ToDeleteSVC)

CleanupInv ==
  /\ MountInv /\ UnbornIdle /\ UnmountedLeave
  /\ pv /\ Watched => OwedSTS /\ OwedSVC

\* Both deletions are steps of an unpublish call.
LEMMA DebtSteps ==
  ASSUME NEW S \in {ToDeleteSTS, ToDeleteSVC}
  PROVE  S \subseteq UnpublishSteps /\ {"cleanup", "getPV", "listPods", "deleteSTS"} \subseteq S
BY DEF ToDeleteSTS, ToDeleteSVC, UnpublishSteps

\* What a step of a handler does to the view of one pod and to its call.
LEMMA HandlerViews ==
  ASSUME TypeOK, CallsAgree, NEW t \in Threads, Publish(t) \/ Unpublish(t)
  PROVE  /\ call[t].pc # "Idle" /\ call[t].pod \in Pods
         /\ OthersStay(t) /\ UNCHANGED appPod
         /\ call'[t] = Idle \/ call'[t].pod = call[t].pod
         /\ \A p \in Pods : p # call[t].pod => kub'[p] = kub[p]
         /\ Publish(t) => \A p \in Pods : kub'[p] = kub[p] \/ kub'[p] \in PublishViews
<1>0. /\ kub \in [Pods -> Views]
      /\ \A u \in Threads : call[u].pc # "Idle" => call[u].pod \in Pods
  BY DEF TypeOK, CallsOK
<1>1. ASSUME Publish(t)
      PROVE  /\ call[t].pc # "Idle" /\ OthersStay(t) /\ UNCHANGED appPod
             /\ GoesOn(t, PublishSteps) \/ Ends(t, PublishViews)
  BY <1>1, PublishShape, StepsDisjoint DEF StepOf
<1>2. ASSUME Unpublish(t)
      PROVE  /\ call[t].pc # "Idle" /\ OthersStay(t) /\ UNCHANGED appPod
             /\ GoesOn(t, UnpublishSteps) \/ Ends(t, UnpublishViews)
  BY <1>2, UnpublishShape, StepsDisjoint DEF StepOf
<1>3. ASSUME NEW V, Ends(t, V), call[t].pod \in Pods
      PROVE  /\ call'[t] = Idle
             /\ \A p \in Pods : p # call[t].pod => kub'[p] = kub[p]
             /\ \A p \in Pods : kub'[p] = kub[p] \/ kub'[p] \in V
  <2>1. PICK view \in V : Answer(t, view)
    BY <1>3 DEF Ends
  <2>2. call'[t] = Idle
    BY <2>1, AnswerShape
  <2> QED BY <1>0, <1>3, <2>1, <2>2 DEF Answer
<1>4. call[t].pod \in Pods
  BY <1>0, <1>1, <1>2
<1>5. ASSUME NEW S, GoesOn(t, S) PROVE kub' = kub /\ call'[t].pod = call[t].pod
  BY <1>5 DEF GoesOn
<1> QED BY <1>1, <1>2, <1>3, <1>4, <1>5

\* A pod that is listed as running owes the server a visit.
LEMMA ActiveOwes ==
  ASSUME UnmountedLeave', NEW p \in Pods, appPod'[p] = "active", NEW S
  PROVE  Owes(p, S)'
BY DEF UnmountedLeave, Owes, Leaving

\* A handler changes nothing for the pods it does not work for.
LEMMA OthersOwe ==
  ASSUME TypeOK, CallsAgree, NEW t \in Threads, Publish(t) \/ Unpublish(t),
         NEW p \in Pods, p # call[t].pod, NEW S, Owes(p, S)
  PROVE  Owes(p, S)'
<1>1. /\ OthersStay(t) /\ UNCHANGED appPod /\ kub'[p] = kub[p]
  BY HandlerViews
<1>2. CASE kub[p] # "unmounting"
  BY <1>1, <1>2 DEF Owes
<1>3. CASE kub[p] = "unmounting"
  <2>1. PICK u \in Threads : call[u].pod = p /\ call[u].pc \in S
    BY <1>3 DEF Owes
  <2>2. call'[u] = call[u]
    BY <1>1, <2>1 DEF OthersStay
  <2> QED BY <1>1, <2>1, <2>2 DEF Owes
<1> QED BY <1>2, <1>3

\* A publish call settles no debt.
LEMMA PublishOwes ==
  ASSUME TypeOK, CallsAgree, NEW t \in Threads, Publish(t),
         NEW p \in Pods, NEW S \in {ToDeleteSTS, ToDeleteSVC}, Owes(p, S)
  PROVE  Owes(p, S)'
<1>1. /\ OthersStay(t) /\ UNCHANGED appPod
      /\ kub'[p] = kub[p] \/ kub'[p] \in PublishViews
  BY HandlerViews
<1>2. call[t].pc \notin S
  BY PublishShape, StepsDisjoint, DebtSteps DEF StepOf
<1>3. CASE kub'[p] \in PublishViews
  BY <1>1, <1>3 DEF Owes, PublishViews
<1>4. CASE kub'[p] = kub[p] /\ kub[p] # "unmounting"
  BY <1>1, <1>4 DEF Owes
<1>5. CASE kub'[p] = kub[p] /\ kub[p] = "unmounting"
  <2>1. PICK u \in Threads : call[u].pod = p /\ call[u].pc \in S
    BY <1>5 DEF Owes
  <2>2. call'[u] = call[u]
    BY <1>1, <1>2, <2>1 DEF OthersStay
  <2> QED BY <1>1, <1>5, <2>1, <2>2 DEF Owes
<1> QED BY <1>1, <1>3, <1>4, <1>5

\* What a publish call has made, its own pod will have to answer for.
LEMMA PublisherOwes ==
  ASSUME TypeOK, CallsAgree, CallsWatched, UnbornIdle, Watched,
         NEW t \in Threads, CreateSTS(t) \/ CreateSVC(t), kub' = kub,
         NEW p \in Pods, p = call[t].pod, NEW S
  PROVE  Owes(p, S)'
<1>1. call[t].pc \in {"createSTS", "createSVC"} /\ UNCHANGED appPod
  BY DEF CreateSTS, CreateSVC
<1>2. call[t].pc \in PublishSteps /\ call[t].pc # "Idle"
  BY <1>1 DEF PublishSteps
<1>3. call[t].live /\ call[t].pod \in Pods
  BY <1>2 DEF CallsWatched, Watched, TypeOK, CallsOK
<1>4. kub[call[t].pod] = "publishing"
  BY <1>2, <1>3 DEF CallsAgree
<1>5. appPod[call[t].pod] # "unborn"
  BY <1>2, <1>3 DEF UnbornIdle
<1> QED BY <1>1, <1>4, <1>5 DEF Owes

\* While a pod is unmounted, its call is the only one for it.
LEMMA OnlyDebtor ==
  ASSUME CallsAgree, CallsWatched, Watched,
         NEW t \in Threads, call[t].pc \in UnpublishSteps,
         NEW S \in {ToDeleteSTS, ToDeleteSVC}, Owes(call[t].pod, S)
  PROVE  call[t].pc \in S
<1>1. \A u \in Threads : call[u].pc # "Idle" => call[u].live
  BY DEF CallsWatched, Watched
<1>2. call[t].pc # "Idle" /\ kub[call[t].pod] = "unmounting"
  BY <1>1, StepsDisjoint DEF CallsAgree
<1>3. PICK u \in Threads : call[u].pod = call[t].pod /\ call[u].pc \in S
  BY <1>2 DEF Owes
<1>4. call[u].pc # "Idle"
  BY <1>3, DebtSteps, StepsDisjoint
<1>5. u = t
  BY <1>1, <1>2, <1>3, <1>4, OneCallPerPod
<1> QED BY <1>3, <1>5

\* A debt passes an unpublish call if the call keeps it, if the call fails, or
\* if it was not this call's.
LEMMA DebtStays ==
  ASSUME TypeOK, CallsAgree, CallsWatched, Watched,
         NEW t \in Threads, Unpublish(t),
         NEW S \in {ToDeleteSTS, ToDeleteSVC}, \E p \in Pods : Owes(p, S),
         \/ call'[t].pc \in S /\ call'[t].pod = call[t].pod /\ kub' = kub
         \/ kub'[call[t].pod] = "uncertain"
         \/ call[t].pc \notin S
  PROVE  \E p \in Pods : Owes(p, S)'
<1>1. PICK p \in Pods : Owes(p, S)
  OBVIOUS
<1>2. CASE p # call[t].pod
  BY <1>1, <1>2, OthersOwe
<1>3. CASE p = call[t].pod
  <2>1. call[t].pc \in UnpublishSteps /\ UNCHANGED appPod
    BY UnpublishShape DEF StepOf
  <2>2. call[t].pc \in S
    BY <1>1, <1>3, <2>1, OnlyDebtor
  <2>3. appPod'[p] # "unborn" /\ kub[p] # "done"
    BY <1>1, <2>1 DEF Owes
  <2>4. CASE call'[t].pc \in S /\ call'[t].pod = call[t].pod /\ kub' = kub
    BY <1>3, <2>3, <2>4 DEF Owes
  <2>5. CASE kub'[call[t].pod] = "uncertain"
    BY <1>3, <2>3, <2>5 DEF Owes
  <2> QED BY <2>2, <2>4, <2>5
<1> QED BY <1>2, <1>3

\* An unpublish call leaves nothing of the server that no pod will be asked
\* for: it deletes, it leaves the deletion to a running pod, or it is noted.
LEMMA UnpublishDebt ==
  ASSUME CleanupInv, UnmountedLeave', NEW t \in Threads, Unpublish(t), (pv /\ Watched)'
  PROVE  OwedSTS' /\ OwedSVC'
<1> DEFINE q == call[t].pod
<1>0. /\ TypeOK /\ CallsAgree /\ CallsWatched
      /\ ToDeleteSTS \in {ToDeleteSTS, ToDeleteSVC} /\ ToDeleteSVC \in {ToDeleteSTS, ToDeleteSVC}
  BY DEF CleanupInv, MountInv, RemoteInv
<1>1. pv /\ Watched /\ UNCHANGED appPod
  <2>1. UNCHANGED <<pv, appPod, orphaned>>
    BY DEF Unpublish, CleanupMountPoint, GetPV, ListPods, DeleteSTS, DeleteSVC, WaitGone, kubeVars
  <2>2. Skip \/ UNCHANGED skipped
    BY DEF Unpublish, CleanupMountPoint, GetPV, ListPods, DeleteSTS, DeleteSVC, WaitGone
  <2>3. ~ skipped' /\ orphaned' = {} /\ pv'
    BY DEF Watched
  <2>4. ~ skipped
    BY <2>2, <2>3 DEF Skip
  <2> QED BY <2>1, <2>3, <2>4 DEF Watched
<1>2. OwedSTS /\ OwedSVC
  BY <1>1 DEF CleanupInv
<1>3. /\ call[t].pc \in UnpublishSteps /\ call[t].live /\ q \in Pods
      /\ kub \in [Pods -> Views] /\ kub[q] = "unmounting"
  <2>1. call[t].pc \in UnpublishSteps
    BY <1>0, UnpublishShape DEF StepOf
  <2> QED BY <1>0, <1>1, <2>1, StepsDisjoint
          DEF CallsWatched, Watched, CallsAgree, TypeOK, CallsOK
<1>4. ASSUME NEW pc, Goto(t, pc)
      PROVE  call'[t].pc = pc /\ call'[t].pod = q /\ kub' = kub
  <2>1. call[t] \in Calls /\ call'[t] = [call[t] EXCEPT !.pc = pc] /\ kub' = kub
    BY <1>0, <1>4, GotoPc DEF TypeOK, CallsOK, Goto, Continue
  <2> QED BY <2>1 DEF Calls
<1>5. ASSUME Skip PROVE OwedSTS' /\ OwedSVC'
  <2>1. PICK p \in Pods : appPod[p] = "active"
    BY <1>5 DEF Skip, Watched
  <2> QED BY <1>1, <2>1, ActiveOwes DEF OwedSTS, OwedSVC
<1>6. CASE CleanupMountPoint(t)
  <2>1. \/ call'[t].pc = "getPV" /\ call'[t].pod = q /\ kub' = kub
        \/ kub'[q] = "uncertain"
    <3>1. CASE Goto(t, "getPV")
      BY <1>4, <3>1
    <3>2. CASE CleanupFailed(t)
      BY <1>3, <3>2 DEF CleanupFailed, UnpublishAnswer, Answer
    <3> QED BY <1>6, <3>1, <3>2 DEF CleanupMountPoint
  <2>2. UNCHANGED <<sts, svc>>
    BY <1>6 DEF CleanupMountPoint, kubeVars
  <2> QED BY <1>0, <1>1, <1>2, <2>1, <2>2, DebtStays, DebtSteps DEF OwedSTS, OwedSVC
<1>7. CASE GetPV(t)
  <2>1. UNCHANGED <<sts, svc>>
    BY <1>7 DEF GetPV, kubeVars
  <2>2. CASE Goto(t, "listPods")
    <3>1. call'[t].pc = "listPods" /\ call'[t].pod = q /\ kub' = kub
      BY <1>4, <2>2
    <3> QED BY <1>0, <1>1, <1>2, <2>1, <3>1, DebtStays, DebtSteps DEF OwedSTS, OwedSVC
  <2> QED BY <1>1, <1>5, <1>7, <2>2 DEF GetPV
<1>8. CASE ListPods(t)
  <2>1. UNCHANGED <<sts, svc>>
    BY <1>8 DEF ListPods, kubeVars
  <2>2. CASE Goto(t, "deleteSTS")
    <3>1. call'[t].pc = "deleteSTS" /\ call'[t].pod = q /\ kub' = kub
      BY <1>4, <2>2
    <3> QED BY <1>0, <1>1, <1>2, <2>1, <3>1, DebtStays, DebtSteps DEF OwedSTS, OwedSVC
  <2> QED BY <1>5, <1>8, <2>2 DEF ListPods, ClaimInUse
<1>9. CASE DeleteSTS(t)
  <2>1. call'[t].pc = "deleteSVC" /\ call'[t].pod = q /\ kub' = kub
    BY <1>4, <1>9 DEF DeleteSTS
  <2>2. CASE ~ sts'
    <3>1. svc' = svc
      BY <1>9 DEF DeleteSTS
    <3> QED BY <1>0, <1>1, <1>2, <2>1, <2>2, <3>1, DebtStays DEF OwedSTS, OwedSVC, ToDeleteSVC
  <2> QED BY <1>5, <1>9, <2>2 DEF DeleteSTS
<1>10. CASE DeleteSVC(t)
  <2>1. call[t].pc \notin ToDeleteSTS /\ sts' = sts
    BY <1>10 DEF DeleteSVC, ToDeleteSTS
  <2>2. CASE svc' = None
    BY <1>0, <1>1, <1>2, <2>1, <2>2, DebtStays DEF OwedSTS, OwedSVC
  <2> QED BY <1>5, <1>10, <2>2 DEF DeleteSVC
<1>11. CASE WaitGone(t)
  <2>1. call[t].pc \notin ToDeleteSVC /\ UNCHANGED <<sts, svc>>
    BY <1>11 DEF WaitGone, ToDeleteSVC, ToDeleteSTS, kubeVars
  <2> QED BY <1>0, <1>1, <1>2, <2>1, DebtStays DEF OwedSTS, OwedSVC, ToDeleteSVC
<1> QED BY <1>6, <1>7, <1>8, <1>9, <1>10, <1>11 DEF Unpublish

\* A publish call keeps all debts, and stands for what it creates.
LEMMA PublishDebt ==
  ASSUME CleanupInv, NEW t \in Threads, Publish(t), (pv /\ Watched)'
  PROVE  OwedSTS' /\ OwedSVC'
<1>0. /\ TypeOK /\ CallsAgree /\ CallsWatched /\ UnbornIdle
      /\ ToDeleteSTS \in {ToDeleteSTS, ToDeleteSVC} /\ ToDeleteSVC \in {ToDeleteSTS, ToDeleteSVC}
  BY DEF CleanupInv, MountInv, RemoteInv
<1>1. pv /\ Watched
  <2>1. UNCHANGED <<pv, skipped, orphaned>>
    BY DEF Publish, GetPVC, GetSTS, CreateSTS, GetPod, WaitPod, CheckTarget, FindSource,
       BindLocal, GetAppPod, Annotate, GetSVC, CreateSVC, WaitTcp, MountNFS, Chmod, kubeVars
  <2> QED BY <2>1 DEF Watched
<1>2. OwedSTS /\ OwedSVC
  BY <1>1 DEF CleanupInv
<1>3. call[t].pod \in Pods
  BY <1>0, HandlerViews
<1>4. sts' => sts \/ (CreateSTS(t) /\ kub' = kub)
  BY DEF Publish, GetPVC, GetSTS, CreateSTS, GetPod, WaitPod, CheckTarget, FindSource,
     BindLocal, GetAppPod, Annotate, GetSVC, CreateSVC, WaitTcp, MountNFS, Chmod, kubeVars, Goto, Continue
<1>5. svc' # None => svc # None \/ (CreateSVC(t) /\ kub' = kub)
  BY DEF Publish, GetPVC, GetSTS, CreateSTS, GetPod, WaitPod, CheckTarget, FindSource,
     BindLocal, GetAppPod, Annotate, GetSVC, CreateSVC, WaitTcp, MountNFS, Chmod, kubeVars, Continue
<1>6. OwedSTS'
  <2>1. CASE sts
    <3>1. PICK p \in Pods : Owes(p, ToDeleteSTS)
      BY <1>2, <2>1 DEF OwedSTS
    <3> QED BY <1>0, <3>1, PublishOwes DEF OwedSTS
  <2>2. CASE CreateSTS(t) /\ kub' = kub
    BY <1>0, <1>1, <1>3, <2>2, PublisherOwes DEF OwedSTS
  <2> QED BY <1>4, <2>1, <2>2 DEF OwedSTS
<1>7. OwedSVC'
  <2>1. CASE svc # None
    <3>1. PICK p \in Pods : Owes(p, ToDeleteSVC)
      BY <1>2, <2>1 DEF OwedSVC
    <3> QED BY <1>0, <3>1, PublishOwes DEF OwedSVC
  <2>2. CASE CreateSVC(t) /\ kub' = kub
    BY <1>0, <1>1, <1>3, <2>2, PublisherOwes DEF OwedSVC
  <2> QED BY <1>5, <2>1, <2>2 DEF OwedSVC
<1> QED BY <1>6, <1>7

\* Whatever kubelets, restarts and the cluster do, a pod that owes goes on
\* owing: an unmounting that a restart cuts short is tried again.
LEMMA EnvironmentOwes ==
  ASSUME TypeOK, CallsAgree, CallsWatched, Watched, Watched', [Next]_vars,
         \/ \E t \in Threads : KubeletTimeout(t)
         \/ \E p \in Pods : Kubelet(p) \/ PodCreated(p)
         \/ \E n \in Nodes : PluginRestart(n) \/ KubeletRestart(n)
         \/ Cluster \/ PodLost \/ UNCHANGED vars,
         NEW p \in Pods, NEW S \in {ToDeleteSTS, ToDeleteSVC}, Owes(p, S)
  PROVE  Owes(p, S)'
<1>0. /\ kub \in [Pods -> Views] /\ call \in [Threads -> Calls]
      /\ appPod \in [Pods -> {"unborn", "active", "terminating", "gone"}]
      /\ \A u \in Threads : call[u].pc # "Idle" => call[u].pod \in Pods /\ call[u].live
      /\ "Idle" \notin S
  BY DebtSteps, StepsDisjoint DEF TypeOK, CallsOK, KubeTypeOK, CallsWatched, Watched
<1>1. appPod'[p] # "unborn"
  <2>1. appPod[p] # "unborn"
    BY DEF Owes
  <2>2. PodCreated(p) => appPod[p] = "unborn"
    BY DEF PodCreated, StartPod
  <2> QED BY <2>1, <2>2, PodLife
<1>2. ASSUME NEW t \in Threads, KubeletTimeout(t) PROVE FALSE
  BY <1>2 DEF KubeletTimeout, Watched
<1>3. ASSUME NEW q \in Pods, NEW t \in Threads, StartPublish(q, t) \/ StartUnpublish(q, t)
      PROVE  Owes(p, S)'
  <2>1. PICK pc, view :
          /\ Begin(q, t, pc, view)
          /\ \/ pc = "getPVC" /\ view = "publishing"
             \/ pc = "cleanup" /\ view = "unmounting"
    BY <1>3 DEF StartPublish, StartUnpublish
  <2>2. /\ call'[t].pc = pc /\ call'[t].pod = q /\ OthersStay(t) /\ call[t].pc = "Idle"
    BY <1>0, <2>1 DEF Begin, Idle, OthersStay
  <2>3. kub'[q] = view /\ \A x \in Pods : x # q => kub'[x] = kub[x]
    BY <1>0, <2>1 DEF Begin
  <2>4. CASE q = p
    BY <1>1, <2>1, <2>2, <2>3, <2>4, DebtSteps DEF Owes
  <2>5. CASE q # p /\ kub[p] # "unmounting"
    BY <1>1, <2>3, <2>5 DEF Owes
  <2>6. CASE q # p /\ kub[p] = "unmounting"
    <3>1. PICK u \in Threads : call[u].pod = p /\ call[u].pc \in S
      BY <2>6 DEF Owes
    <3>2. call'[u] = call[u]
      BY <1>0, <2>2, <3>1 DEF OthersStay
    <3> QED BY <1>1, <2>3, <2>6, <3>1, <3>2 DEF Owes
  <2> QED BY <2>4, <2>5, <2>6
<1>4. ASSUME NEW n \in Nodes, PluginRestart(n) PROVE Owes(p, S)'
  <2>1. kub'[p] = "uncertain" \/ kub'[p] = kub[p]
    BY <1>4 DEF PluginRestart
  <2>2. CASE kub'[p] # "unmounting"
    BY <1>1, <2>1, <2>2 DEF Owes
  <2>3. CASE kub'[p] = "unmounting"
    <3>1. PICK u \in Threads : call[u].pod = p /\ call[u].pc \in S
      BY <2>1, <2>3 DEF Owes
    <3>2. call[u].live
      BY <1>0, <3>1
    <3>3. u \notin CallsOn(n)
      BY <1>4, <2>3, <3>1, <3>2 DEF PluginRestart
    <3>4. call'[u] = call[u]
      BY <1>4, <3>3 DEF PluginRestart
    <3> QED BY <1>1, <2>3, <3>1, <3>4 DEF Owes
  <2> QED BY <2>2, <2>3
<1>5. ASSUME NEW n \in Nodes, KubeletRestart(n) PROVE Owes(p, S)'
  <2>1. CallsOn(n) = {}
    BY <1>5 DEF KubeletRestart, Watched
  <2>2. \A u \in Threads : call'[u] = call[u]
    BY <1>5, <2>1 DEF KubeletRestart
  <2>3. kub'[p] = "uncertain" \/ kub'[p] = kub[p]
    BY <1>5 DEF KubeletRestart
  <2> QED BY <1>1, <2>2, <2>3 DEF Owes
<1>6. CASE \/ \E q \in Pods : Forget(q) \/ FinalizePod(q) \/ PodCreated(q)
           \/ Cluster \/ PodLost \/ UNCHANGED vars
  <2>1. call' = call /\ (kub'[p] = kub[p] \/ kub'[p] = "forgotten")
    BY <1>0, <1>6 DEF Forget, FinalizePod, PodCreated, Cluster, PodLost, vars, driverVars
  <2> QED BY <1>1, <2>1 DEF Owes
<1> QED BY <1>2, <1>3, <1>4, <1>5, <1>6 DEF Kubelet

\* They do not bring back what has been deleted either.
LEMMA EnvironmentDebt ==
  ASSUME CleanupInv, [Next]_vars, (pv /\ Watched)',
         \/ \E t \in Threads : KubeletTimeout(t)
         \/ \E p \in Pods : Kubelet(p) \/ PodCreated(p)
         \/ \E n \in Nodes : PluginRestart(n) \/ KubeletRestart(n)
         \/ Cluster \/ PodLost \/ UNCHANGED vars
  PROVE  OwedSTS' /\ OwedSVC'
<1>0. /\ TypeOK /\ CallsAgree /\ CallsWatched
      /\ ToDeleteSTS \in {ToDeleteSTS, ToDeleteSVC} /\ ToDeleteSVC \in {ToDeleteSTS, ToDeleteSVC}
  BY DEF CleanupInv, MountInv, RemoteInv
<1>1. /\ UNCHANGED skipped
      /\ pv' = pv \/ pv' = FALSE
      /\ sts' = sts \/ sts' = FALSE
      /\ svc' = svc \/ svc' = None
  <2>1. CASE \/ \E t \in Threads : KubeletTimeout(t)
             \/ \E p \in Pods : Kubelet(p) \/ PodCreated(p)
             \/ \E n \in Nodes : PluginRestart(n) \/ KubeletRestart(n)
             \/ PodLost \/ UNCHANGED vars
    BY <2>1 DEF KubeletTimeout, Kubelet, StartPublish, StartUnpublish, Begin, Forget, FinalizePod,
       PodCreated, StartPod, PluginRestart, KubeletRestart, PodLost, PodFails, vars, kubeVars,
       driverVars
  <2>2. CASE Cluster
    BY <2>2 DEF Cluster, StsCreatesPod, PodRuns, PodRemoved, CollectGarbage, DeletePV,
       DeleteDataPVC, DeletePod, ForceDeletePod, driverVars
  <2> QED BY <2>1, <2>2
<1>2. Watched'
  OBVIOUS
<1>3. pv /\ Watched
  BY <1>0, <1>1, <1>2, WatchedCalls DEF Watched
<1>4. OwedSTS /\ OwedSVC
  BY <1>3 DEF CleanupInv
<1>5. OwedSTS'
  BY <1>0, <1>1, <1>2, <1>3, <1>4, EnvironmentOwes DEF OwedSTS
<1>6. OwedSVC'
  BY <1>0, <1>1, <1>2, <1>3, <1>4, EnvironmentOwes DEF OwedSVC
<1> QED BY <1>5, <1>6

\* Only the volume of a pod that has left is unmounted or forgotten.
LEMMA LeaveNext == TypeOK /\ CallsAgree /\ UnmountedLeave /\ [Next]_vars => UnmountedLeave'
<1> SUFFICES ASSUME TypeOK, CallsAgree, UnmountedLeave, [Next]_vars, NEW p \in Pods,
                    kub'[p] \in {"unmounting", "done", "forgotten"}
             PROVE  Leaving(p)'
  BY DEF UnmountedLeave
<1>0. /\ kub \in [Pods -> Views]
      /\ appPod \in [Pods -> {"unborn", "active", "terminating", "gone"}]
  BY DEF TypeOK, KubeTypeOK
<1>1. kub'[p] = kub[p] => Leaving(p)
  BY DEF UnmountedLeave
<1>2. ASSUME NEW t \in Threads, Publish(t) PROVE Leaving(p)'
  <2>1. appPod' = appPod /\ (kub'[p] = kub[p] \/ kub'[p] \in PublishViews)
    BY <1>2, HandlerViews
  <2> QED BY <1>1, <2>1 DEF PublishViews, Leaving
<1>3. ASSUME NEW t \in Threads, Unpublish(t) PROVE Leaving(p)'
  <2>1. appPod' = appPod /\ (p # call[t].pod => kub'[p] = kub[p])
    BY <1>3, HandlerViews
  <2>2. Leaving(call[t].pod)
    BY <1>3, UnpublishShape DEF StepOf, CallsAgree
  <2> QED BY <1>1, <2>1, <2>2 DEF Leaving
<1>4. ASSUME NEW q \in Pods, NEW t \in Threads, StartPublish(q, t) \/ StartUnpublish(q, t)
      PROVE  Leaving(p)'
  BY <1>0, <1>1, <1>4 DEF StartPublish, StartUnpublish, Begin, Leaving, kubeVars
<1>5. ASSUME \/ \E t \in Threads : KubeletTimeout(t)
             \/ \E n \in Nodes : PluginRestart(n) \/ KubeletRestart(n)
      PROVE  Leaving(p)'
  BY <1>0, <1>1, <1>5 DEF KubeletTimeout, PluginRestart, KubeletRestart, Leaving, kubeVars
<1>6. CASE \/ \E q \in Pods : Forget(q) \/ FinalizePod(q) \/ PodCreated(q)
           \/ Cluster \/ PodLost \/ UNCHANGED vars
  <2>1. Leaving(p)
    BY <1>0, <1>1, <1>6 DEF Forget, FinalizePod, PodCreated, Cluster, PodLost, vars, driverVars
  <2> QED BY <1>0, <1>6, <2>1
          DEF Forget, FinalizePod, PodCreated, StartPod, Cluster, StsCreatesPod, PodRuns,
          PodRemoved, CollectGarbage, DeletePV, DeleteDataPVC, DeletePod, ForceDeletePod,
          PodLost, PodFails, vars, kubeVars, Leaving
<1> QED BY <1>2, <1>3, <1>4, <1>5, <1>6 DEF Next, Kubelet, Settled

\* The initial states have the invariant.
LEMMA CleanupInit == Init => CleanupInv
<1> SUFFICES ASSUME Init PROVE CleanupInv
  OBVIOUS
<1>1. UnbornIdle /\ UnmountedLeave
  BY DEF Init, KubeInit, Idle, UnbornIdle, UnmountedLeave
<1>2. OwedSTS /\ OwedSVC
  BY DEF Init, KubeInit, OwedSTS, OwedSVC
<1> QED BY <1>1, <1>2, MountInit DEF CleanupInv

\* Every step keeps it.
LEMMA CleanupNext == CleanupInv /\ [Next]_vars => CleanupInv'
<1> SUFFICES ASSUME CleanupInv, [Next]_vars PROVE CleanupInv'
  OBVIOUS
<1>1. MountInv' /\ UnbornIdle' /\ UnmountedLeave'
  BY MountNext, UnbornNext, LeaveNext DEF CleanupInv, MountInv, RemoteInv
<1>2. ASSUME (pv /\ Watched)' PROVE OwedSTS' /\ OwedSVC'
  <2>1. ASSUME NEW t \in Threads, Publish(t) PROVE OwedSTS' /\ OwedSVC'
    BY <1>2, <2>1, PublishDebt
  <2>2. ASSUME NEW t \in Threads, Unpublish(t) PROVE OwedSTS' /\ OwedSVC'
    BY <1>1, <1>2, <2>2, UnpublishDebt
  <2> QED BY <1>2, <2>1, <2>2, EnvironmentDebt DEF Next, Settled
<1> QED BY <1>1, <1>2 DEF CleanupInv

\* Once every pod that was created is gone and its kubelet has been told so,
\* nothing is left of the server unless an unpublish call skipped a deletion,
\* or a kubelet gave up on a call: whatever the order of publish and unpublish
\* calls on all nodes, crashes of the plugin, failing mounts and lost servers.
THEOREM LastUnmount == Spec => []LastUnmountDeletes
<1>1. CleanupInv => LastUnmountDeletes
  BY DEF CleanupInv, LastUnmountDeletes, Watched, OwedSTS, OwedSVC, Owes
<1> QED BY <1>1, CleanupInit, CleanupNext, PTL DEF Spec
====
