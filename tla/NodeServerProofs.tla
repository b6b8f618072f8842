-------------------------- MODULE NodeServerProofs --------------------------
(***************************************************************************)
(* Proofs about module NodeServer, for every value of its constants: any   *)
(* number of pods, nodes, goroutines and faults.                           *)
(***************************************************************************)
EXTENDS NodeServer, SequenceTheorems, TLAPS

-----------------------------------------------------------------------------
(* Types: what the helpers do to the goroutines and to the kubelets' view. *)

\* A goroutine that goes on with local variables of the right types keeps them.
LEMMA ContinueType ==
  ASSUME TypeOK, NEW t \in Threads, call[t].pc # "Idle",
         NEW c \in Calls, c.pod = call[t].pod, Continue(t, c)
  PROVE  CallsOK' /\ kub' \in [Pods -> Views]
BY DEF TypeOK, CallsOK, Continue

\* A goroutine that goes on with another step keeps the types.
LEMMA GotoType ==
  ASSUME TypeOK, NEW t \in Threads, call[t].pc # "Idle",
         NEW pc \in PublishSteps \cup UnpublishSteps, Goto(t, pc)
  PROVE  CallsOK' /\ kub' \in [Pods -> Views]
<1>1. [call[t] EXCEPT !.pc = pc] \in Calls
  BY DEF TypeOK, CallsOK, Calls
<1>2. [call[t] EXCEPT !.pc = pc].pod = call[t].pod
  BY DEF TypeOK, CallsOK, Calls
<1> QED BY <1>1, <1>2, ContinueType DEF Goto

\* An answer frees the goroutine and may change the view of one volume.
LEMMA AnswerType ==
  ASSUME TypeOK, NEW t \in Threads, call[t].pc # "Idle",
         NEW view \in Views, Answer(t, view)
  PROVE  CallsOK' /\ kub' \in [Pods -> Views]
BY DEF TypeOK, CallsOK, Calls, Answer, Idle

\* Whatever code a publish call answers, the kubelet draws a known conclusion.
LEMMA PublishAnswerType ==
  ASSUME TypeOK, NEW t \in Threads, call[t].pc # "Idle",
         NEW code, PublishAnswer(t, code)
  PROVE  CallsOK' /\ kub' \in [Pods -> Views]
<1>1. PublishView(code) \in Views
  BY DEF PublishView, Views
<1> QED BY <1>1, AnswerType DEF PublishAnswer

\* So it does for an unpublish call.
LEMMA UnpublishAnswerType ==
  ASSUME TypeOK, NEW t \in Threads, call[t].pc # "Idle",
         NEW code, UnpublishAnswer(t, code)
  PROVE  CallsOK' /\ kub' \in [Pods -> Views]
<1>1. (IF code = "OK" THEN "done" ELSE "uncertain") \in Views
  BY DEF Views
<1> QED BY <1>1, AnswerType DEF UnpublishAnswer

\* What leaves the cluster alone leaves its objects their types.
LEMMA SameKubeType == KubeTypeOK /\ UNCHANGED kubeVars => KubeTypeOK'
BY DEF KubeTypeOK, kubeVars

\* Faults are counted, and stay below their bound.
LEMMA FaultType ==
  ASSUME TypeOK, NEW kind, Fault(kind) \/ NoFault
  PROVE  faults' \in 0..MaxFaults
BY FaultsAssumption DEF TypeOK, Fault, NoFault

\* Whether a skipped deletion is noted or not, the history is a truth value.
LEMMA SkipType ==
  ASSUME TypeOK, Skip \/ UNCHANGED skipped
  PROVE  skipped' \in BOOLEAN
BY DEF TypeOK, Skip

\* One more mount on a target path leaves a stack of mounts.
LEMMA PushType ==
  ASSUME TypeOK, NEW p \in Pods, NEW m \in Mounts, Push(p, m)
  PROVE  mnt' \in [Pods -> Seq(Mounts)]
BY DEF TypeOK, Push

\* The lookup of the source leads to the bind mount only when it has found the
\* data volume, and it remembers a listing only of a directory that exists.
LEMMA SourceFound ==
  ASSUME TypeOK, NEW t \in Threads, FindSource(t)
  PROVE  \E ok \in BOOLEAN, pc \in {"bind", "getSVC"} :
           /\ Continue(t, [call[t] EXCEPT !.dirOk = ok, !.pc = pc])
           /\ ok => PodDirExists(NodeOfCall(t), call[t].uid)
           /\ pc = "bind" => LocalSource(t)
           /\ NoFault => pc = IF LocalSource(t) THEN "bind" ELSE "getSVC"
<1> DEFINE dirRead == PodDirExists(NodeOfCall(t), call[t].uid)
           next == IF LocalSource(t) THEN "bind" ELSE "getSVC"
<1>1. dirRead \in BOOLEAN
  BY DEF PodDirExists
<1>2. next \in {"bind", "getSVC"} /\ (next = "bind" => LocalSource(t))
  OBVIOUS
<1>3. \A kind : Fault(kind) => ~ NoFault
  BY DEF Fault, NoFault, TypeOK
<1>4. CASE Continue(t, [call[t] EXCEPT !.dirOk = dirRead, !.pc = next])
  <2> HIDE DEF dirRead, next
  <2>1. (dirRead => dirRead) /\ (NoFault => next = next)
    OBVIOUS
  <2>2. \E ok \in BOOLEAN, pc \in {"bind", "getSVC"} :
           /\ Continue(t, [call[t] EXCEPT !.dirOk = ok, !.pc = pc])
           /\ ok => dirRead
           /\ pc = "bind" => LocalSource(t)
           /\ NoFault => pc = next
    BY <1>1, <1>2, <1>4, <2>1
  <2> QED BY <2>2 DEF dirRead, next
<1>5. CASE \E ok \in {FALSE, dirRead} :
             Continue(t, [call[t] EXCEPT !.dirOk = ok, !.pc = "getSVC"]) /\ Fault("fs")
  <2>1. PICK ok \in {FALSE, dirRead} :
          Continue(t, [call[t] EXCEPT !.dirOk = ok, !.pc = "getSVC"]) /\ Fault("fs")
    BY <1>5
  <2>2. ok \in BOOLEAN /\ (ok => dirRead) /\ ~ NoFault
    BY <1>1, <1>3, <2>1
  <2> QED BY <2>1, <2>2
<1> QED BY <1>4, <1>5 DEF FindSource

-----------------------------------------------------------------------------
(* Types: the steps of NodePublishVolume. *)

\* Every step of a publish call keeps the types.
LEMMA PublishStepType ==
  ASSUME TypeOK, NEW t \in Threads, Publish(t)
  PROVE  TypeOK'
<1> USE DEF PublishSteps, UnpublishSteps
<1>1. CASE GetPVC(t)
  <2>1. CallsOK' /\ kub' \in [Pods -> Views]
    BY <1>1, GotoType, PublishAnswerType DEF GetPVC
  <2> QED BY <1>1, <2>1, FaultType, SameKubeType DEF GetPVC, TypeOK
<1>2. CASE GetSTS(t)
  <2>1. CallsOK' /\ kub' \in [Pods -> Views]
    BY <1>2, GotoType DEF GetSTS
  <2> QED BY <1>2, <2>1, FaultType, SameKubeType DEF GetSTS, TypeOK
<1>3. CASE CreateSTS(t)
  <2>1. CallsOK' /\ kub' \in [Pods -> Views]
    BY <1>3, GotoType, PublishAnswerType DEF CreateSTS
  <2>2. faults' \in 0..MaxFaults
    BY <1>3, FaultType DEF CreateSTS
  <2>3. KubeTypeOK'
    BY <1>3 DEF CreateSTS, TypeOK, KubeTypeOK
  <2> QED BY <1>3, <2>1, <2>2, <2>3 DEF CreateSTS, TypeOK
<1>4. CASE GetPod(t)
  <2>1. CallsOK' /\ kub' \in [Pods -> Views]
    <3> DEFINE c == [call[t] EXCEPT !.pc = "waitPod", !.uid = nfsPod.uid]
    <3>1. c \in Calls /\ c.pod = call[t].pod
      <4>1. call[t] \in Calls /\ nfsPod.uid \in Uids \cup {None}
        BY DEF TypeOK, CallsOK, KubeTypeOK
      <4> QED BY <4>1 DEF Calls
    <3> QED BY <1>4, <3>1, ContinueType, GotoType DEF GetPod
  <2> QED BY <1>4, <2>1, FaultType, SameKubeType DEF GetPod, TypeOK
<1>5. CASE WaitPod(t)
  <2>1. CallsOK' /\ kub' \in [Pods -> Views]
    BY <1>5, GotoType, PublishAnswerType DEF WaitPod
  <2> QED BY <1>5, <2>1, FaultType, SameKubeType DEF WaitPod, TypeOK
<1>6. CASE CheckTarget(t)
  <2>1. CallsOK' /\ kub' \in [Pods -> Views]
    BY <1>6, GotoType, PublishAnswerType DEF CheckTarget
  <2> QED BY <1>6, <2>1, FaultType, SameKubeType DEF CheckTarget, TypeOK
<1>7. CASE FindSource(t)
  <2>1. CallsOK' /\ kub' \in [Pods -> Views]
    <3>1. PICK ok \in BOOLEAN, pc \in {"bind", "getSVC"} :
            Continue(t, [call[t] EXCEPT !.dirOk = ok, !.pc = pc])
      BY <1>7, SourceFound
    <3> DEFINE c == [call[t] EXCEPT !.dirOk = ok, !.pc = pc]
    <3>2. c \in Calls /\ c.pod = call[t].pod
      <4>1. call[t] \in Calls
        BY DEF TypeOK, CallsOK
      <4> QED BY <4>1 DEF Calls
    <3>3. Continue(t, c) /\ call[t].pc # "Idle"
      BY <1>7, <3>1 DEF FindSource
    <3> HIDE DEF c
    <3> QED BY <3>2, <3>3, ContinueType
  <2> QED BY <1>7, <2>1, FaultType, SameKubeType DEF FindSource, TypeOK
<1>8. CASE BindLocal(t)
  <2>1. CallsOK' /\ kub' \in [Pods -> Views]
    BY <1>8, GotoType, PublishAnswerType DEF BindLocal
  <2>2. BindMount \in Mounts
    BY DEF BindMount, Mounts
  <2>3. mnt' \in [Pods -> Seq(Mounts)]
    BY <1>8, <2>2, PushType DEF BindLocal, TypeOK, CallsOK
  <2> QED BY <1>8, <2>1, <2>3, FaultType, SameKubeType DEF BindLocal, TypeOK
<1>9. CASE GetAppPod(t) \/ Annotate(t)
  <2>1. CallsOK' /\ kub' \in [Pods -> Views]
    BY <1>9, GotoType DEF GetAppPod, Annotate
  <2> QED BY <1>9, <2>1, FaultType, SameKubeType DEF GetAppPod, Annotate, TypeOK, Listed
<1>10. CASE GetSVC(t)
  <2>1. CallsOK' /\ kub' \in [Pods -> Views]
    <3> DEFINE c == [call[t] EXCEPT !.pc = "waitTcp", !.ip = svc]
    <3>1. c \in Calls /\ c.pod = call[t].pod
      <4>1. call[t] \in Calls /\ svc \in IPs \cup {None}
        BY DEF TypeOK, CallsOK, KubeTypeOK
      <4> QED BY <4>1 DEF Calls
    <3> QED BY <1>10, <3>1, ContinueType, GotoType DEF GetSVC
  <2> QED BY <1>10, <2>1, FaultType, SameKubeType DEF GetSVC, TypeOK
<1>11. CASE CreateSVC(t)
  <2>1. CallsOK' /\ kub' \in [Pods -> Views]
    <3>1. ASSUME NEW ip \in IPs,
                 Continue(t, [call[t] EXCEPT !.pc = "waitTcp", !.ip = ip])
          PROVE  CallsOK' /\ kub' \in [Pods -> Views]
      <4> DEFINE c == [call[t] EXCEPT !.pc = "waitTcp", !.ip = ip]
      <4>1. c \in Calls /\ c.pod = call[t].pod
        <5>1. call[t] \in Calls
          BY DEF TypeOK, CallsOK
        <5> QED BY <5>1 DEF Calls
      <4> QED BY <1>11, <3>1, <4>1, ContinueType DEF CreateSVC
    <3>2. CASE PublishAnswer(t, "Canceled")
      BY <1>11, <3>2, PublishAnswerType DEF CreateSVC
    <3> QED BY <1>11, <3>1, <3>2 DEF CreateSVC
  <2>2. faults' \in 0..MaxFaults
    BY <1>11, FaultType DEF CreateSVC
  <2>3. KubeTypeOK'
    BY <1>11 DEF CreateSVC, TypeOK, KubeTypeOK
  <2> QED BY <1>11, <2>1, <2>2, <2>3 DEF CreateSVC, TypeOK
<1>12. CASE WaitTcp(t)
  <2>1. CallsOK' /\ kub' \in [Pods -> Views]
    BY <1>12, GotoType, PublishAnswerType DEF WaitTcp
  <2> QED BY <1>12, <2>1, FaultType, SameKubeType DEF WaitTcp, TypeOK
<1>13. CASE MountNFS(t)
  <2>1. CallsOK' /\ kub' \in [Pods -> Views]
    BY <1>13, GotoType, PublishAnswerType DEF MountNFS, AfterMountNFS
  <2>2. NfsMount(call[t].ip) \in Mounts
    BY DEF NfsMount, Mounts, TypeOK, CallsOK, Calls
  <2>3. mnt' \in [Pods -> Seq(Mounts)]
    BY <1>13, <2>2, PushType DEF MountNFS, TypeOK, CallsOK
  <2> QED BY <1>13, <2>1, <2>3, FaultType, SameKubeType DEF MountNFS, TypeOK
<1>14. CASE Chmod(t)
  <2>1. CallsOK' /\ kub' \in [Pods -> Views]
    BY <1>14, PublishAnswerType DEF Chmod
  <2>2. mnt' \in [Pods -> Seq(Mounts)]
    <3> DEFINE p == call[t].pod
    <3>1. ASSUME mnt[p] # <<>>
          PROVE  ModeSet(mnt[p]) \in Seq(Mounts)
      <4>1. p \in Pods /\ mnt[p] \in Seq(Mounts)
        BY <1>14 DEF Chmod, TypeOK, CallsOK
      <4>2. mnt[p][Len(mnt[p])] \in Mounts
        BY <3>1, <4>1
      <4>3. [mnt[p][Len(mnt[p])] EXCEPT !.mode = TRUE] \in Mounts
        BY <4>2 DEF Mounts
      <4>4. Len(mnt[p]) \in 1..Len(mnt[p])
        BY <3>1, <4>1
      <4> QED BY <4>1, <4>3, <4>4, ExceptSeq DEF ModeSet
    <3> QED BY <1>14, <3>1 DEF Chmod, SetTopMode, TypeOK
  <2> QED BY <1>14, <2>1, <2>2, FaultType, SameKubeType DEF Chmod, TypeOK
<1> QED
  BY <1>1, <1>2, <1>3, <1>4, <1>5, <1>6, <1>7, <1>8, <1>9, <1>10, <1>11, <1>12,
     <1>13, <1>14 DEF Publish

-----------------------------------------------------------------------------
(* Types: the steps of NodeUnpublishVolume. *)

\* Every step of an unpublish call keeps the types.
LEMMA UnpublishStepType ==
  ASSUME TypeOK, NEW t \in Threads, Unpublish(t)
  PROVE  TypeOK'
<1> USE DEF PublishSteps, UnpublishSteps
<1>1. CASE CleanupMountPoint(t)
  <2> DEFINE p == call[t].pod
  <2>0. p \in Pods /\ mnt[p] \in Seq(Mounts)
    BY <1>1 DEF CleanupMountPoint, TypeOK, CallsOK
  <2>1. CallsOK' /\ kub' \in [Pods -> Views]
    BY <1>1, GotoType, UnpublishAnswerType DEF CleanupMountPoint, CleanupFailed
  <2>2. ASSUME Len(mnt[p]) > 1
        PROVE  SubSeq(mnt[p], 1, Len(mnt[p]) - 1) \in Seq(Mounts)
    <3>1. Len(mnt[p]) \in Nat
      BY <2>0
    <3>2. \A i \in 1..(Len(mnt[p]) - 1) : mnt[p][i] \in Mounts
      BY <2>0, <3>1, ElementOfSeq
    <3> QED BY <3>1, <3>2, SubSeqProperties
  <2>3. mnt' \in [Pods -> Seq(Mounts)]
    <3>1. mnt \in [Pods -> Seq(Mounts)] /\ <<>> \in Seq(Mounts)
      BY DEF TypeOK
    <3>2. CASE mnt' = [mnt EXCEPT ![p] = <<>>]
      BY <3>1, <3>2
    <3>3. CASE /\ Len(mnt[p]) > 1
               /\ mnt' = [mnt EXCEPT ![p] = SubSeq(@, 1, Len(@) - 1)]
      BY <2>2, <3>1, <3>3
    <3>4. CASE UNCHANGED mnt
      BY <3>1, <3>4
    <3> QED BY <1>1, <3>2, <3>3, <3>4 DEF CleanupMountPoint
  <2> QED BY <1>1, <2>1, <2>3, FaultType, SameKubeType DEF CleanupMountPoint, TypeOK
<1>2. CASE GetPV(t)
  <2>1. CallsOK' /\ kub' \in [Pods -> Views]
    BY <1>2, GotoType, UnpublishAnswerType DEF GetPV
  <2>2. skipped' \in BOOLEAN
    BY <1>2, SkipType DEF GetPV
  <2> QED BY <1>2, <2>1, <2>2, FaultType, SameKubeType DEF GetPV, TypeOK
<1>3. CASE ListPods(t)
  <2>1. CallsOK' /\ kub' \in [Pods -> Views]
    BY <1>3, GotoType, UnpublishAnswerType DEF ListPods
  <2>2. skipped' \in BOOLEAN
    BY <1>3, SkipType DEF ListPods
  <2> QED BY <1>3, <2>1, <2>2, FaultType, SameKubeType DEF ListPods, TypeOK, Listed
<1>4. CASE DeleteSTS(t)
  <2>1. CallsOK' /\ kub' \in [Pods -> Views]
    BY <1>4, GotoType DEF DeleteSTS
  <2>2. skipped' \in BOOLEAN
    BY <1>4, SkipType DEF DeleteSTS
  <2> QED BY <1>4, <2>1, <2>2, FaultType DEF DeleteSTS, TypeOK, KubeTypeOK
<1>5. CASE DeleteSVC(t)
  <2>1. CallsOK' /\ kub' \in [Pods -> Views]
    BY <1>5, GotoType DEF DeleteSVC
  <2>2. skipped' \in BOOLEAN
    BY <1>5, SkipType DEF DeleteSVC
  <2> QED BY <1>5, <2>1, <2>2, FaultType DEF DeleteSVC, TypeOK, KubeTypeOK
<1>6. CASE WaitGone(t)
  <2>1. CallsOK' /\ kub' \in [Pods -> Views]
    BY <1>6, UnpublishAnswerType DEF WaitGone
  <2> QED BY <1>6, <2>1, FaultType, SameKubeType DEF WaitGone, TypeOK
<1> QED BY <1>1, <1>2, <1>3, <1>4, <1>5, <1>6 DEF Unpublish

-----------------------------------------------------------------------------
(* Types: the kubelets, restarts, and the cluster. *)

\* Starting a call keeps the types.
LEMMA BeginType ==
  ASSUME TypeOK, NEW p \in Pods, NEW t \in Threads,
         NEW pc \in PublishSteps \cup UnpublishSteps, NEW view \in Views,
         Begin(p, t, pc, view)
  PROVE  TypeOK'
<1>1. [Idle EXCEPT !.pc = pc, !.pod = p, !.live = TRUE] \in Calls
  BY DEF Idle, Calls
<1>2. [Idle EXCEPT !.pc = pc, !.pod = p, !.live = TRUE].pod = p
  BY DEF Idle
<1> QED BY <1>1, <1>2 DEF Begin, TypeOK, CallsOK, KubeTypeOK, kubeVars

\* What a kubelet does of its own accord keeps the types.
LEMMA KubeletType ==
  ASSUME TypeOK, NEW p \in Pods, Kubelet(p)
  PROVE  TypeOK'
<1>1. ASSUME NEW t \in Threads, StartPublish(p, t)
      PROVE  TypeOK'
  BY <1>1, BeginType DEF StartPublish, PublishSteps, Views
<1>2. ASSUME NEW t \in Threads, StartUnpublish(p, t)
      PROVE  TypeOK'
  BY <1>2, BeginType DEF StartUnpublish, UnpublishSteps, Views
<1>3. CASE Forget(p)
  BY <1>3 DEF Forget, TypeOK, CallsOK, KubeTypeOK, kubeVars, Views
<1>4. CASE FinalizePod(p)
  BY <1>4 DEF FinalizePod, TypeOK, CallsOK, KubeTypeOK, driverVars
<1> QED BY <1>1, <1>2, <1>3, <1>4 DEF Kubelet

\* A kubelet that gives up on a call keeps the types.
LEMMA KubeletTimeoutType ==
  ASSUME TypeOK, NEW t \in Threads, KubeletTimeout(t)
  PROVE  TypeOK'
<1>1. [call[t] EXCEPT !.live = FALSE] \in Calls
  BY DEF TypeOK, CallsOK, Calls
<1>2. /\ [call[t] EXCEPT !.live = FALSE].pc = call[t].pc
      /\ [call[t] EXCEPT !.live = FALSE].pod = call[t].pod
  BY DEF TypeOK, CallsOK, Calls
<1>3. call' = [call EXCEPT ![t] = [call[t] EXCEPT !.live = FALSE]]
  BY DEF KubeletTimeout
<1>4. CallsOK'
  BY <1>1, <1>2, <1>3 DEF TypeOK, CallsOK
<1>5. kub' \in [Pods -> Views]
  BY DEF KubeletTimeout, TypeOK, Views
<1> QED BY <1>4, <1>5, FaultType DEF KubeletTimeout, TypeOK, KubeTypeOK, kubeVars

\* Restarts of the plugin and of a kubelet keep the types.
LEMMA RestartType ==
  ASSUME TypeOK, NEW n \in Nodes, PluginRestart(n) \/ KubeletRestart(n)
  PROVE  TypeOK'
<1>1. Idle \in Calls /\ Idle.pc = "Idle"
  BY DEF Idle, Calls
<1>2. "uncertain" \in Views
  BY DEF Views
<1>3. CASE PluginRestart(n)
  <2>1. CallsOK'
    BY <1>1, <1>3 DEF PluginRestart, TypeOK, CallsOK
  <2>2. kub' \in [Pods -> Views]
    BY <1>2, <1>3 DEF PluginRestart, TypeOK
  <2> QED BY <1>3, <2>1, <2>2, FaultType, SameKubeType DEF PluginRestart, TypeOK
<1>4. CASE KubeletRestart(n)
  <2>1. CallsOK'
    <3>1. ASSUME NEW t \in Threads
          PROVE  LET c == [call[t] EXCEPT !.live = FALSE]
                 IN  c \in Calls /\ c.pc = call[t].pc /\ c.pod = call[t].pod
      BY DEF TypeOK, CallsOK, Calls
    <3> QED BY <1>4, <3>1 DEF KubeletRestart, TypeOK, CallsOK
  <2>2. kub' \in [Pods -> Views]
    BY <1>2, <1>4 DEF KubeletRestart, TypeOK
  <2>3. orphaned' \subseteq Pods
    BY <1>4 DEF KubeletRestart, CallsOn, TypeOK, CallsOK
  <2> QED BY <1>4, <2>1, <2>2, <2>3, FaultType, SameKubeType DEF KubeletRestart, TypeOK
<1> QED BY <1>3, <1>4

\* The cluster's own steps keep the types.
LEMMA ClusterType ==
  ASSUME TypeOK, Cluster \/ PodLost \/ \E p \in Pods : PodCreated(p)
  PROVE  TypeOK'
<1>1. NoPod \in [uid : Uids \cup {None}, node : DataNodes \cup {None},
                 phase : Phases, owned : BOOLEAN,
                 dirs : PodVolumeDirs \cup {{}}]
  BY DEF NoPod, Phases
<1>2. CASE Cluster
  <2>1. UNCHANGED driverVars
    BY <1>2 DEF Cluster
  <2>2. KubeTypeOK'
    <3>1. CASE StsCreatesPod(HeldUids)
      BY <3>1 DEF StsCreatesPod, TypeOK, KubeTypeOK, Phases
    <3>2. CASE PodRuns \/ PodRemoved \/ CollectGarbage
      BY <1>1, <3>2 DEF PodRuns, PodRemoved, CollectGarbage, TypeOK, KubeTypeOK, Phases
    <3>3. CASE DeletePV \/ DeleteDataPVC
      BY <3>3 DEF DeletePV, DeleteDataPVC, TypeOK, KubeTypeOK
    <3>4. CASE \E p \in Pods : DeletePod(p) \/ ForceDeletePod(p)
      BY <3>4 DEF DeletePod, ForceDeletePod, TypeOK, KubeTypeOK
    <3> QED BY <1>2, <3>1, <3>2, <3>3, <3>4 DEF Cluster
  <2> QED BY <2>1, <2>2 DEF TypeOK, CallsOK, driverVars
<1>3. CASE PodLost
  BY <1>3, FaultType DEF PodLost, PodFails, TypeOK, CallsOK, KubeTypeOK, Phases
<1>4. CASE \E p \in Pods : PodCreated(p)
  BY <1>4 DEF PodCreated, StartPod, TypeOK, CallsOK, KubeTypeOK
<1> QED BY <1>2, <1>3, <1>4

-----------------------------------------------------------------------------
(* Type correctness. *)

\* The initial states have the types.
LEMMA InitType == Init => TypeOK
<1> SUFFICES ASSUME Init PROVE TypeOK
  OBVIOUS
<1>1. KubeTypeOK
  BY DEF Init, KubeInit, KubeTypeOK, NoPod, Phases
<1>2. Idle \in Calls /\ Idle.pc = "Idle"
  BY DEF Idle, Calls
<1>3. CallsOK
  BY <1>2 DEF Init, CallsOK
<1>4. mnt \in [Pods -> Seq(Mounts)] /\ kub \in [Pods -> Views]
  BY DEF Init, Views
<1>5. faults \in 0..MaxFaults
  BY FaultsAssumption DEF Init
<1> QED BY <1>1, <1>3, <1>4, <1>5 DEF Init, TypeOK

\* Every step keeps the types.
LEMMA NextType == TypeOK /\ [Next]_vars => TypeOK'
<1> SUFFICES ASSUME TypeOK, [Next]_vars PROVE TypeOK'
  OBVIOUS
<1>1. ASSUME NEW t \in Threads, Publish(t) \/ Unpublish(t) \/ KubeletTimeout(t)
      PROVE  TypeOK'
  BY <1>1, PublishStepType, UnpublishStepType, KubeletTimeoutType
<1>2. ASSUME NEW p \in Pods, Kubelet(p) \/ PodCreated(p)
      PROVE  TypeOK'
  BY <1>2, KubeletType, ClusterType
<1>3. ASSUME NEW n \in Nodes, PluginRestart(n) \/ KubeletRestart(n)
      PROVE  TypeOK'
  BY <1>3, RestartType
<1>4. CASE Cluster \/ PodLost
  BY <1>4, ClusterType
<1>5. CASE UNCHANGED vars
  BY <1>5 DEF vars, kubeVars, driverVars, TypeOK, CallsOK, KubeTypeOK
<1> QED BY <1>1, <1>2, <1>3, <1>4, <1>5 DEF Next, Settled

\* The state of the driver and of the cluster keeps its types, whatever the
\* order of calls, cluster events and faults.
THEOREM TypeCorrect == Spec => []TypeOK
BY InitType, NextType, PTL DEF Spec
=============================================================================
