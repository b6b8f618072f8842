-------------------------- MODULE NodeSafetyProofs --------------------------
(***************************************************************************)
(* Two properties of module NodeServer, for every value of its constants:  *)
(* what the teardown of the server spares, and what an answer OK means on  *)
(* a node that reaches the data over NFS.                                  *)
(***************************************************************************)
EXTENDS NodeServerProofs

-----------------------------------------------------------------------------
(* What a step of a goroutine may do to the goroutines, to the kubelets'   *)
(* view and to the pods: the shape that all handler steps share.           *)

OthersStay(t) == \A u \in Threads : u # t => call'[u] = call[u]

\* The handler goes on with one of the steps S.
GoesOn(t, S) ==
  /\ call'[t].pc \in S
  /\ call'[t].pod = call[t].pod
  /\ call'[t].live = call[t].live
  /\ kub' = kub

\* The handler answers, and the kubelet concludes one of the views V.
Ends(t, V) == \E view \in V : Answer(t, view)

StepOf(t, S, V) ==
  /\ call[t].pc \in S
  /\ OthersStay(t)
  /\ UNCHANGED appPod /\ exposed \subseteq exposed'
  /\ GoesOn(t, S) \/ Ends(t, V)

PublishViews == {"published", "failed", "uncertain"}
UnpublishViews == {"done", "uncertain"}

\* A goroutine that continues leaves the other goroutines and the views alone.
LEMMA ContinueShape ==
  ASSUME TypeOK, NEW t \in Threads, NEW c, Continue(t, c)
  PROVE  OthersStay(t) /\ call'[t] = c /\ kub' = kub
BY DEF TypeOK, CallsOK, Continue, OthersStay

\* Local variables may change on the way from one step to the next.
LEMMA ContinueGoesOn ==
  ASSUME TypeOK, NEW t \in Threads, NEW S, NEW c, Continue(t, c),
         c.pc \in S, c.pod = call[t].pod, c.live = call[t].live
  PROVE  OthersStay(t) /\ GoesOn(t, S)
BY ContinueShape DEF GoesOn

\* Where a Goto leads.
LEMMA GotoPc ==
  ASSUME TypeOK, NEW t \in Threads, NEW pc, Goto(t, pc)
  PROVE  call'[t] = [call[t] EXCEPT !.pc = pc] /\ call'[t].pc = pc
<1>1. call[t] \in Calls
  BY DEF TypeOK, CallsOK
<1> QED BY <1>1, ContinueShape DEF Goto, Calls

\* Goto changes the program counter, and nothing else.
LEMMA GotoShape ==
  ASSUME TypeOK, NEW t \in Threads, NEW S, NEW pc \in S, Goto(t, pc)
  PROVE  /\ OthersStay(t) /\ GoesOn(t, S)
         /\ call'[t].pc = pc /\ call'[t].dirOk = call[t].dirOk
<1>1. call'[t] = [call[t] EXCEPT !.pc = pc] /\ OthersStay(t) /\ kub' = kub
  BY ContinueShape DEF Goto
<1>2. call[t] \in Calls
  BY DEF TypeOK, CallsOK
<1> QED BY <1>1, <1>2 DEF GoesOn, Calls

\* An answer makes the goroutine idle and leaves the others alone.
LEMMA AnswerShape ==
  ASSUME TypeOK, NEW t \in Threads, NEW V, NEW view \in V, Answer(t, view)
  PROVE  OthersStay(t) /\ Ends(t, V) /\ call'[t] = Idle
BY DEF TypeOK, CallsOK, Answer, OthersStay, Ends

\* The answers of a publish call.
LEMMA PublishAnswerShape ==
  ASSUME TypeOK, NEW t \in Threads, NEW code, PublishAnswer(t, code)
  PROVE  /\ OthersStay(t) /\ Ends(t, PublishViews) /\ call'[t] = Idle
         /\ code # "OK" => Ends(t, PublishViews \ {"published"})
<1>1. PublishView(code) \in PublishViews
  BY DEF PublishView, PublishViews
<1>2. code # "OK" => PublishView(code) \in PublishViews \ {"published"}
  BY DEF PublishView, PublishViews
<1> QED BY <1>1, <1>2, AnswerShape DEF PublishAnswer

\* The answers of an unpublish call.
LEMMA UnpublishAnswerShape ==
  ASSUME TypeOK, NEW t \in Threads, NEW code, UnpublishAnswer(t, code)
  PROVE  OthersStay(t) /\ Ends(t, UnpublishViews) /\ call'[t] = Idle
<1>1. (IF code = "OK" THEN "done" ELSE "uncertain") \in UnpublishViews
  BY DEF UnpublishViews
<1> QED BY <1>1, AnswerShape DEF UnpublishAnswer

\* Every step of a publish call stays within the publish call.
LEMMA PublishShape ==
  ASSUME TypeOK, NEW t \in Threads, Publish(t)
  PROVE  StepOf(t, PublishSteps, PublishViews)
<1> USE DEF PublishSteps
<1>0. call[t] \in Calls
  BY DEF TypeOK, CallsOK
<1>1. CASE GetPVC(t) \/ GetSTS(t) \/ CreateSTS(t)
  BY <1>1, GotoShape, PublishAnswerShape DEF GetPVC, GetSTS, CreateSTS, StepOf, kubeVars
<1>2. CASE GetPod(t)
  <2> DEFINE c == [call[t] EXCEPT !.pc = "waitPod", !.uid = nfsPod.uid]
  <2>1. c.pc \in PublishSteps /\ c.pod = call[t].pod /\ c.live = call[t].live
    BY <1>0 DEF Calls
  <2>2. Continue(t, c) => OthersStay(t) /\ GoesOn(t, PublishSteps)
    BY <2>1, ContinueGoesOn
  <2> QED BY <1>2, <2>2, GotoShape DEF GetPod, StepOf, kubeVars
<1>3. CASE WaitPod(t) \/ CheckTarget(t)
  BY <1>3, GotoShape, PublishAnswerShape DEF WaitPod, CheckTarget, StepOf, kubeVars
<1>4. CASE FindSource(t)
  <2>1. PICK ok \in BOOLEAN, pc \in {"bind", "getSVC"} :
          Continue(t, [call[t] EXCEPT !.dirOk = ok, !.pc = pc])
    BY <1>4, SourceFound
  <2> DEFINE c == [call[t] EXCEPT !.dirOk = ok, !.pc = pc]
  <2>2. c.pc \in PublishSteps /\ c.pod = call[t].pod /\ c.live = call[t].live
    BY <1>0 DEF Calls
  <2>3. OthersStay(t) /\ GoesOn(t, PublishSteps)
    BY <2>1, <2>2, ContinueGoesOn
  <2> QED BY <1>4, <2>3 DEF FindSource, StepOf, kubeVars
<1>5. CASE BindLocal(t) \/ GetAppPod(t) \/ Annotate(t)
  BY <1>5, GotoShape, PublishAnswerShape DEF BindLocal, GetAppPod, Annotate, StepOf, kubeVars
<1>6. CASE GetSVC(t)
  <2> DEFINE c == [call[t] EXCEPT !.pc = "waitTcp", !.ip = svc]
  <2>1. c.pc \in PublishSteps /\ c.pod = call[t].pod /\ c.live = call[t].live
    BY <1>0 DEF Calls
  <2>2. Continue(t, c) => OthersStay(t) /\ GoesOn(t, PublishSteps)
    BY <2>1, ContinueGoesOn
  <2> QED BY <1>6, <2>2, GotoShape DEF GetSVC, StepOf, kubeVars
<1>7. CASE CreateSVC(t)
  <2>1. ASSUME NEW ip \in IPs,
               Continue(t, [call[t] EXCEPT !.pc = "waitTcp", !.ip = ip])
        PROVE  OthersStay(t) /\ GoesOn(t, PublishSteps)
    <3> DEFINE c == [call[t] EXCEPT !.pc = "waitTcp", !.ip = ip]
    <3>1. c.pc \in PublishSteps /\ c.pod = call[t].pod /\ c.live = call[t].live
      BY <1>0 DEF Calls
    <3> QED BY <2>1, <3>1, ContinueGoesOn
  <2> QED BY <1>7, <2>1, PublishAnswerShape DEF CreateSVC, StepOf
<1>8. CASE WaitTcp(t) \/ MountNFS(t) \/ Chmod(t)
  BY <1>8, GotoShape, PublishAnswerShape
     DEF WaitTcp, MountNFS, AfterMountNFS, Chmod, StepOf, kubeVars
<1> QED BY <1>1, <1>2, <1>3, <1>4, <1>5, <1>6, <1>7, <1>8 DEF Publish

\* Every step of an unpublish call stays within the unpublish call.
LEMMA UnpublishShape ==
  ASSUME TypeOK, NEW t \in Threads, Unpublish(t)
  PROVE  StepOf(t, UnpublishSteps, UnpublishViews)
<1> USE GotoShape, UnpublishAnswerShape DEF UnpublishSteps
<1>1. CASE CleanupMountPoint(t)
  BY <1>1 DEF CleanupMountPoint, CleanupFailed, StepOf, kubeVars
<1>2. CASE GetPV(t) \/ ListPods(t)
  BY <1>2 DEF GetPV, ListPods, StepOf, kubeVars
<1>3. CASE DeleteSTS(t) \/ DeleteSVC(t) \/ WaitGone(t)
  BY <1>3 DEF DeleteSTS, DeleteSVC, WaitGone, StepOf, kubeVars
<1> QED BY <1>1, <1>2, <1>3 DEF Unpublish

-----------------------------------------------------------------------------
(* The teardown. *)

\* While a call is between its decision to tear the server down and the last
\* deletion, every pod that is listed was created after the decision.
TearDownInv ==
  \A t \in Threads : call[t].pc \in TearDown => Listed \subseteq exposed

\* A step of a publish call leaves the teardown invariant alone.
LEMMA TearDownPublish ==
  ASSUME TypeOK, TearDownInv, NEW t \in Threads, Publish(t)
  PROVE  TearDownInv'
<1>1. StepOf(t, PublishSteps, PublishViews)
  BY PublishShape
<1>2. call'[t].pc \notin TearDown
  <2>1. CASE GoesOn(t, PublishSteps)
    BY <2>1 DEF GoesOn, PublishSteps, TearDown
  <2>2. CASE Ends(t, PublishViews)
    BY <2>2 DEF Ends, Answer, Idle, TearDown, TypeOK, CallsOK
  <2> QED BY <1>1, <2>1, <2>2 DEF StepOf
<1> QED BY <1>1, <1>2 DEF StepOf, OthersStay, TearDownInv, Listed

\* An unpublish call enters the teardown only when the listing was empty, or
\* when it failed and so overlooks all that is listed.
LEMMA TearDownUnpublish ==
  ASSUME TypeOK, TearDownInv, NEW t \in Threads, Unpublish(t)
  PROVE  TearDownInv'
<1>1. StepOf(t, UnpublishSteps, UnpublishViews)
  BY UnpublishShape
<1>2. CASE ListPods(t)
  <2>1. CASE Listed = {}
    BY <1>1, <2>1 DEF StepOf, TearDownInv, Listed
  <2>2. CASE UnpublishAnswer(t, "OK")
    BY <1>1, <2>2, UnpublishAnswerShape DEF StepOf, OthersStay, Idle, TearDown, TearDownInv, Listed
  <2>3. CASE exposed' = exposed \cup Listed
    BY <1>1, <2>3 DEF StepOf, TearDownInv, Listed
  <2> QED BY <1>2, <2>1, <2>2, <2>3 DEF ListPods, ClaimInUse
<1>3. CASE ~ ListPods(t)
  <2>1. call'[t].pc \in TearDown => call[t].pc \in TearDown
    <3> USE DEF TearDown
    <3>1. /\ Goto(t, "getPV") => call'[t].pc = "getPV"
          /\ Goto(t, "listPods") => call'[t].pc = "listPods"
      BY GotoPc
    <3>2. \A code : UnpublishAnswer(t, code) => call'[t].pc = "Idle"
      BY UnpublishAnswerShape DEF Idle
    <3>3. CASE CleanupMountPoint(t)
      BY <3>1, <3>2, <3>3 DEF CleanupMountPoint, CleanupFailed
    <3>4. CASE GetPV(t)
      BY <3>1, <3>2, <3>4 DEF GetPV
    <3>5. CASE DeleteSTS(t) \/ DeleteSVC(t) \/ WaitGone(t)
      BY <3>2, <3>5 DEF DeleteSTS, DeleteSVC, WaitGone
    <3> QED BY <1>3, <3>3, <3>4, <3>5 DEF Unpublish
  <2> QED BY <1>1, <2>1 DEF StepOf, OthersStay, TearDownInv, Listed
<1> QED BY <1>2, <1>3

\* Kubelets, restarts and the cluster bring no call into the teardown; a pod
\* that they create meanwhile is an exposed one.
LEMMA TearDownEnvironment ==
  ASSUME TypeOK, TearDownInv,
         \/ \E t \in Threads : KubeletTimeout(t)
         \/ \E p \in Pods : Kubelet(p) \/ PodCreated(p)
         \/ \E n \in Nodes : PluginRestart(n) \/ KubeletRestart(n)
         \/ Cluster \/ PodLost \/ UNCHANGED vars
  PROVE  TearDownInv'
<1>0. call \in [Threads -> Calls] /\ Idle.pc \notin TearDown
  BY DEF TypeOK, CallsOK, Idle, TearDown
<1>1. ASSUME NEW t \in Threads, KubeletTimeout(t)
      PROVE  TearDownInv'
  <2>1. \A u \in Threads : call'[u].pc = call[u].pc
    BY <1>0, <1>1 DEF KubeletTimeout, Calls
  <2> QED BY <1>1, <2>1 DEF KubeletTimeout, TearDownInv, Listed, kubeVars
<1>2. ASSUME NEW p \in Pods, NEW t \in Threads, NEW pc, NEW view,
             Begin(p, t, pc, view), pc \notin TearDown
      PROVE  TearDownInv'
  <2>1. \A u \in Threads : call'[u].pc \in TearDown => call[u].pc \in TearDown
    BY <1>0, <1>2 DEF Begin, Idle
  <2> QED BY <1>2, <2>1 DEF Begin, TearDownInv, Listed, kubeVars
<1>3. ASSUME NEW p \in Pods, Kubelet(p)
      PROVE  TearDownInv'
  <2>1. CASE \E t \in Threads : StartPublish(p, t) \/ StartUnpublish(p, t)
    BY <1>2, <2>1 DEF StartPublish, StartUnpublish, TearDown
  <2>2. CASE Forget(p)
    BY <2>2 DEF Forget, TearDownInv, Listed, kubeVars
  <2>3. CASE FinalizePod(p)
    BY <2>3 DEF FinalizePod, TearDownInv, Listed, driverVars, TypeOK, KubeTypeOK
  <2> QED BY <1>3, <2>1, <2>2, <2>3 DEF Kubelet
<1>4. ASSUME NEW p \in Pods, PodCreated(p)
      PROVE  TearDownInv'
  BY <1>4 DEF PodCreated, StartPod, TearDownInv, Listed, TypeOK, KubeTypeOK
<1>5. ASSUME NEW n \in Nodes, PluginRestart(n) \/ KubeletRestart(n)
      PROVE  TearDownInv'
  <2>1. \A u \in Threads : call'[u].pc \in TearDown => call[u].pc \in TearDown
    BY <1>0, <1>5 DEF PluginRestart, KubeletRestart, Calls
  <2> QED BY <1>5, <2>1 DEF PluginRestart, KubeletRestart, TearDownInv, Listed, kubeVars
<1>6. CASE Cluster
  <2>1. Listed' \subseteq Listed
    BY <1>6 DEF Cluster, StsCreatesPod, PodRuns, PodRemoved, CollectGarbage, DeletePV,
                DeleteDataPVC, DeletePod, ForceDeletePod, Listed, TypeOK, KubeTypeOK
  <2> QED BY <1>6, <2>1 DEF Cluster, driverVars, TearDownInv
<1>7. CASE PodLost \/ UNCHANGED vars
  BY <1>7 DEF PodLost, PodFails, vars, kubeVars, driverVars, TearDownInv, Listed
<1> QED BY <1>1, <1>3, <1>4, <1>5, <1>6, <1>7

\* The teardown invariant holds at first.
LEMMA TearDownInit == Init => TearDownInv
BY DEF Init, KubeInit, TearDownInv, TearDown, Idle

\* Every step keeps the teardown invariant.
LEMMA TearDownNext == TypeOK /\ TearDownInv /\ [Next]_vars => TearDownInv'
<1> SUFFICES ASSUME TypeOK, TearDownInv, [Next]_vars PROVE TearDownInv'
  OBVIOUS
<1>1. ASSUME NEW t \in Threads, Publish(t) PROVE TearDownInv'
  BY <1>1, TearDownPublish
<1>2. ASSUME NEW t \in Threads, Unpublish(t) PROVE TearDownInv'
  BY <1>2, TearDownUnpublish
<1> QED BY <1>1, <1>2, TearDownEnvironment DEF Next, Settled

\* In every state with the invariant, only an unpublish call in its teardown
\* deletes the StatefulSet of a data PVC that is still there.
LEMMA TearDownStep ==
  ASSUME TypeOK, TearDownInv, [Next]_vars, sts, ~ sts', dataPVC
  PROVE  Listed \subseteq exposed
<1>1. ASSUME NEW t \in Threads, Publish(t) PROVE FALSE
  BY <1>1 DEF Publish, GetPVC, GetSTS, CreateSTS, GetPod, WaitPod, CheckTarget, FindSource,
     BindLocal, GetAppPod, Annotate, GetSVC, CreateSVC, WaitTcp, MountNFS, Chmod, kubeVars
<1>2. ASSUME NEW t \in Threads, Unpublish(t) PROVE call[t].pc \in TearDown
  BY <1>2 DEF Unpublish, CleanupMountPoint, GetPV, ListPods, DeleteSTS, DeleteSVC,
     WaitGone, kubeVars, TearDown
<1>3. ASSUME NEW t \in Threads, KubeletTimeout(t) PROVE FALSE
  BY <1>3 DEF KubeletTimeout, kubeVars
<1>4. ASSUME NEW p \in Pods, Kubelet(p) \/ PodCreated(p) PROVE FALSE
  BY <1>4 DEF Kubelet, StartPublish, StartUnpublish, Begin, Forget, FinalizePod,
     PodCreated, StartPod, kubeVars
<1>5. ASSUME NEW n \in Nodes, PluginRestart(n) \/ KubeletRestart(n) PROVE FALSE
  BY <1>5 DEF PluginRestart, KubeletRestart, kubeVars
<1>6. CASE Cluster \/ PodLost
  BY <1>6 DEF Cluster, PodLost, PodFails, StsCreatesPod, PodRuns, PodRemoved,
     CollectGarbage, DeletePV, DeleteDataPVC, DeletePod, ForceDeletePod
<1>7. CASE UNCHANGED vars
  BY <1>7 DEF vars, kubeVars
<1> QED BY <1>1, <1>2, <1>3, <1>4, <1>5, <1>6, <1>7 DEF Next, Settled, TearDownInv

\* A call deletes the StatefulSet only if every pod using the claim came after
\* that call's list, or the list had failed: for any number of nodes, pods,
\* concurrent calls, crashes and other faults.
THEOREM TearDownSpares == Spec => TearDownSparesListedPods
<1>1. TypeOK /\ TearDownInv /\ [Next]_vars
        => [sts /\ ~ sts' /\ dataPVC => Listed \subseteq exposed]_vars
  BY TearDownStep
<1> QED
  BY <1>1, InitType, NextType, TearDownInit, TearDownNext, PTL
     DEF Spec, TearDownSparesListedPods

-----------------------------------------------------------------------------
(* The agreement between a kubelet and the calls it waits for. *)

\* A kubelet waits for one call at a time, and for the kind of call that its
\* view of the volume says; it has no unpublish call under way, not even an
\* abandoned one, while it publishes a volume or takes it for published.
CallsAgree ==
  /\ \A t \in Threads : call[t].live =>
       /\ call[t].pc # "Idle"
       /\ kub[call[t].pod] = IF call[t].pc \in PublishSteps
                             THEN "publishing" ELSE "unmounting"
  /\ \A t, u \in Threads :
       call[t].live /\ call[u].live /\ call[t].pod = call[u].pod => t = u
  /\ \A t \in Threads : call[t].pc \in UnpublishSteps =>
       /\ Leaving(call[t].pod)
       /\ kub[call[t].pod] \notin {"publishing", "published"}

\* The two kinds of calls have no step in common.
LEMMA StepsDisjoint ==
  /\ PublishSteps \cap UnpublishSteps = {}
  /\ "Idle" \notin PublishSteps \cup UnpublishSteps
BY DEF PublishSteps, UnpublishSteps

\* A handler that goes on keeps the agreement.
LEMMA AgreeGoesOn ==
  ASSUME TypeOK, CallsAgree, NEW t \in Threads,
         NEW S \in {PublishSteps, UnpublishSteps},
         call[t].pc \in S, OthersStay(t), UNCHANGED appPod, GoesOn(t, S)
  PROVE  CallsAgree'
<1>1. \A u \in Threads : /\ call'[u].live = call[u].live
                         /\ call'[u].pod = call[u].pod
                         /\ call'[u].pc \in PublishSteps <=> call[u].pc \in PublishSteps
                         /\ call'[u].pc \in UnpublishSteps <=> call[u].pc \in UnpublishSteps
                         /\ call[u].pc # "Idle" => call'[u].pc # "Idle"
  BY StepsDisjoint DEF OthersStay, GoesOn
<1> QED BY <1>1 DEF CallsAgree, Leaving, GoesOn

\* A handler that answers keeps the agreement: an unpublish call never makes
\* a volume published.
LEMMA AgreeEnds ==
  ASSUME TypeOK, CallsAgree, NEW t \in Threads, OthersStay(t), UNCHANGED appPod,
         \/ call[t].pc \in PublishSteps /\ Ends(t, PublishViews)
         \/ call[t].pc \in UnpublishSteps /\ Ends(t, UnpublishViews)
  PROVE  CallsAgree'
<1>1. PICK view \in PublishViews \cup UnpublishViews : Answer(t, view)
  BY DEF Ends
<1>2. call'[t] = Idle /\ ~ Idle.live /\ Idle.pc = "Idle"
  BY <1>1, AnswerShape DEF Idle
<1>3. kub \in [Pods -> Views] /\ call[t].pod \in Pods
  BY StepsDisjoint DEF TypeOK, CallsOK
<1>4. CASE ~ call[t].live
  <2>1. kub' = kub
    BY <1>1, <1>4 DEF Answer
  <2> QED BY <1>2, <2>1, StepsDisjoint DEF CallsAgree, OthersStay, Leaving
<1>5. CASE call[t].live
  <2>1. \A p \in Pods : p # call[t].pod => kub'[p] = kub[p]
    BY <1>1, <1>3, <1>5 DEF Answer
  <2>2. \A u \in Threads : call'[u].live => call'[u] = call[u] /\ call[u].pod # call[t].pod
    BY <1>2, <1>5 DEF CallsAgree, OthersStay
  <2>3. \A u \in Threads : call[u].pc # "Idle" => call[u].pod \in Pods
    BY DEF TypeOK, CallsOK
  <2>4. \A u \in Threads : call'[u].pc \in UnpublishSteps =>
                             call'[u] = call[u] /\ u # t /\ call[u].pod \in Pods
    BY <1>2, <2>3, StepsDisjoint DEF OthersStay
  <2>5. ASSUME NEW u \in Threads, call'[u].pc \in UnpublishSteps
        PROVE  kub'[call[u].pod] \notin {"publishing", "published"}
    <3>1. CASE call[u].pod # call[t].pod
      BY <2>1, <2>4, <2>5, <3>1 DEF CallsAgree
    <3>2. CASE call[u].pod = call[t].pod
      <4>1. call[t].pc \in UnpublishSteps
        BY <1>5, <2>4, <2>5, <3>2, StepsDisjoint DEF CallsAgree
      <4>2. \E v \in UnpublishViews : kub'[call[t].pod] = v
        BY <1>3, <1>5, <4>1, StepsDisjoint DEF Ends, Answer
      <4> QED BY <3>2, <4>2 DEF UnpublishViews
    <3> QED BY <3>1, <3>2
  <2> QED BY <2>1, <2>2, <2>3, <2>4, <2>5 DEF CallsAgree, Leaving
<1> QED BY <1>4, <1>5

\* A kubelet starts a publish call only for a pod that is not leaving, and an
\* unpublish call only for one that is.
LEMMA AgreeBegin ==
  ASSUME TypeOK, CallsAgree, NEW p \in Pods, NEW t \in Threads,
         StartPublish(p, t) \/ StartUnpublish(p, t)
  PROVE  CallsAgree'
<1>1. PICK pc, view :
        /\ Begin(p, t, pc, view)
        /\ \/ appPod[p] = "active" /\ pc = "getPVC" /\ view = "publishing"
           \/ Leaving(p) /\ pc = "cleanup" /\ view = "unmounting"
        /\ kub[p] \notin {"publishing", "unmounting"}
  BY DEF StartPublish, StartUnpublish
<1>2. /\ call'[t].pc = pc /\ call'[t].pod = p /\ call'[t].live
      /\ OthersStay(t)
  BY <1>1 DEF Begin, Idle, TypeOK, CallsOK, OthersStay
<1>3. kub'[p] = view /\ \A q \in Pods : q # p => kub'[q] = kub[q]
  BY <1>1 DEF Begin, TypeOK
<1>4. \A u \in Threads : call[u].pc # "Idle" => call[u].pod \in Pods
  BY DEF TypeOK, CallsOK
<1>5. appPod' = appPod /\ ~ (appPod[p] = "active" /\ Leaving(p))
  BY <1>1 DEF Begin, kubeVars, Leaving
<1>6. \A u \in Threads : u # t /\ call[u].live => call[u].pod # p
  BY <1>1 DEF CallsAgree
<1>7. ASSUME NEW u \in Threads, call'[u].live
      PROVE  /\ call'[u].pc # "Idle"
             /\ kub'[call'[u].pod] = IF call'[u].pc \in PublishSteps
                                     THEN "publishing" ELSE "unmounting"
  <2>1. CASE u = t
    BY <1>1, <1>2, <1>3, <2>1 DEF PublishSteps
  <2>2. CASE u # t
    BY <1>2, <1>3, <1>4, <1>6, <1>7, <2>2 DEF CallsAgree, OthersStay
  <2> QED BY <2>1, <2>2
<1>8. \A u, w \in Threads :
        call'[u].live /\ call'[w].live /\ call'[u].pod = call'[w].pod => u = w
  BY <1>2, <1>6 DEF CallsAgree, OthersStay
<1>9. ASSUME NEW u \in Threads, call'[u].pc \in UnpublishSteps
      PROVE  /\ appPod'[call'[u].pod] \in {"terminating", "gone"}
             /\ kub'[call'[u].pod] \notin {"publishing", "published"}
  <2>1. CASE u = t
    BY <1>1, <1>2, <1>3, <1>5, <1>9, <2>1 DEF UnpublishSteps, Leaving
  <2>2. CASE u # t
    <3>1. /\ call[u].pc \in UnpublishSteps /\ call'[u].pod = call[u].pod
          /\ call[u].pod \in Pods /\ Leaving(call[u].pod)
          /\ kub[call[u].pod] \notin {"publishing", "published"}
      BY <1>2, <1>4, <1>9, <2>2, StepsDisjoint DEF OthersStay, CallsAgree
    <3> QED BY <1>1, <1>3, <1>5, <3>1 DEF Leaving
  <2> QED BY <2>1, <2>2
<1> QED BY <1>7, <1>8, <1>9 DEF CallsAgree, Leaving

\* A kubelet that gives up on a call no longer agrees to anything about it.
LEMMA AgreeTimeout ==
  ASSUME TypeOK, CallsAgree, NEW t \in Threads, KubeletTimeout(t)
  PROVE  CallsAgree'
<1>1. /\ call[t].live /\ call[t] \in Calls /\ call[t].pc # "Idle" /\ call[t].pod \in Pods
      /\ call' = [call EXCEPT ![t] = [call[t] EXCEPT !.live = FALSE]]
  BY DEF KubeletTimeout, TypeOK, CallsOK, CallsAgree
<1>2. /\ \A u \in Threads : /\ call'[u].pc = call[u].pc
                            /\ call'[u].pod = call[u].pod
                            /\ call'[u].live => call[u].live /\ u # t
  BY <1>1 DEF Calls, TypeOK, CallsOK
<1>3. \A p \in Pods : kub'[p] = IF p = call[t].pod THEN "uncertain" ELSE kub[p]
  BY DEF KubeletTimeout, TypeOK
<1>4. \A u \in Threads : call[u].pc # "Idle" => call[u].pod \in Pods
  BY DEF TypeOK, CallsOK
<1>5. appPod' = appPod
  BY DEF KubeletTimeout, kubeVars
<1> QED BY <1>1, <1>2, <1>3, <1>4, <1>5, StepsDisjoint DEF CallsAgree, Leaving

\* A restart of the plugin or of the kubelet of a node ends the waiting for
\* every call on that node.
LEMMA AgreeRestart ==
  ASSUME TypeOK, CallsAgree, NEW n \in Nodes, PluginRestart(n) \/ KubeletRestart(n)
  PROVE  CallsAgree'
<1>1. \A u \in Threads : call[u] \in Calls /\ (call[u].pc # "Idle" => call[u].pod \in Pods)
  BY DEF TypeOK, CallsOK
<1>2. \A u \in Threads :
        \/ u \in CallsOn(n) /\ ~ call'[u].live
             /\ \/ call'[u].pc = "Idle"
                \/ call'[u].pc = call[u].pc /\ call'[u].pod = call[u].pod
        \/ u \notin CallsOn(n) /\ call'[u] = call[u]
  BY <1>1 DEF PluginRestart, KubeletRestart, Idle, Calls
<1>3. \A p \in Pods : kub'[p] = "uncertain" \/ kub'[p] = kub[p]
  BY DEF PluginRestart, KubeletRestart
<1>4. \A u \in Threads : u \notin CallsOn(n) /\ call[u].live
                           => kub'[call[u].pod] = kub[call[u].pod]
  <2> SUFFICES ASSUME NEW u \in Threads, u \notin CallsOn(n), call[u].live
               PROVE  kub'[call[u].pod] = kub[call[u].pod]
    OBVIOUS
  <2>1. call[u].pc # "Idle" /\ call[u].pod \in Pods /\ NodeOf[call[u].pod] # n
    BY <1>1 DEF CallsAgree, CallsOn, NodeOfCall
  <2>2. CASE PluginRestart(n)
    <3>1. \A w \in CallsOn(n) : call[w].pod # call[u].pod
      BY <2>1 DEF CallsOn, NodeOfCall
    <3> QED BY <2>1, <2>2, <3>1 DEF PluginRestart
  <2>3. CASE KubeletRestart(n)
    BY <2>1, <2>3 DEF KubeletRestart
  <2> QED BY <2>2, <2>3
<1>5. appPod' = appPod
  BY DEF PluginRestart, KubeletRestart, kubeVars
<1> QED BY <1>1, <1>2, <1>3, <1>4, <1>5, StepsDisjoint DEF CallsAgree, Leaving

\* The other steps of a kubelet and of the cluster: pods leave for good.
LEMMA AgreeCluster ==
  ASSUME TypeOK, CallsAgree,
         \/ \E p \in Pods : Forget(p) \/ FinalizePod(p) \/ PodCreated(p)
         \/ Cluster \/ PodLost \/ UNCHANGED vars
  PROVE  CallsAgree'
<1>1. \A u \in Threads : call[u].pc # "Idle" => call[u].pod \in Pods
  BY DEF TypeOK, CallsOK
<1>2. call' = call
  BY DEF Forget, FinalizePod, PodCreated, Cluster, PodLost, vars, driverVars
<1>3. \A p \in Pods : Leaving(p) => Leaving(p)'
  BY DEF Forget, FinalizePod, PodCreated, StartPod, Cluster, StsCreatesPod, PodRuns,
     PodRemoved, CollectGarbage, DeletePV, DeleteDataPVC, DeletePod, ForceDeletePod,
     PodLost, PodFails, vars, kubeVars, driverVars, Leaving, TypeOK, KubeTypeOK
<1>4. \A p \in Pods : \/ kub'[p] = kub[p]
                      \/ kub[p] \in {"waiting", "failed"} /\ kub'[p] = "forgotten"
  BY DEF Forget, FinalizePod, PodCreated, Cluster, PodLost, vars, driverVars, TypeOK
<1> QED BY <1>1, <1>2, <1>3, <1>4, StepsDisjoint DEF CallsAgree

\* Every step keeps the agreement.
LEMMA AgreeNext == TypeOK /\ CallsAgree /\ [Next]_vars => CallsAgree'
<1> SUFFICES ASSUME TypeOK, CallsAgree, [Next]_vars PROVE CallsAgree'
  OBVIOUS
<1>1. ASSUME NEW t \in Threads, Publish(t) PROVE CallsAgree'
  BY <1>1, PublishShape, AgreeGoesOn, AgreeEnds DEF StepOf
<1>2. ASSUME NEW t \in Threads, Unpublish(t) PROVE CallsAgree'
  BY <1>2, UnpublishShape, AgreeGoesOn, AgreeEnds DEF StepOf
<1>3. ASSUME NEW p \in Pods, Kubelet(p) PROVE CallsAgree'
  BY <1>3, AgreeBegin, AgreeCluster DEF Kubelet
<1> QED
  BY <1>1, <1>2, <1>3, AgreeTimeout, AgreeRestart, AgreeCluster DEF Next, Settled

-----------------------------------------------------------------------------
(* Publishing on a node without the data volume. *)

\* The volumes of the server pod are never mounted on such a node, so a call
\* there has not listed them and is not on its way to a bind mount; nor does
\* it get as far as chmod, since line 420 tests the error of the listing.
RemoteCalls ==
  \A t \in Threads :
    (call[t].pc \in PublishSteps /\ NodeOfCall(t) \notin DataNodes) =>
      /\ ~ call[t].dirOk
      /\ call[t].pc \notin {"bind", "getApp", "annotate", "chmod"}

\* The server pod only runs where the data volume can be attached.
LEMMA NoPodDirOnRemote ==
  ASSUME TypeOK, NEW t \in Threads, call[t].pc # "Idle", NodeOfCall(t) \notin DataNodes
  PROVE  ~ PodDirExists(NodeOfCall(t), call[t].uid)
<1>1. NodeOfCall(t) \in Nodes
  BY NodeOfAssumption DEF NodeOfCall, TypeOK, CallsOK
<1> QED BY <1>1, NoneAssumption DEF PodDirExists, TypeOK, KubeTypeOK

\* A step of a publish call on such a node.
LEMMA RemoteStep ==
  ASSUME TypeOK, RemoteCalls, NEW t \in Threads, Publish(t),
         NodeOfCall(t) \notin DataNodes
  PROVE  \/ call'[t] = Idle
         \/ ~ call'[t].dirOk /\ call'[t].pc \notin {"bind", "getApp", "annotate", "chmod"}
<1>1. call[t].pc \in PublishSteps /\ call[t] \in Calls
  BY PublishShape DEF StepOf, TypeOK, CallsOK
<1>2. ~ call[t].dirOk /\ call[t].pc \notin {"bind", "getApp", "annotate", "chmod"}
  BY <1>1 DEF RemoteCalls
<1>3. ASSUME NEW pc \in PublishSteps \ {"bind", "getApp", "annotate", "chmod"}, Goto(t, pc)
      PROVE  ~ call'[t].dirOk /\ call'[t].pc \notin {"bind", "getApp", "annotate", "chmod"}
  BY <1>2, <1>3, GotoShape
<1>4. ASSUME NEW code, PublishAnswer(t, code)
      PROVE  call'[t] = Idle
  BY <1>4, PublishAnswerShape
<1>5. CASE GetPVC(t) \/ GetSTS(t) \/ CreateSTS(t) \/ WaitPod(t) \/ CheckTarget(t)
  BY <1>3, <1>4, <1>5 DEF GetPVC, GetSTS, CreateSTS, WaitPod, CheckTarget, PublishSteps
<1>6. CASE GetPod(t)
  <2>1. CASE Continue(t, [call[t] EXCEPT !.pc = "waitPod", !.uid = nfsPod.uid])
    <3>1. call'[t] = [call[t] EXCEPT !.pc = "waitPod", !.uid = nfsPod.uid]
      BY <2>1, ContinueShape
    <3> QED BY <1>1, <1>2, <3>1 DEF Calls
  <2> QED BY <1>3, <1>6, <2>1 DEF GetPod, PublishSteps
<1>7. CASE FindSource(t)
  <2>1. ~ PodDirExists(NodeOfCall(t), call[t].uid) /\ ~ LocalSource(t)
    BY <1>1, StepsDisjoint, NoPodDirOnRemote DEF LocalSource, PodVolumesMounted
  <2>2. PICK ok \in BOOLEAN, pc \in {"bind", "getSVC"} :
          /\ Continue(t, [call[t] EXCEPT !.dirOk = ok, !.pc = pc])
          /\ ok => PodDirExists(NodeOfCall(t), call[t].uid)
          /\ pc = "bind" => LocalSource(t)
    BY <1>7, SourceFound
  <2>3. call'[t] = [call[t] EXCEPT !.dirOk = ok, !.pc = pc] /\ ~ ok /\ pc = "getSVC"
    BY <2>1, <2>2, ContinueShape
  <2> QED BY <1>1, <2>3 DEF Calls
<1>8. CASE GetSVC(t)
  <2>1. CASE Continue(t, [call[t] EXCEPT !.pc = "waitTcp", !.ip = svc])
    <3>1. call'[t] = [call[t] EXCEPT !.pc = "waitTcp", !.ip = svc]
      BY <2>1, ContinueShape
    <3> QED BY <1>1, <1>2, <3>1 DEF Calls
  <2> QED BY <1>3, <1>8, <2>1 DEF GetSVC, PublishSteps
<1>9. CASE CreateSVC(t)
  <2>1. ASSUME NEW ip, Continue(t, [call[t] EXCEPT !.pc = "waitTcp", !.ip = ip])
        PROVE  ~ call'[t].dirOk /\ call'[t].pc \notin {"bind", "getApp", "annotate", "chmod"}
    <3>1. call'[t] = [call[t] EXCEPT !.pc = "waitTcp", !.ip = ip]
      BY <2>1, ContinueShape
    <3> QED BY <1>1, <1>2, <3>1 DEF Calls
  <2> QED BY <1>4, <1>9, <2>1 DEF CreateSVC
<1>10. CASE WaitTcp(t) \/ MountNFS(t)
  BY <1>2, <1>3, <1>4, <1>10 DEF WaitTcp, MountNFS, AfterMountNFS, PublishSteps
<1>11. ~ (BindLocal(t) \/ GetAppPod(t) \/ Annotate(t) \/ Chmod(t))
  BY <1>2 DEF BindLocal, GetAppPod, Annotate, Chmod
<1> QED BY <1>5, <1>6, <1>7, <1>8, <1>9, <1>10, <1>11 DEF Publish

\* Every step keeps what is known of these calls.
LEMMA RemoteNext == TypeOK /\ RemoteCalls /\ [Next]_vars => RemoteCalls'
<1> SUFFICES ASSUME TypeOK, RemoteCalls, [Next]_vars PROVE RemoteCalls'
  OBVIOUS
<1>0. Idle.pc \notin PublishSteps /\ \A u \in Threads : call[u] \in Calls
  BY DEF Idle, PublishSteps, TypeOK, CallsOK
<1>1. ASSUME NEW t \in Threads, Publish(t) PROVE RemoteCalls'
  <2>1. /\ OthersStay(t)
        /\ call'[t] = Idle \/ call'[t].pod = call[t].pod
    BY <1>1, PublishShape, AnswerShape DEF StepOf, GoesOn, Ends
  <2> QED BY <1>0, <1>1, <2>1, RemoteStep DEF RemoteCalls, NodeOfCall, OthersStay
<1>2. ASSUME NEW t \in Threads, Unpublish(t) PROVE RemoteCalls'
  <2>1. OthersStay(t) /\ (call'[t] = Idle \/ call'[t].pc \in UnpublishSteps)
    BY <1>2, UnpublishShape, AnswerShape DEF StepOf, GoesOn, Ends
  <2> QED BY <1>0, <2>1, StepsDisjoint DEF RemoteCalls, NodeOfCall, OthersStay
<1>3. ASSUME NEW p \in Pods, NEW t \in Threads, StartPublish(p, t) \/ StartUnpublish(p, t)
      PROVE  RemoteCalls'
  <2>1. PICK pc \in {"getPVC", "cleanup"} :
          call' = [call EXCEPT ![t] = [Idle EXCEPT !.pc = pc, !.pod = p, !.live = TRUE]]
    BY <1>3 DEF StartPublish, StartUnpublish, Begin
  <2>2. /\ OthersStay(t) /\ ~ call'[t].dirOk
        /\ call'[t].pc \notin {"bind", "getApp", "annotate", "chmod"}
    BY <2>1 DEF Idle, TypeOK, CallsOK, OthersStay
  <2> QED BY <2>2 DEF RemoteCalls, NodeOfCall, OthersStay
<1>4. ASSUME \/ \E t \in Threads : KubeletTimeout(t)
             \/ \E n \in Nodes : PluginRestart(n) \/ KubeletRestart(n)
      PROVE  RemoteCalls'
  <2>1. \A u \in Threads : \/ call'[u] = Idle
                           \/ /\ call'[u].pc = call[u].pc /\ call'[u].pod = call[u].pod
                              /\ call'[u].dirOk = call[u].dirOk
    BY <1>0, <1>4 DEF KubeletTimeout, PluginRestart, KubeletRestart, Calls, TypeOK, CallsOK
  <2> QED BY <1>0, <2>1 DEF RemoteCalls, NodeOfCall
<1>5. ASSUME \/ \E p \in Pods : Forget(p) \/ FinalizePod(p) \/ PodCreated(p)
             \/ Cluster \/ PodLost \/ UNCHANGED vars
      PROVE  RemoteCalls'
  <2>1. call' = call
    BY <1>5 DEF Forget, FinalizePod, PodCreated, Cluster, PodLost, vars, driverVars
  <2> QED BY <2>1 DEF RemoteCalls, NodeOfCall
<1> QED BY <1>1, <1>2, <1>3, <1>4, <1>5 DEF Next, Kubelet, Settled

\* What the theorem rests on.
RemoteInv == TypeOK /\ CallsAgree /\ RemoteCalls /\ RemotePublishSound

\* A publish call takes no mount away, and answers OK on such a node only
\* where it has found a mount.
LEMMA RemoteSoundPublish ==
  ASSUME TypeOK, CallsAgree, RemoteCalls, RemotePublishSound,
         NEW t \in Threads, Publish(t)
  PROVE  RemotePublishSound'
<1>0. /\ call[t].pc \in PublishSteps /\ call[t].pod \in Pods
      /\ mnt \in [Pods -> Seq(Mounts)] /\ kub \in [Pods -> Views]
  BY PublishShape, StepsDisjoint DEF StepOf, TypeOK, CallsOK
<1>1. SUFFICES ASSUME NEW p \in Pods, NodeOf[p] \notin DataNodes, kub'[p] = "published"
               PROVE  mnt'[p] # <<>>
  BY DEF RemotePublishSound
<1>2. CASE call[t].pod = p
  <2>1. call[t].pc \notin {"bind", "getApp", "annotate", "chmod"}
    BY <1>0, <1>1, <1>2 DEF RemoteCalls, NodeOfCall
  <2>2. CASE CheckTarget(t)
    <3>1. CASE LooksMounted(call[t].pod)
      BY <1>2, <2>2, <3>1 DEF CheckTarget, LooksMounted
    <3>2. CASE ~ LooksMounted(call[t].pod)
      <4>1. kub[p] = "published"
        <5>1. ASSUME PublishAnswer(t, "Internal") PROVE kub[p] = "published"
          BY <1>0, <1>1, <1>2, <5>1 DEF PublishAnswer, PublishView, Answer
        <5>2. ASSUME Goto(t, "source") PROVE kub[p] = "published"
          BY <1>1, <5>2 DEF Goto, Continue
        <5> QED BY <2>2, <3>2, <5>1, <5>2 DEF CheckTarget
      <4> QED BY <1>1, <2>2, <4>1 DEF CheckTarget, RemotePublishSound
    <3> QED BY <3>1, <3>2
  <2>3. CASE ~ CheckTarget(t)
    <3>1. kub[p] = "published"
      <4>1. ASSUME NEW code \in {"InvalidArgument", "Canceled", "Internal"},
                   PublishAnswer(t, code)
            PROVE  kub[p] = "published"
        <5>1. PublishView(code) # "published"
          BY DEF PublishView
        <5> QED BY <1>0, <1>1, <1>2, <4>1, <5>1 DEF PublishAnswer, Answer
      <4>2. ASSUME NEW c, Continue(t, c) PROVE kub[p] = "published"
        BY <1>1, <4>2 DEF Continue
      <4> QED BY <1>1, <2>1, <2>3, <4>1, <4>2 DEF Publish, GetPVC, GetSTS, CreateSTS, GetPod, WaitPod,
            FindSource, BindLocal, GetAppPod, Annotate, GetSVC, CreateSVC, WaitTcp, MountNFS,
            AfterMountNFS, Chmod, Goto
    <3>2. mnt[p] # <<>>
      BY <1>1, <3>1 DEF RemotePublishSound
    <3>3. ASSUME NEW m, Push(call[t].pod, m) PROVE mnt'[p] # <<>>
      BY <1>0, <1>2, <3>3 DEF Push
    <3> QED BY <2>1, <3>2, <3>3 DEF Publish, GetPVC, GetSTS, CreateSTS, GetPod, WaitPod,
          CheckTarget, FindSource, BindLocal, GetAppPod, Annotate, GetSVC, CreateSVC, WaitTcp,
          MountNFS, Chmod
  <2> QED BY <2>2, <2>3
<1>3. CASE call[t].pod # p
  <2>1. kub'[p] = kub[p]
    BY <1>0, <1>3, PublishShape DEF StepOf, GoesOn, Ends, Answer
  <2>2. mnt'[p] = mnt[p]
    BY <1>0, <1>3 DEF Publish, GetPVC, GetSTS, CreateSTS, GetPod, WaitPod, CheckTarget,
       FindSource, BindLocal, GetAppPod, Annotate, GetSVC, CreateSVC, WaitTcp, MountNFS, Chmod,
       Push, SetTopMode
  <2> QED BY <1>1, <2>1, <2>2 DEF RemotePublishSound
<1> QED BY <1>2, <1>3

\* An unpublish call works on a volume that is not published, and makes none
\* published.
LEMMA RemoteSoundUnpublish ==
  ASSUME TypeOK, CallsAgree, RemoteCalls, RemotePublishSound,
         NEW t \in Threads, Unpublish(t)
  PROVE  RemotePublishSound'
<1>0. /\ call[t].pc \in UnpublishSteps /\ call[t].pod \in Pods
      /\ mnt \in [Pods -> Seq(Mounts)] /\ kub \in [Pods -> Views]
  BY UnpublishShape, StepsDisjoint DEF StepOf, TypeOK, CallsOK
<1>1. \A p \in Pods : kub'[p] = "published" => kub[p] = "published"
  BY <1>0, UnpublishShape DEF StepOf, GoesOn, Ends, Answer, UnpublishViews
<1>2. kub[call[t].pod] # "published"
  BY <1>0 DEF CallsAgree
<1>3. \A p \in Pods : p # call[t].pod => mnt'[p] = mnt[p]
  BY <1>0 DEF Unpublish, CleanupMountPoint, GetPV, ListPods, DeleteSTS, DeleteSVC, WaitGone
<1> QED BY <1>1, <1>2, <1>3 DEF RemotePublishSound

\* Nobody but the calls mounts and unmounts, or learns that a volume is
\* published.
LEMMA RemoteSoundEnvironment ==
  ASSUME RemoteInv,
         \/ \E t \in Threads : KubeletTimeout(t)
         \/ \E p \in Pods : Kubelet(p) \/ PodCreated(p)
         \/ \E n \in Nodes : PluginRestart(n) \/ KubeletRestart(n)
         \/ Cluster \/ PodLost \/ UNCHANGED vars
  PROVE  RemotePublishSound'
<1>1. kub \in [Pods -> Views]
  BY DEF RemoteInv, TypeOK
<1>2. /\ mnt' = mnt
      /\ \A p \in Pods : kub'[p] = "published" => kub[p] = "published"
  <2>1. CASE \/ \E t \in Threads : KubeletTimeout(t)
             \/ \E n \in Nodes : PluginRestart(n) \/ KubeletRestart(n)
    BY <1>1, <2>1 DEF KubeletTimeout, PluginRestart, KubeletRestart
  <2>2. CASE \E p \in Pods : Kubelet(p)
    BY <1>1, <2>2 DEF Kubelet, StartPublish, StartUnpublish, Begin, Forget, FinalizePod,
       driverVars
  <2>3. CASE Cluster \/ PodLost \/ UNCHANGED vars \/ \E p \in Pods : PodCreated(p)
    BY <2>3 DEF Cluster, PodLost, PodCreated, vars, driverVars
  <2> QED BY <2>1, <2>2, <2>3
<1> QED BY <1>2 DEF RemoteInv, RemotePublishSound

\* The initial states have the invariant.
LEMMA RemoteInit == Init => RemoteInv
<1> SUFFICES ASSUME Init PROVE RemoteInv
  OBVIOUS
<1>1. CallsAgree /\ RemoteCalls
  BY StepsDisjoint DEF Init, Idle, CallsAgree, RemoteCalls
<1>2. RemotePublishSound
  BY DEF Init, RemotePublishSound
<1> QED BY <1>1, <1>2, InitType DEF RemoteInv

\* Every step keeps the invariant.
LEMMA RemoteInvNext == RemoteInv /\ [Next]_vars => RemoteInv'
<1> SUFFICES ASSUME RemoteInv, [Next]_vars PROVE RemoteInv'
  OBVIOUS
<1>1. (TypeOK /\ CallsAgree /\ RemoteCalls)'
  BY NextType, AgreeNext, RemoteNext DEF RemoteInv
<1>2. RemotePublishSound'
  <2>1. ASSUME NEW t \in Threads, Publish(t) PROVE RemotePublishSound'
    BY <2>1, RemoteSoundPublish DEF RemoteInv
  <2>2. ASSUME NEW t \in Threads, Unpublish(t) PROVE RemotePublishSound'
    BY <2>2, RemoteSoundUnpublish DEF RemoteInv
  <2> QED BY <2>1, <2>2, RemoteSoundEnvironment DEF Next, Settled
<1> QED BY <1>1, <1>2 DEF RemoteInv

\* On a node without the data volume a volume that the kubelet takes for
\* published is mounted, in spite of any number of failing calls, lost answers
\* and restarts: although a call on such a node answers with the error of the
\* directory listing instead of the mount's own, it never answers OK for
\* nothing.
THEOREM RemoteSound == Spec => []RemotePublishSound
<1>1. RemoteInv => RemotePublishSound
  BY DEF RemoteInv
<1> QED BY <1>1, RemoteInit, RemoteInvNext, PTL DEF Spec
=============================================================================
