------------------------ MODULE ServerContainerProofs ------------------------
(* Proofs about the container of the server pod, for every set of images and *)
(* every number of faults.                                                   *)
EXTENDS ServerContainer, TLAPS

\* The lines between the export of the directory and the end of the script.
Exported == {"mountd", "recheck", "retry", "watch", "giveUp"}

GaneshaLines == GaneshaSteps \cup {"down", "config", "ganesha", "removed"}
ServerLines ==
  ServerScript \cup StopSteps \cup {"down", "removed"}

\* A script stays in its own lines.
OwnLines ==
  /\ image = "nfs-ganesha" => pc \in GaneshaLines
  /\ image = "nfs-server" => pc \in ServerLines

\* What is known of the daemons and the exports at each line.  A new container
\* finds no mountd, for the check of nfsd.sh:102 must not skip the export.
AtLine ==
  /\ pc \in Exported => exported
  /\ pc \in {"down", "config", "check"} => "mountd" \notin up
  /\ pc \in {"stopNfsd", "stopMountd"} /\ exported => "unexport" \in unheeded
  /\ pc = "stopMountd" /\ "nfsd" \in up => "stopNfsd" \in unheeded
  /\ pc = "down" => up \subseteq KernelThreads
  /\ "ganesha" \in up <=> pc = "ganesha"
  /\ pc \in {"unexport", "stopNfsd", "stopMountd"} => deleted

\* Ganesha uses neither the kernel's server nor its export table.
NoKernelServer ==
  image = "nfs-ganesha" => "nfsd" \notin up /\ ~ exported

\* Only the signal handler fails to withdraw, and after it comes nothing else.
LateFailures ==
  /\ "unexport" \in unheeded =>
       deleted /\ pc \in {"stopNfsd", "stopMountd", "down", "removed"}
  /\ "stopNfsd" \in unheeded => deleted /\ pc \in {"stopMountd", "down", "removed"}
  /\ "stopMountd" \notin unheeded

IInv ==
  TypeOK /\ OwnLines /\ AtLine /\ NoKernelServer /\ CleanStop /\ LateFailures

\* The first container finds nothing.
LEMMA InitInv == Init => IInv
<1> USE DEF Init, GaneshaSteps, StopSteps, StartSteps, ServerScript,
            GaneshaLines, ServerLines, Exported, KernelThreads
<1>1. Init => TypeOK
  <2>1. Init => faults \in 0..MaxFaults
    BY BoundAssumption DEF BoundAssumption
  <2> QED BY <2>1 DEF TypeOK
<1>2. Init => OwnLines /\ AtLine /\ NoKernelServer /\ CleanStop /\ LateFailures
  BY DEF OwnLines, AtLine, NoKernelServer, CleanStop, LateFailures
<1> QED BY <1>1, <1>2 DEF IInv

\* A fault is one of the bounded number; other steps leave the counter.
LEMMA FaultCount ==
  ASSUME TypeOK, NEW kind, NoFault \/ Fault(kind) PROVE faults' \in 0..MaxFaults
BY BoundAssumption DEF TypeOK, NoFault, Fault

\* So it is when a command runs whose status nobody looks at.
LEMMA CommandFaults ==
  ASSUME TypeOK, NEW command, Succeeds(command) \/ FailsUnheeded(command)
  PROVE  faults' \in 0..MaxFaults
BY FaultCount DEF Succeeds, FailsUnheeded

\* The end of a container keeps the invariant, if an orderly end comes only
\* where nothing is left.
LEMMA EndInv ==
  ASSUME IInv, faults' \in 0..MaxFaults,
         NEW status \in {"stopped", "failed", "killed"}, Leaves(status),
         exported' \in {exported, FALSE},
         status = "stopped" => /\ exported => "unexport" \in unheeded
                               /\ "nfsd" \in up => "stopNfsd" \in unheeded
  PROVE  IInv'
<1> USE DEF Leaves, KernelThreads
<1>1. TypeOK'
  BY DEF IInv, TypeOK
<1>2. OwnLines'
  BY DEF IInv, TypeOK, OwnLines, GaneshaLines, ServerLines
<1>3. AtLine'
  BY DEF AtLine, Exported
<1>4. NoKernelServer'
  BY DEF IInv, NoKernelServer
<1>5. CleanStop'
  <2>1. up' # {} => "nfsd" \in up
    OBVIOUS
  <2> QED BY <2>1 DEF CleanStop
<1>6. LateFailures'
  BY DEF IInv, LateFailures
<1> QED BY <1>1, <1>2, <1>3, <1>4, <1>5, <1>6 DEF IInv

\* A line that launches a daemon keeps the invariant, given where it is.
LEMMA LaunchInv ==
  ASSUME IInv,
         NEW line \in {"rpcbind", "nfsd", "mountd", "g_rpcbind", "statd", "idmapd"},
         NEW d \in {"rpcbind", "nfsd", "mountd", "statd", "idmapd"},
         NEW ok, NEW failed, Launch(line, d, ok, failed),
         \/ /\ line \in StartSteps
            /\ ok = failed
            /\ <<line, ok>> \in {<<"rpcbind", "nfsd">>, <<"nfsd", "export">>,
                                  <<"mountd", "recheck">>}
         \/ /\ line \in GaneshaSteps /\ d # "nfsd"
            /\ {ok, failed} \subseteq {"statd", "idmapd", "dbus"}
  PROVE  IInv'
<1> USE DEF Launch, Jump
<1>1. PICK next \in {ok, failed} :
        /\ pc = line /\ pc' = next
        /\ up' \in {up, up \cup {d}}
        /\ unheeded' \in {unheeded \ {line}, unheeded \cup {line}}
        /\ UNCHANGED <<image, exported, deleted, last>>
  BY DEF Succeeds, FailsUnheeded
<1>2. faults' \in 0..MaxFaults
  BY CommandFaults DEF IInv
<1>3. TypeOK'
  BY <1>1, <1>2 DEF IInv, TypeOK, StartSteps, GaneshaSteps, StopSteps, Daemons
<1>4. OwnLines'
  BY <1>1 DEF IInv, OwnLines, TypeOK, GaneshaLines, ServerLines, ServerScript,
              StartSteps, GaneshaSteps, StopSteps
<1>5. AtLine'
  BY <1>1 DEF IInv, AtLine, Exported, StartSteps, GaneshaSteps
<1>6. NoKernelServer'
  BY <1>1 DEF IInv, NoKernelServer, OwnLines, StartSteps, GaneshaSteps, GaneshaLines
<1>7. CleanStop' /\ LateFailures'
  BY <1>1 DEF IInv, CleanStop, LateFailures, StartSteps, GaneshaSteps
<1> QED BY <1>3, <1>4, <1>5, <1>6, <1>7 DEF IInv

\* A step of the script that only goes on keeps the invariant.
LEMMA GotoInv ==
  ASSUME IInv, NoFault, UNCHANGED <<up, exported, image, deleted, last, unheeded>>,
         \/ pc = "down" /\ ~ deleted /\ pc' = "config"
         \/ pc = "config" /\ pc' = IF image = "nfs-server" THEN "check"
                                   ELSE "g_rpcbind"
         \/ pc = "check" /\ "mountd" \notin up /\ pc' = "rpcbind"
         \/ pc = "recheck" /\ pc' \in {"watch", "retry"}
         \/ pc = "retry" /\ pc' = "rpcbind"
         \/ pc = "watch" /\ pc' = "giveUp"
         \/ deleted /\ pc \in ServerScript /\ image = "nfs-server" /\ pc' = "unexport"
  PROVE  IInv'
<1>1. faults' \in 0..MaxFaults
  BY FaultCount DEF IInv
<1>2. TypeOK'
  BY <1>1 DEF IInv, TypeOK, StartSteps, GaneshaSteps, StopSteps
<1>3. OwnLines'
  BY ImagesAssumption DEF IInv, OwnLines, TypeOK, GaneshaLines, ServerLines,
     ServerScript, StartSteps, GaneshaSteps, StopSteps
<1>4. AtLine'
  BY DEF IInv, AtLine, Exported, ServerScript, StartSteps
<1>5. NoKernelServer' /\ CleanStop' /\ LateFailures'
  BY DEF IInv, NoKernelServer, CleanStop, LateFailures, ServerScript, StartSteps
<1> QED BY <1>2, <1>3, <1>4, <1>5 DEF IInv

\* nfsd.sh: each of its steps keeps the invariant.
LEMMA NfsdScriptInv == IInv /\ NfsdScript => IInv'
<1> SUFFICES ASSUME IInv, NfsdScript PROVE IInv'
  OBVIOUS
<1>1. CASE Configure
  <2>1. CASE Fault("command") /\ Ends("failed")
    BY <2>1, EndInv, FaultCount DEF Ends, IInv
  <2>2. CASE NoFault /\ UNCHANGED <<up, exported>>
             /\ Goto(IF image = "nfs-server" THEN "check" ELSE "g_rpcbind")
    BY <1>1, <2>2, GotoInv DEF Configure, Goto, Jump
  <2> QED BY <1>1, <2>1, <2>2 DEF Configure
<1>2. CASE Check
  BY <1>2, GotoInv DEF Check, Goto, Jump, IInv, AtLine
<1>3. CASE StartRpcbind \/ StartNfsd \/ StartMountd
  BY <1>3, LaunchInv DEF StartRpcbind, StartNfsd, StartMountd, StartSteps
<1>4. CASE Export
  <2>1. CASE ExportFails /\ Fault("command")
    BY <2>1, EndInv, FaultCount DEF ExportFails, IInv
  <2>2. CASE pc = "export" /\ NoFault /\ exported' = TRUE /\ Goto("mountd") /\ UNCHANGED up
    <3> USE <2>2 DEF Goto, Jump
    <3>1. TypeOK'
      BY DEF IInv, TypeOK, NoFault, StartSteps
    <3>2. OwnLines'
      BY DEF IInv, OwnLines, GaneshaLines, ServerLines, ServerScript, StartSteps,
             GaneshaSteps
    <3>3. AtLine' /\ CleanStop' /\ LateFailures'
      BY DEF IInv, AtLine, CleanStop, LateFailures, Exported
    <3>4. NoKernelServer'
      BY DEF IInv, OwnLines, NoKernelServer, GaneshaLines, GaneshaSteps
    <3> QED BY <3>1, <3>2, <3>3, <3>4 DEF IInv
  <2> QED BY <1>4, <2>1, <2>2 DEF Export
<1>5. CASE Recheck \/ Retry
  BY <1>5, GotoInv DEF Recheck, Retry, Goto, Jump
<1>6. CASE Watch
  BY <1>6, GotoInv DEF Watch, Goto, Jump
<1>7. CASE GiveUp
  BY <1>7, EndInv, FaultCount DEF GiveUp, Ends, IInv
<1>8. CASE Trap
  BY <1>8, GotoInv DEF Trap, Goto, Jump
<1>9. CASE Unexport \/ StopThreads
  <2>1. /\ pc \in {"unexport", "stopNfsd"}
        /\ pc' = IF pc = "unexport" THEN "stopNfsd" ELSE "stopMountd"
        /\ UNCHANGED <<image, deleted, last>>
        /\ up' \in {up, up \ {"nfsd"}} /\ exported' \in {exported, FALSE}
        /\ unheeded' \in {unheeded \ {pc}, unheeded \cup {pc}}
    BY <1>9 DEF Unexport, StopThreads, StopNfsd, Jump, Succeeds, FailsUnheeded
  <2>2. faults' \in 0..MaxFaults
    BY <1>9, CommandFaults DEF IInv, Unexport, StopThreads
  <2>3. TypeOK'
    BY <2>1, <2>2 DEF IInv, TypeOK, StopSteps
  <2>4. OwnLines'
    BY <2>1 DEF IInv, OwnLines, GaneshaLines, ServerLines, GaneshaSteps, StopSteps
  <2>5. exported' => "unexport" \in unheeded'
    <3>1. CASE Unexport
      BY <3>1, <2>1 DEF Unexport, Succeeds, FailsUnheeded
    <3>2. CASE StopThreads
      BY <3>2 DEF StopThreads, Succeeds, FailsUnheeded, IInv, AtLine
    <3> QED BY <1>9, <3>1, <3>2
  <2>6. pc' = "stopMountd" /\ "nfsd" \in up' => "stopNfsd" \in unheeded'
    BY <1>9, <2>1 DEF Unexport, StopThreads, StopNfsd, Succeeds, FailsUnheeded, Jump
  <2>7. AtLine'
    BY <2>1, <2>5, <2>6 DEF IInv, AtLine, Exported
  <2>8. NoKernelServer' /\ CleanStop'
    <3>1. CleanStop'
      BY <2>1 DEF CleanStop
    <3>2. "nfsd" \in up' => "nfsd" \in up
      BY <2>1
    <3>3. exported' => exported
      BY <2>1
    <3> QED BY <2>1, <3>1, <3>2, <3>3 DEF IInv, NoKernelServer
  <2>9. deleted
    BY <2>1 DEF IInv, AtLine
  <2>10. LateFailures'
    BY <2>1, <2>9 DEF IInv, LateFailures
  <2> QED BY <2>3, <2>4, <2>7, <2>8, <2>10 DEF IInv
<1>10. CASE StopRest
  <2>1. /\ exported => "unexport" \in unheeded
        /\ "nfsd" \in up => "stopNfsd" \in unheeded
    BY <1>10 DEF StopRest, IInv, AtLine
  <2> QED BY <1>10, <2>1, EndInv, FaultCount DEF StopRest, StopMountd, Ends, IInv
<1> QED
  BY <1>1, <1>2, <1>3, <1>4, <1>5, <1>6, <1>7, <1>8, <1>9, <1>10 DEF NfsdScript

\* start.sh: each of its steps keeps the invariant.
LEMMA GaneshaScriptInv == IInv /\ GaneshaScript => IInv'
<1> SUFFICES ASSUME IInv, GaneshaScript PROVE IInv'
  OBVIOUS
<1>1. CASE StartRpc
  BY <1>1, LaunchInv DEF StartRpc, GaneshaSteps
<1>2. CASE StartDbus \/ ExecGanesha
  <2>1. CASE Fault("command") /\ Ends("failed")
    BY <2>1, EndInv, FaultCount DEF Ends, IInv
  <2>2. CASE Fault("die") /\ Ends("failed")
    BY <2>2, EndInv, FaultCount DEF Ends, IInv
  <2>3. CASE /\ NoFault /\ UNCHANGED <<exported, image, deleted, last, unheeded>>
             /\ \/ pc = "dbus" /\ pc' = "exec" /\ up' = up \cup {"dbus"}
                \/ pc = "exec" /\ pc' = "ganesha" /\ up' = up \cup {"ganesha"}
    <3> USE <2>3
    <3>1. TypeOK'
      BY DEF IInv, TypeOK, NoFault, Daemons, GaneshaSteps
    <3>2. OwnLines'
      BY DEF IInv, OwnLines, GaneshaLines, ServerLines, ServerScript, StartSteps,
             GaneshaSteps, StopSteps
    <3>3. AtLine'
      BY DEF IInv, AtLine, Exported
    <3>4. NoKernelServer' /\ CleanStop' /\ LateFailures'
      BY DEF IInv, NoKernelServer, CleanStop, LateFailures
    <3> QED BY <3>1, <3>2, <3>3, <3>4 DEF IInv
  <2> QED BY <1>2, <2>1, <2>2, <2>3 DEF StartDbus, ExecGanesha, Goto, Jump
<1>3. CASE GaneshaTerminates
  <2>1. "nfsd" \notin up /\ ~ exported
    BY <1>3, ImagesAssumption
       DEF GaneshaTerminates, IInv, TypeOK, OwnLines, NoKernelServer,
           ServerLines, ServerScript, StartSteps, StopSteps
  <2> QED BY <1>3, <2>1, EndInv, FaultCount DEF GaneshaTerminates, Ends, IInv
<1> QED BY <1>1, <1>2, <1>3 DEF GaneshaScript

\* So do the daemons and the kubelet.
LEMMA NextInv == IInv /\ [Next]_vars => IInv'
<1> SUFFICES ASSUME IInv, [Next]_vars PROVE IInv'
  OBVIOUS
<1>1. CASE Script
  BY <1>1, NfsdScriptInv, GaneshaScriptInv DEF Script
<1>2. CASE MountdDies
  <2> USE <1>2 DEF MountdDies
  <2>1. TypeOK'
    BY FaultCount DEF IInv, TypeOK
  <2> QED BY <2>1 DEF IInv, OwnLines, AtLine, NoKernelServer, CleanStop, LateFailures
<1>3. CASE GaneshaDies \/ GraceEnds \/ Kill
  BY <1>3, EndInv, FaultCount DEF GaneshaDies, GraceEnds, Kill, Ends, IInv
<1>4. CASE StartContainer
  BY <1>4, GotoInv DEF StartContainer, Goto, Jump
<1>5. CASE DeletePod
  BY <1>5 DEF DeletePod, IInv, TypeOK, OwnLines, AtLine, NoKernelServer, CleanStop,
              LateFailures
<1>6. CASE RemoveSandbox
  <2> USE <1>6 DEF RemoveSandbox
  <2>1. TypeOK'
    BY DEF IInv, TypeOK
  <2>2. OwnLines' /\ AtLine' /\ NoKernelServer' /\ CleanStop' /\ LateFailures'
    BY DEF IInv, OwnLines, AtLine, NoKernelServer, CleanStop, LateFailures,
           GaneshaLines, ServerLines, Exported
  <2> QED BY <2>1, <2>2 DEF IInv
<1>7. CASE UNCHANGED vars
  BY <1>7 DEF vars, IInv, TypeOK, OwnLines, AtLine, NoKernelServer, CleanStop,
              LateFailures
<1> QED BY <1>1, <1>2, <1>3, <1>4, <1>5, <1>6, <1>7 DEF Next

\* The invariant holds in every state of the container's life.
THEOREM ContainerInvariant == Spec => []IInv
BY InitInv, NextInv, PTL DEF Spec

\* The variables stay in their types (nfsd.sh, start.sh).
THEOREM ContainerTypes == Spec => []TypeOK
<1>1. IInv => TypeOK
  BY DEF IInv
<1> QED BY <1>1, ContainerInvariant, PTL

\* A server that is taken for running exports the directory, for any number
\* of failed commands, dead daemons and killed containers (nfsd.sh:125-136).
THEOREM ServerWatchedIsExported == Spec => []WatchedIsExported
<1>1. IInv => WatchedIsExported
  BY DEF IInv, AtLine, Exported, WatchedIsExported
<1> QED BY <1>1, ContainerInvariant, PTL

\* An orderly end leaves an export or a kernel thread only where the command
\* that should have taken it away failed, wherever the signal met the script
\* (nfsd.sh:5-20).
THEOREM ServerStopsClean == Spec => []CleanStop
<1>1. IInv => CleanStop
  BY DEF IInv
<1> QED BY <1>1, ContainerInvariant, PTL
-----------------------------------------------------------------------------
(* ServerContainer implements ContainerService. *)

State == CASE pc = "down" -> "down"
           [] pc = "removed" -> "gone"
           [] pc \in {"watch", "ganesha"} -> "ready"
           [] pc \in StopSteps \cup {"giveUp"} -> "ending"
           [] OTHER -> "starting"
Offered == exported \/ "ganesha" \in up
Port == "nfsd" \in up \/ "ganesha" \in up
Spoiled == unheeded \cap StopSteps # {}

\* The state at each line of the scripts.
LEMMA StateAtLine ==
  /\ pc = "down" => State = "down"
  /\ pc = "removed" => State = "gone"
  /\ pc \in {"watch", "ganesha"} => State = "ready"
  /\ pc \in StopSteps \cup {"giveUp"} => State = "ending"
  /\ pc \in StartSteps \cup GaneshaSteps \cup {"config"} => State = "starting"
BY DEF State, StopSteps, StartSteps, GaneshaSteps

\* So it is after a step.
LEMMA StateNext ==
  /\ pc' = "down" => State' = "down"
  /\ pc' = "removed" => State' = "gone"
  /\ pc' \in {"watch", "ganesha"} => State' = "ready"
  /\ pc' \in StopSteps \cup {"giveUp"} => State' = "ending"
  /\ pc' \in StartSteps \cup GaneshaSteps \cup {"config"} => State' = "starting"
BY DEF State, StopSteps, StartSteps, GaneshaSteps

\* What the abstract steps say of the mapped state.
LEMMA AbstractSteps ==
  ASSUME UNCHANGED image
  PROVE  LET lasting == image = "nfs-server"
             Stays == UNCHANGED <<Offered, Port>>
             Same == UNCHANGED <<deleted, Spoiled>>
         IN
         /\ /\ Same /\ UNCHANGED <<State, last>> /\ Stays
            => UNCHANGED Service!vars
         /\ /\ Same /\ UNCHANGED <<State, last>> /\ State = "starting" /\ lasting
            /\ (Port' /\ UNCHANGED Offered) \/ (Offered' /\ UNCHANGED Port)
            => Service!Prepare
         /\ /\ Same /\ UNCHANGED last /\ State = "starting" /\ State' = "ready"
            /\ lasting => Offered /\ Stays
            /\ ~ lasting => Offered' /\ Port'
            => Service!BeReady
         /\ /\ Same /\ UNCHANGED last /\ State' = "ending" /\ Stays
            /\ State = "ready" \/ (deleted /\ State = "starting")
            => Service!BeginEnd
         /\ /\ Same /\ State' = "down" /\ last' # "stopped"
            /\ State \in {"starting", "ready", "ending"}
            /\ lasting => UNCHANGED Port /\ (UNCHANGED Offered \/ (State = "starting" /\ ~ Offered'))
            /\ ~ lasting => ~ Offered' /\ ~ Port'
            => Service!End
BY DEF State, Offered, Port, Spoiled, Service!vars, Service!offerVars, Service!Prepare,
       Service!BeReady, Service!BeginEnd, Service!End

\* The end of a container in which something went wrong.
LEMMA RefineEnd ==
  ASSUME IInv, Running, NEW status \in {"failed", "killed"}, Leaves(status),
         \/ UNCHANGED exported
         \/ pc = "export" /\ exported' = FALSE
  PROVE  Service!Next
<1>1. State \in {"starting", "ready", "ending"} /\ State' = "down"
  BY StateAtLine, StateNext
     DEF Running, Leaves, IInv, TypeOK
<1>2. ASSUME image = "nfs-server"
      PROVE  UNCHANGED Port /\ (UNCHANGED Offered \/ (State = "starting" /\ ~ Offered'))
  <2>1. pc # "ganesha"
    BY <1>2 DEF IInv, OwnLines, ServerLines, ServerScript, StartSteps, StopSteps
  <2>2. "ganesha" \notin up /\ "ganesha" \notin up'
    BY <2>1 DEF IInv, AtLine, Leaves
  <2>3. UNCHANGED Port
    BY <2>2 DEF Port, Leaves, KernelThreads
  <2>4. CASE UNCHANGED exported
    BY <2>2, <2>3, <2>4 DEF Offered
  <2>5. CASE pc = "export" /\ exported' = FALSE
    BY <2>2, <2>3, <2>5, StateAtLine DEF Offered, StartSteps
  <2> QED BY <2>4, <2>5
<1>3. ASSUME image # "nfs-server" PROVE ~ Offered' /\ ~ Port'
  <2>1. image = "nfs-ganesha"
    BY <1>3, ImagesAssumption DEF ImagesAssumption, IInv, TypeOK
  <2>2. "nfsd" \notin up /\ ~ exported
    BY <2>1 DEF IInv, NoKernelServer
  <2> QED BY <2>2 DEF Leaves, KernelThreads, Offered, Port
<1>4. Service!End
  BY <1>1, <1>2, <1>3, AbstractSteps DEF Leaves, Spoiled
<1> QED BY <1>4 DEF Service!Next

\* An orderly end, of the kernel's server after it has been withdrawn or that
\* has failed.
LEMMA RefineOrderlyEnd ==
  ASSUME IInv, deleted, pc \in {"stopMountd", "ganesha"}, Ends("stopped")
  PROVE  Service!Next
<1>1. State \in {"ready", "ending"} /\ State' = "down"
  BY StateAtLine, StateNext DEF Ends, Leaves, StopSteps
<1>2. UNCHANGED <<image, deleted, Spoiled>> /\ last' = "stopped"
  BY DEF Ends, Leaves, Spoiled
<1>3. CASE image = "nfs-server"
  <2>1. pc = "stopMountd" /\ "ganesha" \notin up
    BY <1>3 DEF IInv, AtLine, OwnLines, ServerLines, ServerScript, StartSteps, StopSteps
  <2>2. UNCHANGED <<Offered, Port>>
    BY <2>1 DEF Ends, Leaves, KernelThreads, Offered, Port
  <2>3. Offered \/ Port => Spoiled
    BY <2>1 DEF IInv, AtLine, Offered, Port, Spoiled, StopSteps
  <2>4. Service!EndOrderly
    BY <1>1, <1>2, <1>3, <2>2, <2>3
       DEF State, Offered, Port, Spoiled, Service!EndOrderly, Service!offerVars
  <2> QED BY <2>4 DEF Service!Next
<1>4. CASE image # "nfs-server"
  <2>1. "nfsd" \notin up /\ ~ exported
    BY <1>4, ImagesAssumption DEF ImagesAssumption, IInv, TypeOK, NoKernelServer
  <2>2. ~ Offered' /\ ~ Port'
    BY <2>1 DEF Ends, Leaves, KernelThreads, Offered, Port
  <2>3. Service!EndOrderly
    BY <1>1, <1>2, <1>4, <2>2 DEF State, Offered, Port, Spoiled, Service!EndOrderly
  <2> QED BY <2>3 DEF Service!Next
<1> QED BY <1>3, <1>4

\* Only the signal handler fails to withdraw.
LEMMA SpoiledByStop ==
  ASSUME NEW command \in StartSteps \cup GaneshaSteps,
         Succeeds(command) \/ FailsUnheeded(command)
  PROVE  UNCHANGED Spoiled
<1>1. command \notin StopSteps
  BY DEF StartSteps, GaneshaSteps, StopSteps
<1>2. (unheeded \ {command}) \cap StopSteps = unheeded \cap StopSteps
  BY <1>1
<1>3. (unheeded \cup {command}) \cap StopSteps = unheeded \cap StopSteps
  BY <1>1
<1> QED BY <1>2, <1>3 DEF Spoiled, Succeeds, FailsUnheeded

\* A daemon that is launched beside the server does not show.
LEMMA RefineLaunch ==
  ASSUME IInv, NEW line, NEW ok, NEW failed, NEW d \in {"rpcbind", "mountd", "statd", "idmapd"},
         Launch(line, d, ok, failed),
         {line, ok, failed} \subseteq StartSteps \cup GaneshaSteps
  PROVE  UNCHANGED Service!vars
<1>1. State = "starting" /\ State' = "starting"
  BY StateAtLine, StateNext DEF Launch, Jump
<1>2. UNCHANGED <<Offered, Port, deleted, last, image>>
  BY DEF Launch, Jump, Offered, Port
<1>3. UNCHANGED Spoiled
  BY SpoiledByStop DEF Launch
<1> QED BY <1>1, <1>2, <1>3, AbstractSteps

\* nfsd.sh: each of its steps is an abstract one or does not show.
LEMMA RefineNfsd ==
  ASSUME IInv, NfsdScript PROVE Service!Next \/ UNCHANGED Service!vars
<1>0. CASE Configure /\ Ends("failed")
  BY <1>0, RefineEnd DEF Configure, Ends, Running
<1>1. CASE (Configure /\ pc' # "down") \/ (Check /\ pc' = "rpcbind") \/ (Recheck /\ pc' = "retry") \/ Retry
  <2>1. State = "starting" /\ State' = "starting"
    BY <1>1, StateAtLine, StateNext
       DEF Configure, Check, Recheck, Retry, Goto, Jump, Ends, Leaves, StartSteps,
           GaneshaSteps
  <2>2. UNCHANGED <<up, exported, deleted, last, image, unheeded>>
    BY <1>1 DEF Configure, Check, Recheck, Retry, Goto, Jump, Ends, Leaves
  <2> QED BY <2>1, <2>2, AbstractSteps DEF Offered, Port, Spoiled
<1>2. CASE StartRpcbind \/ StartMountd
  BY <1>2, RefineLaunch DEF StartRpcbind, StartMountd, StartSteps
<1>3. ASSUME pc \in StartSteps PROVE image = "nfs-server" /\ "ganesha" \notin up
  BY <1>3, ImagesAssumption
     DEF ImagesAssumption, IInv, TypeOK, OwnLines, AtLine, GaneshaLines, StartSteps,
         GaneshaSteps
<1>4. CASE StartNfsd
  <2>1. State = "starting" /\ State' = "starting"
    BY <1>4, StateAtLine, StateNext DEF StartNfsd, Launch, Jump, StartSteps
  <2>2. /\ UNCHANGED <<exported, deleted, last, image>>
        /\ up' \in {up, up \cup {"nfsd"}} /\ pc = "nfsd"
    BY <1>4 DEF StartNfsd, Launch, Jump
  <2>3. UNCHANGED Offered /\ (Port' \/ UNCHANGED Port)
    BY <2>2 DEF Offered, Port
  <2>4. UNCHANGED Spoiled
    BY <1>4, SpoiledByStop DEF StartNfsd, Launch, StartSteps
  <2> QED BY <1>3, <2>1, <2>2, <2>3, <2>4, AbstractSteps DEF StartSteps, Service!Next
<1>5. CASE Export
  <2>1. pc = "export" /\ Running
    BY <1>5 DEF Export, Running
  <2>2. CASE ExportFails
    BY <2>1, <2>2, RefineEnd DEF ExportFails
  <2>3. CASE exported' = TRUE /\ Goto("mountd") /\ UNCHANGED up
    <3>1. State = "starting" /\ State' = "starting"
      BY <2>1, <2>3, StateAtLine, StateNext DEF Goto, Jump, StartSteps
    <3>2. Offered' /\ UNCHANGED <<Port, deleted, last, image, Spoiled>>
      BY <2>3 DEF Offered, Port, Spoiled, Goto, Jump
    <3> QED BY <1>3, <2>1, <3>1, <3>2, AbstractSteps DEF StartSteps, Service!Next
  <2> QED BY <1>5, <2>2, <2>3 DEF Export
<1>6. CASE Recheck /\ pc' = "watch"
  <2>1. State = "starting" /\ State' = "ready"
    BY <1>6, StateAtLine, StateNext DEF Recheck, StartSteps
  <2>2. pc = "recheck" /\ exported /\ UNCHANGED <<up, exported, deleted, last, image, unheeded>>
    BY <1>6 DEF Recheck, Goto, Jump, IInv, AtLine, Exported
  <2>3. Offered /\ UNCHANGED <<Offered, Port, Spoiled>>
    BY <2>2 DEF Offered, Port, Spoiled
  <2> QED BY <1>3, <2>1, <2>2, <2>3, AbstractSteps DEF StartSteps, Service!Next
<1>7. CASE Watch \/ Trap
  <2>1. UNCHANGED <<up, exported, deleted, last, image, unheeded>>
    BY <1>7 DEF Watch, Trap, Goto, Jump
  <2>2. State' = "ending"
    BY <1>7, StateNext DEF Watch, Trap, Goto, Jump, StopSteps
  <2>3. State = "ready" \/ State = "ending" \/ (deleted /\ State = "starting")
    BY <1>7, StateAtLine DEF Watch, Trap, ServerScript
  <2>4. UNCHANGED <<Offered, Port, Spoiled>>
    BY <2>1 DEF Offered, Port, Spoiled
  <2> QED BY <2>1, <2>2, <2>3, <2>4, AbstractSteps DEF Service!Next
<1>8. CASE GiveUp
  BY <1>8, RefineEnd DEF GiveUp, Ends, Running
<1>9. CASE Unexport \/ StopThreads
  <2>1. State = "ending" /\ State' = "ending"
    BY <1>9, StateAtLine, StateNext DEF Unexport, StopThreads, Jump, StopSteps
  <2>2. deleted /\ UNCHANGED <<deleted, last, image>> /\ "ganesha" \notin up
    BY <1>9 DEF Unexport, StopThreads, Jump, IInv, AtLine
  <2>3. CASE Unexport /\ Succeeds("unexport")
    <3>1. UNCHANGED Port /\ ~ Offered'
      BY <2>2, <2>3 DEF Unexport, FailsUnheeded, Succeeds, Offered, Port
    <3>2. UNCHANGED Spoiled
      BY <2>3 DEF Unexport, Succeeds, Spoiled, IInv, LateFailures
    <3>3. CASE Offered
      BY <2>1, <2>2, <3>1, <3>2, <3>3
         DEF State, Offered, Port, Spoiled, Service!Withdraw, Service!Next
    <3>4. CASE ~ Offered
      <4>1. UNCHANGED <<Offered, Port>>
        BY <3>1, <3>4 DEF Offered
      <4>2. UNCHANGED <<image, deleted, State, last, Spoiled>>
        BY <2>1, <2>2, <3>2
      <4> QED BY <4>1, <4>2, AbstractSteps
    <3> QED BY <3>3, <3>4
  <2>4. CASE StopThreads /\ Succeeds("stopNfsd")
    <3>1. UNCHANGED Offered /\ ~ Port'
      BY <2>2, <2>4 DEF StopThreads, StopNfsd, FailsUnheeded, Succeeds, Offered, Port
    <3>2. UNCHANGED Spoiled
      BY <2>4 DEF StopThreads, Succeeds, Spoiled, IInv, LateFailures
    <3>3. ~ Offered \/ Spoiled
      BY <2>2, <2>4 DEF StopThreads, IInv, AtLine, Offered, Spoiled, StopSteps
    <3> QED
      BY <2>1, <2>2, <3>1, <3>2, <3>3
         DEF State, Offered, Port, Spoiled, Service!Withdraw, Service!Next
  <2>5. CASE /\ FailsUnheeded("unexport") \/ FailsUnheeded("stopNfsd")
             /\ UNCHANGED up /\ exported' \in {exported, FALSE}
    <3>1. Spoiled'
      BY <2>5 DEF Spoiled, FailsUnheeded, StopSteps
    <3>2. "ganesha" \notin up'
      BY <2>2, <2>5
    <3>3. UNCHANGED Port
      BY <2>5 DEF Port
    <3>4. UNCHANGED Offered \/ ~ Offered'
      BY <2>2, <2>5, <3>2 DEF Offered
    <3>5. Service!FailToWithdraw
      BY <2>1, <2>2, <3>1, <3>3, <3>4
         DEF State, Offered, Port, Spoiled, Service!FailToWithdraw
    <3> QED BY <3>5 DEF Service!Next
  <2> QED BY <1>9, <2>3, <2>4, <2>5 DEF Unexport, StopThreads
<1>10. CASE StopRest
  <2>1. deleted
    BY <1>10 DEF StopRest, IInv, AtLine
  <2> QED BY <1>10, <2>1, RefineOrderlyEnd DEF StopRest, StopMountd
<1>11. CASE Check /\ pc' = "watch"
  BY <1>11 DEF Check, Goto, Jump, IInv, AtLine
<1> QED
  BY <1>0, <1>1, <1>2, <1>4, <1>5, <1>6, <1>7, <1>8, <1>9, <1>10, <1>11
     DEF NfsdScript, Configure, Check, Recheck, Goto, Jump

\* start.sh: so is each of its steps.
LEMMA RefineGanesha ==
  ASSUME IInv, GaneshaScript PROVE Service!Next \/ UNCHANGED Service!vars
<1>1. CASE StartRpc
  BY <1>1, RefineLaunch DEF StartRpc, GaneshaSteps
<1>2. CASE StartDbus \/ ExecGanesha
  <2>1. pc \in {"dbus", "exec"} /\ Running
    BY <1>2 DEF StartDbus, ExecGanesha, Running
  <2>2. CASE Ends("failed")
    BY <2>1, <2>2, RefineEnd DEF Ends
  <2>3. CASE pc = "dbus" /\ up' = up \cup {"dbus"} /\ Goto("exec") /\ UNCHANGED exported
    <3>1. State = "starting" /\ State' = "starting"
      BY <2>3, StateAtLine, StateNext DEF Goto, Jump, GaneshaSteps
    <3>2. UNCHANGED <<Offered, Port, deleted, last, image, Spoiled>>
      BY <2>3 DEF Goto, Jump, Offered, Port, Spoiled
    <3> QED BY <3>1, <3>2, AbstractSteps
  <2>4. CASE pc = "exec" /\ up' = up \cup {"ganesha"} /\ Goto("ganesha")
    <3>1. State = "starting" /\ State' = "ready"
      BY <2>4, StateAtLine, StateNext DEF Goto, Jump, GaneshaSteps
    <3>2. image # "nfs-server"
      BY <2>4 DEF IInv, OwnLines, ServerLines, ServerScript, StartSteps, StopSteps
    <3>3. Offered' /\ Port' /\ UNCHANGED <<deleted, last, image, Spoiled>>
      BY <2>4 DEF Goto, Jump, Offered, Port, Spoiled
    <3> QED BY <3>1, <3>2, <3>3, AbstractSteps DEF Service!Next
  <2> QED BY <1>2, <2>2, <2>3, <2>4 DEF StartDbus, ExecGanesha
<1>3. CASE GaneshaTerminates
  BY <1>3, RefineOrderlyEnd DEF GaneshaTerminates
<1> QED BY <1>1, <1>2, <1>3 DEF GaneshaScript

\* So are those of the daemons and the kubelet.
LEMMA RefineNext == IInv /\ [Next]_vars => [Service!Next]_(Service!vars)
<1> SUFFICES ASSUME IInv, [Next]_vars PROVE Service!Next \/ UNCHANGED Service!vars
  OBVIOUS
<1>1. CASE Script
  BY <1>1, RefineNfsd, RefineGanesha DEF Script
<1>2. CASE MountdDies
  <2>1. UNCHANGED <<Offered, Port, State, deleted, last, image, Spoiled>>
    BY <1>2 DEF MountdDies, Offered, Port, State, Spoiled
  <2> QED BY <2>1, AbstractSteps
<1>3. CASE GaneshaDies \/ GraceEnds \/ Kill
  BY <1>3, RefineEnd DEF GaneshaDies, GraceEnds, Kill, Ends, Running
<1>4. CASE StartContainer
  <2>1. State = "down" /\ State' = "starting"
    BY <1>4, StateAtLine, StateNext DEF StartContainer, Goto, Jump
  <2>2. Service!Start
    BY <1>4, <2>1 DEF StartContainer, Goto, Jump, State, Service!Start, Service!offerVars
  <2> QED BY <2>2 DEF Service!Next
<1>5. CASE DeletePod
  BY <1>5 DEF DeletePod, Service!Delete, Service!offerVars, Service!Next
<1>6. CASE RemoveSandbox
  <2>1. State = "down" /\ State' = "gone"
    BY <1>6, StateAtLine, StateNext DEF RemoveSandbox
  <2>2. Service!Remove
    BY <1>6, <2>1 DEF RemoveSandbox, State, Service!Remove
  <2> QED BY <2>2 DEF Service!Next
<1>7. CASE UNCHANGED vars
  BY <1>7 DEF vars, Service!vars, Service!offerVars
<1> QED BY <1>1, <1>2, <1>3, <1>4, <1>5, <1>6, <1>7 DEF Next

\* The scripts of both images, with any number of failed commands, dead daemons
\* and killed containers, keep the promise of a server container (nfsd.sh,
\* start.sh).
THEOREM ServerContainerImplementsService == Spec => ServiceRefined
<1>1. Init => Service!Init
  <2> SUFFICES ASSUME Init PROVE Service!Init
    OBVIOUS
  <2>1. State = "down"
    BY StateAtLine DEF Init
  <2> QED BY <2>1 DEF Init, State, Service!Init
<1> QED BY <1>1, ContainerInvariant, RefineNext, PTL DEF Spec, ServiceRefined, Service!Spec

-----------------------------------------------------------------------------
(* What the promise is worth to a client. *)

\* The abstract specification keeps it, whatever implements it.
LEMMA ServiceKeepsPromise == Service!Spec => []Service!Promise
<1>1. Service!Init => Service!Promise
  BY DEF Service!Init, Service!Promise
<1>2. Service!Promise /\ [Service!Next]_(Service!vars) => Service!Promise'
  <2> SUFFICES ASSUME Service!Promise, [Service!Next]_(Service!vars)
               PROVE  Service!Promise'
    OBVIOUS
  <2> USE DEF Service!Promise, Service!offerVars
  <2>1. CASE Service!Delete \/ Service!Start \/ Service!Prepare \/ Service!BeReady
    BY <2>1 DEF Service!Delete, Service!Start, Service!Prepare, Service!BeReady
  <2>2. CASE \/ Service!BeginEnd \/ Service!Withdraw \/ Service!FailToWithdraw
             \/ Service!Remove
    BY <2>2 DEF Service!BeginEnd, Service!Withdraw, Service!FailToWithdraw, Service!Remove
  <2>3. CASE Service!End \/ Service!EndOrderly
    BY <2>3 DEF Service!End, Service!EndOrderly
  <2>4. CASE UNCHANGED Service!vars
    BY <2>4 DEF Service!vars
  <2> QED BY <2>1, <2>2, <2>3, <2>4 DEF Service!Next
<1> QED BY <1>1, <1>2, PTL DEF Service!Spec

\* So it keeps what it says of the offer.
LEMMA ServiceOfferLasts == Service!Spec => Service!OfferLasts
<1> DEFINE Lasts ==
      image = "nfs-server" /\ Offered /\ ~ Offered' => deleted \/ State = "starting"
<1>1. [Service!Next]_(Service!vars) => [Lasts]_(Service!vars)
  <2> SUFFICES ASSUME Service!Next PROVE Lasts
    OBVIOUS
  <2> USE DEF Service!offerVars, Offered, State
  <2>1. CASE Service!Delete \/ Service!Start \/ Service!Prepare \/ Service!BeReady
    BY <2>1 DEF Service!Delete, Service!Start, Service!Prepare, Service!BeReady
  <2>2. CASE \/ Service!BeginEnd \/ Service!Withdraw \/ Service!FailToWithdraw
             \/ Service!Remove
    BY <2>2 DEF Service!BeginEnd, Service!Withdraw, Service!FailToWithdraw, Service!Remove
  <2>3. CASE Service!End \/ Service!EndOrderly
    BY <2>3 DEF Service!End, Service!EndOrderly
  <2> QED BY <2>1, <2>2, <2>3 DEF Service!Next
<1> QED BY <1>1, PTL DEF Service!Spec, Service!OfferLasts, Offered, State

\* A server container is never taken for ready without an offer; after an
\* orderly end it leaves nothing unless a command of the withdrawal has failed,
\* and nothing in any case when the pod is gone (nfsd.sh:5-20 and 125-136,
\* start.sh).
THEOREM ServerContainerKeepsPromise == Spec => []Service!Promise
BY ServerContainerImplementsService, ServiceKeepsPromise, PTL DEF ServiceRefined

\* What the kernel's server exports stays while containers fail and are
\* started again: only a deletion of the pod, or a failing exportfs of a later
\* start, takes it away (nfsd.sh:12 and 125).
THEOREM ExportOutlivesContainers == Spec => Service!OfferLasts
BY ServerContainerImplementsService, ServiceOfferLasts, PTL DEF ServiceRefined

=============================================================================
