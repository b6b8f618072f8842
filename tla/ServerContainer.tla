--------------------------- MODULE ServerContainer ---------------------------
(***************************************************************************)
(* The container of the server pod: the scripts of its two images,         *)
(* exporter/nfs-server/nfsd.sh and exporter/nfs-ganesha/start.sh, with the *)
(* daemons they start.  The kubelet, which restarts the container and      *)
(* deletes the pod, and the daemons themselves are external.               *)
(***************************************************************************)
EXTENDS Naturals

CONSTANTS
  Images,      \* a subset of {"nfs-server", "nfs-ganesha"}
  FaultKinds,  \* see Fault
  MaxFaults    \* bound on their number in one behaviour

ASSUME ImagesAssumption == Images \subseteq {"nfs-server", "nfs-ganesha"}
ASSUME BoundAssumption == MaxFaults \in Nat

VARIABLES
  image,     \* the nfsServerImage of the volume
  pc,        \* the line of the script, "down" without a container
  up,        \* the daemons that run
  exported,  \* the kernel's export table holds the directory
  deleted,   \* the pod is being deleted
  last,      \* how the last container ended
  unheeded,  \* history: commands whose last run failed while the script went on
  faults

vars == <<image, pc, up, exported, deleted, last, unheeded, faults>>

Daemons == {"rpcbind", "nfsd", "mountd", "statd", "idmapd", "dbus", "ganesha"}

\* rpc.nfsd starts kernel threads, which belong to the pod's network and
\* outlive the container, as the export table does.
KernelThreads == {"nfsd"}

StartSteps == {"check", "rpcbind", "nfsd", "export", "mountd", "recheck", "retry"}
StopSteps == {"unexport", "stopNfsd", "stopMountd"}
GaneshaSteps == {"g_rpcbind", "statd", "idmapd", "dbus", "exec"}

TypeOK ==
  /\ image \in Images
  /\ pc \in StartSteps \cup StopSteps \cup GaneshaSteps
              \cup {"down", "config", "watch", "giveUp", "ganesha", "removed"}
  /\ up \subseteq Daemons
  /\ exported \in BOOLEAN /\ deleted \in BOOLEAN
  /\ last \in {"none", "stopped", "failed", "killed"}
  /\ unheeded \subseteq StartSteps \cup StopSteps \cup GaneshaSteps
  /\ faults \in 0..MaxFaults

Init ==
  /\ image \in Images
  /\ pc = "down" /\ up = {} /\ exported = FALSE /\ deleted = FALSE
  /\ last = "none" /\ unheeded = {} /\ faults = 0

\* A command that fails ("command"), a daemon that dies ("die"), a container
\* that is killed ("kill").
Fault(kind) ==
  /\ kind \in FaultKinds /\ faults < MaxFaults
  /\ faults' = faults + 1

NoFault == UNCHANGED faults

Jump(line) == pc' = line /\ UNCHANGED <<image, deleted, last>>

Goto(line) == Jump(line) /\ UNCHANGED unheeded

\* A command that succeeds, and one that fails without its status being
\* looked at.
Succeeds(command) == NoFault /\ unheeded' = unheeded \ {command}

FailsUnheeded(command) ==
  Fault("command") /\ unheeded' = unheeded \cup {command}

Leaves(status) ==
  /\ pc' = "down" /\ last' = status
  /\ up' = up \cap KernelThreads
  /\ UNCHANGED <<image, deleted, unheeded>>

Ends(status) == Leaves(status) /\ UNCHANGED exported

\* A command that starts daemon d; the script goes on at `ok`, or at `failed`.
Launch(line, d, ok, failed) ==
  /\ pc = line
  /\ \/ Succeeds(line) /\ up' = up \cup {d} /\ Jump(ok)
     \/ FailsUnheeded(line) /\ UNCHANGED up /\ Jump(failed)
  /\ UNCHANGED exported

-----------------------------------------------------------------------------
(* nfsd.sh *)

\* The files are written anew, by nfsd.sh:23-90 and start.sh:19-93.  The
\* image sets SHARED_DIRECTORY, and what nfsd.sh fails to write shows at
\* exportfs; start.sh ends at the first error.
Configure ==
  /\ pc = "config"
  /\ \/ NoFault /\ UNCHANGED <<up, exported>>
        /\ Goto(IF image = "nfs-server" THEN "check" ELSE "g_rpcbind")
     \/ image = "nfs-ganesha" /\ Fault("command") /\ Ends("failed")

\* Lines 102-105.
Check ==
  /\ pc = "check" /\ NoFault /\ UNCHANGED <<up, exported>>
  /\ Goto(IF "mountd" \in up THEN "watch" ELSE "rpcbind")

\* Lines 113, 123 and 132: no status is looked at.
StartRpcbind == Launch("rpcbind", "rpcbind", "nfsd", "nfsd")
StartNfsd == Launch("nfsd", "nfsd", "export", "export")
StartMountd == Launch("mountd", "mountd", "recheck", "recheck")

\* Lines 125-130.  An exportfs -r that fails may have emptied the table.
ExportFails_GoesOn == Goto("mountd") /\ UNCHANGED <<up, exported>>

ExportFails == Leaves("failed") /\ exported' \in {exported, FALSE}

Export ==
  /\ pc = "export"
  /\ \/ NoFault /\ exported' = TRUE /\ Goto("mountd") /\ UNCHANGED up
     \/ Fault("command") /\ ExportFails

\* Lines 136-150: only mountd is looked for.
Recheck ==
  /\ pc = "recheck" /\ NoFault /\ UNCHANGED <<up, exported>>
  /\ Goto(IF "mountd" \in up THEN "watch" ELSE "retry")

Retry == pc = "retry" /\ NoFault /\ Goto("rpcbind") /\ UNCHANGED <<up, exported>>

\* Lines 154-168.
MountdMissed_Nfsd == "nfsd" \notin up

MountdMissed == "mountd" \notin up

Watch ==
  /\ pc = "watch" /\ MountdMissed
  /\ NoFault /\ Goto("giveUp") /\ UNCHANGED <<up, exported>>

\* Lines 170-171.
GiveUp == pc = "giveUp" /\ NoFault /\ Ends("failed")

\* Line 5: the trap runs between two commands of the script.
ServerScript == StartSteps \cup {"config", "watch", "giveUp"}

Trap ==
  /\ deleted /\ image = "nfs-server" /\ pc \in ServerScript
  /\ NoFault /\ Goto("unexport") /\ UNCHANGED <<up, exported>>

\* Line 12.  No status is looked at here, nor in line 13: a command that
\* fails leaves the table, or some of it, and the threads.
Unexport ==
  /\ pc = "unexport" /\ Jump("stopNfsd") /\ UNCHANGED up
  /\ \/ Succeeds("unexport") /\ exported' = FALSE
     \/ FailsUnheeded("unexport") /\ exported' \in {exported, FALSE}

\* Line 13.
StopNfsd_Kept == UNCHANGED up

StopNfsd == up' = up \ {"nfsd"}

StopThreads ==
  /\ pc = "stopNfsd" /\ Jump("stopMountd") /\ UNCHANGED exported
  /\ \/ Succeeds("stopNfsd") /\ StopNfsd
     \/ FailsUnheeded("stopNfsd") /\ UNCHANGED up

\* Lines 14-20.
StopMountd_NoExit == Goto("resume") /\ UNCHANGED <<up, exported>>

StopMountd == Ends("stopped")

StopRest == pc = "stopMountd" /\ NoFault /\ StopMountd

NfsdScript ==
  \/ Configure \/ Check \/ StartRpcbind \/ StartNfsd \/ Export \/ StartMountd
  \/ Recheck \/ Retry \/ Watch \/ GiveUp
  \/ Trap \/ Unexport \/ StopThreads \/ StopRest

-----------------------------------------------------------------------------
(* start.sh: init_rpc gives up silently, init_dbus ends the script. *)

StartRpc ==
  \/ Launch("g_rpcbind", "rpcbind", "statd", "dbus")
  \/ Launch("statd", "statd", "idmapd", "dbus")
  \/ Launch("idmapd", "idmapd", "dbus", "dbus")

StartDbus ==
  /\ pc = "dbus"
  /\ \/ NoFault /\ up' = up \cup {"dbus"} /\ Goto("exec") /\ UNCHANGED exported
     \/ Fault("command") /\ Ends("failed")

\* Line 101.  From here on the container is ganesha, which serves once it has
\* bound its port.
ExecGanesha ==
  /\ pc = "exec"
  /\ \/ NoFault /\ up' = up \cup {"ganesha"} /\ Goto("ganesha") /\ UNCHANGED exported
     \/ Fault("die") /\ Ends("failed")

GaneshaTerminates == pc = "ganesha" /\ deleted /\ NoFault /\ Ends("stopped")

GaneshaScript == StartRpc \/ StartDbus \/ ExecGanesha \/ GaneshaTerminates

-----------------------------------------------------------------------------
(* The daemons and the kubelet *)

MountdDies ==
  /\ "mountd" \in up /\ Fault("die")
  /\ up' = up \ {"mountd"} /\ UNCHANGED <<image, pc, exported, deleted, last, unheeded>>

GaneshaDies == pc = "ganesha" /\ Fault("die") /\ Ends("failed")

StartContainer ==
  /\ pc = "down" /\ ~ deleted
  /\ NoFault /\ Goto("config") /\ UNCHANGED <<up, exported>>

Running == pc \notin {"down", "removed"}

DeletePod ==
  /\ ~ deleted /\ deleted' = TRUE
  /\ UNCHANGED <<image, pc, up, exported, last, unheeded, faults>>

\* The grace period is over; or memory is short.
GraceEnds == Running /\ deleted /\ NoFault /\ Ends("killed")
Kill == Running /\ Fault("kill") /\ Ends("killed")

\* The pod's network goes, and with it the threads and the exports.
RemoveSandbox ==
  /\ pc = "down" /\ deleted
  /\ pc' = "removed" /\ up' = {} /\ exported' = FALSE
  /\ UNCHANGED <<image, deleted, last, unheeded, faults>>

Script == NfsdScript \/ GaneshaScript

\* The script has nothing to do, or the pod is gone.
Settled == (pc = "watch" /\ ~ MountdMissed) \/ pc = "ganesha" \/ pc = "removed"

Next ==
  \/ Script \/ MountdDies \/ GaneshaDies
  \/ StartContainer \/ DeletePod \/ GraceEnds \/ Kill \/ RemoveSandbox
  \/ Settled /\ UNCHANGED vars

Spec == Init /\ [][Next]_vars

\* The commands of the scripts return, and the kubelet does its work.
Fairness ==
  /\ WF_vars(Script) /\ WF_vars(StartContainer)
  /\ WF_vars(GraceEnds) /\ WF_vars(RemoveSandbox)

FairSpec == Spec /\ Fairness

-----------------------------------------------------------------------------
\* While the script takes the server for running, the directory is exported,
\* whatever failed or was left over from an earlier container
\* (nfsd.sh:125-136).
WatchedIsExported == pc \in {"watch", "giveUp"} => exported

\* An orderly end leaves an export only where exportfs -uav failed, and
\* kernel threads only where rpc.nfsd 0 failed, at whatever point of its start
\* the signal met the script (nfsd.sh:5-20).
CleanStop ==
  pc = "down" /\ last = "stopped" =>
    /\ exported => "unexport" \in unheeded
    /\ up # {} => "stopNfsd" \in unheeded

\* The promise of a server container (module ContainerService): the scripts
\* and the kubelet's restarts implement it.  The port answers as soon as there
\* are kernel threads, which is before the export and until after its end
\* (nfsd.sh:12-13 and 123-125, start.sh:91-101).
Service == INSTANCE ContainerService WITH
  lasting <- image = "nfs-server",
  wanted <- ~ deleted,
  state <- CASE pc = "down" -> "down"
             [] pc = "removed" -> "gone"
             [] pc \in {"watch", "ganesha"} -> "ready"
             [] pc \in StopSteps \cup {"giveUp"} -> "ending"
             [] OTHER -> "starting",
  offered <- exported \/ "ganesha" \in up,
  port <- "nfsd" \in up \/ "ganesha" \in up,
  orderly <- last = "stopped",
  spoiled <- unheeded \cap StopSteps # {}

ServiceRefined == Service!Spec

\* In the end the server runs, or the pod is deleted: a failed start of mountd
\* is repeated, and the watched daemon that dies ends the container
\* (nfsd.sh:99-171, start.sh:57-101).  A failed rpc.nfsd is neither noticed nor
\* repeated: then mountd runs and the directory is exported, but the kernel's
\* server may be missing for good (nfsd.sh:123).
Watched == pc = "watch" /\ exported /\ "mountd" \in up

Serves == (Watched /\ "nfsd" \in up) \/ pc = "ganesha"

NfsdMissed == Watched /\ "nfsd" \in unheeded

ServesAtLast == <>[](Serves \/ NfsdMissed \/ deleted)
=============================================================================
