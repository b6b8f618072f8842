-------------------------- MODULE ControllerServer --------------------------
(***************************************************************************)
(* The CSI controller service (pkg/nfsexport/controllerserver.go):         *)
(* CreateVolume and DeleteVolume as gRPC goroutines, one step per API      *)
(* call, driven by the external-provisioner sidecar, which retries, gives  *)
(* up on slow calls and restarts.  The sidecar, the claims and the storage *)
(* classes are external to the repository.                                 *)
(***************************************************************************)
EXTENDS Naturals, Sequences, FiniteSets, Params

CONSTANTS
  Volumes,      \* names of the requested volumes, <<prefix, UID of the claim>>
  Classes,      \* the storage classes, in the order the API lists them
  Parameters,   \* the parameters of each request, see module Params
  Namespace,    \* the claims' namespace
  Absent,       \* no such object
  Threads,      \* goroutines that serve controller calls
  FaultKinds,   \* "api", "list", "crash", "deadline": see NodeServer
  MaxFaults,    \* bound on the number of faults
  MaxChanges    \* bound on the changes of the default class

ClassNames == {Classes[i] : i \in 1..Len(Classes)}

ASSUME ClassesAssumption ==
  /\ Classes \in Seq(STRING) /\ "" \notin ClassNames
  /\ Absent \notin ClassNames \cup {""}
\* The provisioner gives all its volumes one prefix.
ASSUME VolumesAssumption ==
  /\ Volumes \subseteq STRING \X STRING /\ Namespace \in Seq(STRING)
  /\ \A v, w \in Volumes : v[1] = w[1]
ASSUME ParametersAssumption ==
  /\ Parameters \in [Volumes -> SUBSET [key : STRING, value : STRING]]
  /\ \A v \in Volumes : \A e \in Parameters[v] :
       e.key = "datastorageclass" => e.value \in ClassNames \cup {""}

-----------------------------------------------------------------------------
(* Names, as sequences of their parts; the empty string is <<>>. *)

NoName == <<>>

VolumeID_PrefixOnly(name) == <<"nfs-">>

\* Line 91: the first "pvc-" of the name becomes "nfs-"; there is none in the
\* UID.  The data PVC has the same name, line 92.
VolumeID(name) ==
  IF name[1] = "pvc-" THEN <<"nfs-", name[2]>> ELSE name

VolumeIDs == {VolumeID(v) : v \in Volumes}

Lookup_Nil(attributes, key) ==
  IF key \in DOMAIN attributes THEN attributes[key] ELSE Absent

\* A missing key reads as the empty string (Go).
Lookup(attributes, key) ==
  IF key \in DOMAIN attributes THEN attributes[key] ELSE NoName

\* Lines 155-166, with the constants of nfsexport.go:59-61.
VolumeContext(name) ==
  [key \in {"datavolumeclaim", "datanamespace"} |->
     IF key = "datavolumeclaim" THEN VolumeID(name) ELSE Namespace]

ASSUME NoPVAssumption == Absent \notin {VolumeContext(v) : v \in Volumes}
ASSUME BoundsAssumption == MaxFaults \in Nat /\ MaxChanges \in Nat

-----------------------------------------------------------------------------
VARIABLES
  defaults,     \* the classes annotated as the default one
  everDefault,  \* history: every class that was ever annotated, and "" if
                \* there was ever none
  unlisted,     \* history: the volumes one of whose listings has failed
  dataPVC,      \* the storage class of the data PVC of each name, or Absent
  pv,           \* the attributes of the PV of each handle, or Absent
  prov,         \* what the provisioner does about each claim
  call,         \* what each goroutine is doing
  faults, changes

vars == <<defaults, everDefault, unlisted, dataPVC, pv, prov, call, faults, changes>>

Idle == [pc |-> "Idle", vol |-> Absent, class |-> "", claim |-> NoName, live |-> FALSE]

CreateSteps == {"validate", "listSC", "getDataPVC", "createDataPVC"}
DeleteSteps == {"getPV", "deleteDataPVC"}

Calls ==
  [pc : CreateSteps \cup DeleteSteps \cup {"Idle"}, vol : Volumes \cup {Absent},
   class : ClassNames \cup {""}, claim : VolumeIDs \cup {NoName}, live : BOOLEAN]

\* What a request that names no class gets if the classes D are annotated.
Choice(D) == IF D = {} THEN {""} ELSE D

TypeOK ==
  /\ defaults \subseteq ClassNames
  /\ Choice(defaults) \subseteq everDefault
  /\ everDefault \subseteq ClassNames \cup {""}
  /\ unlisted \subseteq Volumes
  /\ dataPVC \in [VolumeIDs -> ClassNames \cup {"", Absent}]
  /\ pv \in [VolumeIDs -> {Absent} \cup {VolumeContext(v) : v \in Volumes}]
  /\ prov \in [Volumes -> {"pending", "creating", "created", "rejected",
                           "bound", "released", "deleting", "gone"}]
  /\ call \in [Threads -> Calls]
  /\ faults \in 0..MaxFaults
  /\ changes \in 0..MaxChanges

Init ==
  /\ defaults \in {{}} \cup {{c} : c \in ClassNames}
  /\ everDefault = Choice(defaults)
  /\ unlisted = {}
  /\ dataPVC = [id \in VolumeIDs |-> Absent]
  /\ pv = [id \in VolumeIDs |-> Absent]
  /\ prov = [v \in Volumes |-> "pending"]
  /\ call = [t \in Threads |-> Idle]
  /\ faults = 0
  /\ changes = 0

Fault(kind) ==
  /\ kind \in FaultKinds /\ faults < MaxFaults
  /\ faults' = faults + 1

NoFault == UNCHANGED faults

Goto(t, pc) ==
  /\ call' = [call EXCEPT ![t].pc = pc]
  /\ UNCHANGED prov

\* The goroutine is done; a provisioner that still waits learns the outcome.
Answer(t, view) ==
  /\ call' = [call EXCEPT ![t] = Idle]
  /\ prov' = IF call[t].live THEN [prov EXCEPT ![call[t].vol] = view] ELSE prov

-----------------------------------------------------------------------------
(* CreateVolume *)

\* Lines 60-87, with the constants of nfsexport.go:58-71.
KnownKeys ==
  {"datastorageclass", "nfsserverimage", "nfshostsallow", "mountpermissions",
   "csi.storage.k8s.io/pvc/name", "csi.storage.k8s.io/pvc/namespace",
   "csi.storage.k8s.io/pv/name"}

BadParams == {v \in Volumes : \E e \in Parameters[v] : e.key \notin KnownKeys}

DataSC(v) == Parsed(Parameters[v], "datastorageclass", "")

\* Lines 46-95: an unknown parameter is refused for good; the classes are
\* listed only if the request names none.
Validate(t) ==
  LET v == call[t].vol IN
  /\ call[t].pc = "validate"
  /\ \/ v \in BadParams /\ Answer(t, "rejected")
     \/ /\ v \notin BadParams
        /\ \E class \in DataSC(v) :
             call' = [call EXCEPT ![t].class = class,
                        ![t].pc = IF class = "" THEN "listSC" ELSE "getDataPVC"]
        /\ UNCHANGED prov
  /\ UNCHANGED <<defaults, everDefault, unlisted, dataPVC, pv, faults, changes>>

FirstDefault_First == Classes[1]

\* Lines 98-105: the first class of the listing that is annotated, if any.
FirstDefault ==
  LET marked == {i \in 1..Len(Classes) : Classes[i] \in defaults} IN
  IF marked = {} THEN ""
  ELSE Classes[CHOOSE i \in marked : \A j \in marked : i <= j]

\* Lines 95-107.  The error of the List is dropped: the class stays "".
ListSC(t) ==
  /\ call[t].pc = "listSC"
  /\ \/ /\ NoFault /\ UNCHANGED unlisted
        /\ call' = [call EXCEPT ![t].pc = "getDataPVC", ![t].class = FirstDefault]
     \/ /\ Fault("list") /\ unlisted' = unlisted \cup {call[t].vol}
        /\ call' = [call EXCEPT ![t].pc = "getDataPVC"]
  /\ UNCHANGED <<defaults, everDefault, dataPVC, pv, prov, changes>>

DataPVCFound_Never(id) == FALSE

\* Line 145: any PVC of that name will do.
DataPVCFound(id) == dataPVC[id] # Absent

\* Lines 144-145.  Any error of the Get means that there is none.
GetDataPVC(t) ==
  LET id == VolumeID(call[t].vol) IN
  /\ call[t].pc = "getDataPVC"
  /\ \/ DataPVCFound(id) /\ NoFault /\ Answer(t, "created")
     \/ ~ DataPVCFound(id) /\ NoFault /\ Goto(t, "createDataPVC")
     \/ Fault("api") /\ Goto(t, "createDataPVC")
  /\ UNCHANGED <<defaults, everDefault, unlisted, dataPVC, pv, changes>>

\* Line 148: Canceled; the provisioner tries again.
CreateFailed_Logged(t) == Answer(t, "created")

CreateFailed(t) == Answer(t, "pending")

\* Lines 145-150.
CreateDataPVC(t) ==
  LET id == VolumeID(call[t].vol) IN
  /\ call[t].pc = "createDataPVC"
  /\ \/ /\ dataPVC[id] = Absent /\ NoFault
        /\ dataPVC' = [dataPVC EXCEPT ![id] = call[t].class]
        /\ Answer(t, "created")
     \/ dataPVC[id] # Absent /\ NoFault /\ CreateFailed(t) /\ UNCHANGED dataPVC
     \/ Fault("api") /\ CreateFailed(t) /\ UNCHANGED dataPVC
  /\ UNCHANGED <<defaults, everDefault, unlisted, pv, changes>>

-----------------------------------------------------------------------------
(* DeleteVolume *)

\* Lines 176-183 with getPvById.  The two keys are not those of VolumeContext.
GetPV(t) ==
  LET id == VolumeID(call[t].vol) IN
  /\ call[t].pc = "getPV"
  /\ \/ /\ pv[id] # Absent /\ NoFault
        /\ call' = [call EXCEPT ![t].pc = "deleteDataPVC",
                                ![t].claim = Lookup(pv[id], "nfsVolumeClaim")]
        /\ UNCHANGED prov
     \/ pv[id] = Absent /\ NoFault /\ Answer(t, "gone")
     \/ Fault("api") /\ Answer(t, "gone")
  /\ UNCHANGED <<defaults, everDefault, unlisted, dataPVC, pv, changes>>

\* Lines 186-191.  A Delete without a name is refused; errors are logged.
DeleteDataPVC(t) ==
  /\ call[t].pc = "deleteDataPVC"
  /\ \/ /\ NoFault
        /\ dataPVC' = [id \in VolumeIDs |->
                         IF id = call[t].claim THEN Absent ELSE dataPVC[id]]
     \/ Fault("api") /\ UNCHANGED dataPVC
  /\ Answer(t, "gone")
  /\ UNCHANGED <<defaults, everDefault, unlisted, pv, changes>>

Handler(t) ==
  \/ Validate(t) \/ ListSC(t) \/ GetDataPVC(t) \/ CreateDataPVC(t)
  \/ GetPV(t) \/ DeleteDataPVC(t)

-----------------------------------------------------------------------------
(* The provisioner and the administrators. *)

Begin(v, t, pc, view) ==
  /\ call[t].pc = "Idle"
  /\ call' = [call EXCEPT ![t] = [Idle EXCEPT !.pc = pc, !.vol = v, !.live = TRUE]]
  /\ prov' = [prov EXCEPT ![v] = view]
  /\ UNCHANGED <<defaults, everDefault, unlisted, dataPVC, pv, faults, changes>>

StartCreate(v, t) ==
  prov[v] \in {"pending", "rejected"} /\ Begin(v, t, "validate", "creating")

\* The PV gets the handle and the VolumeContext of the answer.
SavePV(v) ==
  /\ prov[v] = "created"
  /\ pv' = [pv EXCEPT ![VolumeID(v)] = VolumeContext(v)]
  /\ prov' = [prov EXCEPT ![v] = "bound"]
  /\ UNCHANGED <<defaults, everDefault, unlisted, dataPVC, call, faults, changes>>

\* The claim is deleted; its PV has reclaimPolicy Delete.
ReleaseClaim(v) ==
  /\ prov[v] = "bound"
  /\ prov' = [prov EXCEPT ![v] = "released"]
  /\ UNCHANGED <<defaults, everDefault, unlisted, dataPVC, pv, call, faults, changes>>

StartDelete(v, t) == prov[v] = "released" /\ Begin(v, t, "getPV", "deleting")

\* After DeleteVolume the provisioner removes the PV object.
RemovePV(v) ==
  /\ prov[v] = "gone" /\ pv[VolumeID(v)] # Absent
  /\ pv' = [pv EXCEPT ![VolumeID(v)] = Absent]
  /\ UNCHANGED <<defaults, everDefault, unlisted, dataPVC, prov, call, faults, changes>>

\* What the provisioner does next when it does not know how a call ended.
Again(p) ==
  CASE p \in {"creating", "created"} -> "pending"
    [] p = "deleting" -> "released"
    [] OTHER -> p

\* The provisioner's call times out; the goroutine goes on (context.TODO()).
ProvisionerTimeout(t) ==
  /\ call[t].live /\ Fault("deadline")
  /\ call' = [call EXCEPT ![t].live = FALSE]
  /\ prov' = [prov EXCEPT ![call[t].vol] = Again(@)]
  /\ UNCHANGED <<defaults, everDefault, unlisted, dataPVC, pv, changes>>

\* The controller pod restarts: the plugin and the provisioner lose all they
\* were doing.
ControllerRestart ==
  /\ Fault("crash")
  /\ call' = [t \in Threads |-> Idle]
  /\ prov' = [v \in Volumes |-> Again(prov[v])]
  /\ UNCHANGED <<defaults, everDefault, unlisted, dataPVC, pv, changes>>

\* An administrator marks other classes, or none.
ChangeDefault ==
  /\ changes < MaxChanges /\ changes' = changes + 1
  /\ \E D \in (SUBSET ClassNames) \ {defaults} :
       defaults' = D /\ everDefault' = everDefault \cup Choice(D)
  /\ UNCHANGED <<unlisted, dataPVC, pv, prov, call, faults>>

\* Every claim has been served or refused, or is gone.
Settled ==
  /\ \A t \in Threads : call[t].pc = "Idle"
  /\ \A v \in Volumes : \/ prov[v] \in {"bound", "rejected"}
                        \/ prov[v] = "gone" /\ pv[VolumeID(v)] = Absent
  /\ UNCHANGED vars

Provisioner(v) ==
  \/ \E t \in Threads : StartCreate(v, t) \/ StartDelete(v, t)
  \/ SavePV(v) \/ RemovePV(v)

Next ==
  \/ \E t \in Threads : Handler(t) \/ ProvisionerTimeout(t)
  \/ \E v \in Volumes : Provisioner(v) \/ ReleaseClaim(v)
  \/ ControllerRestart \/ ChangeDefault
  \/ Settled

Spec == Init /\ [][Next]_vars

\* Goroutines run and the provisioner goes on with every claim.
Fairness ==
  /\ \A t \in Threads : WF_vars(Handler(t))
  /\ \A v \in Volumes : WF_vars(Provisioner(v))

FairSpec == Spec /\ Fairness

-----------------------------------------------------------------------------
\* The data PVC that a publish call will look up, from the attributes of a PV
\* (nodeserver.go:70-104); a missing one is refused.
DataPVCsOf(id) ==
  IF pv[id] = Absent THEN {} ELSE Parsed(Entries(pv[id]), "datavolumeclaim", NoName)

\* A PV leads NodePublishVolume to a data PVC that exists, whatever the calls
\* that made it went through (controllerserver.go:144-166, nodeserver.go:70-113).
PVHasData ==
  \A v \in Volumes :
    prov[v] = "bound" => \A id \in DataPVCsOf(VolumeID(v)) :
                           id \in VolumeIDs /\ dataPVC[id] # Absent

\* Two claims never export the same data (controllerserver.go:91-92).
OwnData ==
  \A v, w \in Volumes :
    (v # w /\ prov[v] = "bound" /\ prov[w] = "bound") =>
      /\ pv[VolumeID(v)] # Absent
      /\ DataPVCsOf(VolumeID(v)) \cap DataPVCsOf(VolumeID(w)) = {}

\* The data PVC has a class its request names, in whatever spelling, or one
\* that has been the default, although retries may see another spelling and
\* another default than the first attempt (controllerserver.go:60-107 and 132).
\* It has none only if there was once no default, or if a listing failed for
\* this volume, and not for another one.
ClassesFor(v) ==
  LET unnamed == everDefault \cup IF v \in unlisted THEN {""} ELSE {} IN
  (DataSC(v) \ {""}) \cup IF "" \in DataSC(v) THEN unnamed ELSE {}

DataClassHonoured ==
  \A v \in Volumes :
    dataPVC[VolumeID(v)] # Absent => dataPVC[VolumeID(v)] \in ClassesFor(v)

\* The promise to the claims (module ClaimService), which the calls, retries
\* and API objects of controllerserver.go:44-194 implement.
Service == INSTANCE ClaimService WITH
  Claims <- Volumes,
  Named <- [v \in Volumes |-> DataSC(v)],
  NoData <- Absent,
  offered <- everDefault,
  unseen <- unlisted,
  data <- [v \in Volumes |-> dataPVC[VolumeID(v)]],
  exports <- [v \in Volumes |->
                IF prov[v] # "bound" THEN {}
                ELSE {w \in Volumes : VolumeID(w) \in DataPVCsOf(VolumeID(v))}],
  released <- {v \in Volumes : prov[v] \in {"released", "deleting", "gone"}}

ClaimsServed == Service!Spec

\* Every well-formed claim is served (controllerserver.go:45-167 and the
\* retries of the provisioner).
ClaimServed ==
  \A v \in Volumes \ BadParams : prov[v] = "pending" ~> prov[v] = "bound"

\* controllerserver.go:169, "DeleteVolume delete a volume": when it has been
\* answered OK for a volume, the data is gone.
DeleteRemovesData ==
  \A v \in Volumes : prov[v] = "gone" => dataPVC[VolumeID(v)] = Absent
=============================================================================
