------------------------ MODULE ControllerServerProofs ------------------------
(* Proofs about the controller service, for every set of requests, storage   *)
(* classes and goroutines, and every number of faults and retries.           *)
EXTENDS ControllerServer, TLAPS, WellFoundedInduction

-----------------------------------------------------------------------------
(* Names and attributes *)

\* Two requests never share a volume: the UID of the claim stays in the name.
LEMMA VolumeIDInjective ==
  ASSUME NEW v \in Volumes, NEW w \in Volumes, VolumeID(v) = VolumeID(w)
  PROVE  v = w
<1>1. /\ v = <<v[1], v[2]>> /\ w = <<w[1], w[2]>> /\ v[1] = w[1]
  BY VolumesAssumption DEF VolumesAssumption
<1>2. v[2] = w[2]
  BY <1>1 DEF VolumeID
<1> QED BY <1>1, <1>2

\* The name of a data PVC is not empty, so a Delete without a name hits none.
LEMMA NoNameIsNone == NoName \notin VolumeIDs
<1>1. ASSUME NEW v \in Volumes PROVE VolumeID(v) # NoName
  <2>1. v \in STRING \X STRING
    BY VolumesAssumption DEF VolumesAssumption
  <2> QED BY <2>1 DEF VolumeID, NoName
<1> QED BY <1>1 DEF VolumeIDs

\* DeleteVolume never finds the claim's name under the key that it reads.
LEMMA LookupMisses ==
  ASSUME NEW v \in Volumes PROVE Lookup(VolumeContext(v), "nfsVolumeClaim") = NoName
BY DEF Lookup, VolumeContext

\* NodePublishVolume finds the volume's own data PVC.
LEMMA ContextNamesData ==
  ASSUME NEW v \in Volumes
  PROVE  Parsed(Entries(VolumeContext(v)), "datavolumeclaim", NoName) = {VolumeID(v)}
<1> DEFINE map == VolumeContext(v)
           own == {x \in Entries(map) : x.key = "datavolumeclaim"}
<1>1. DOMAIN map = {"datavolumeclaim", "datanamespace"}
      /\ map["datavolumeclaim"] = VolumeID(v)
  BY DEF VolumeContext
<1> HIDE DEF map
<1>2. own = {[key |-> "datavolumeclaim", value |-> VolumeID(v)]}
  BY <1>1 DEF Entries
<1> HIDE DEF own
<1>3. {e.value : e \in own} = {VolumeID(v)}
  BY <1>2
<1> QED BY <1>3 DEF Parsed, map, own

\* The class that ListSC picks is marked as the default, if one is.
LEMMA FirstDefaultMarked ==
  ASSUME defaults \subseteq ClassNames
  PROVE  FirstDefault \in Choice(defaults)
<1> DEFINE marked == {i \in 1..Len(Classes) : Classes[i] \in defaults}
<1>1. marked \subseteq Nat /\ (marked = {} <=> defaults = {})
  BY DEF ClassNames
<1>2. CASE marked = {}
  BY <1>1, <1>2 DEF FirstDefault, Choice
<1>3. CASE marked # {}
  <2>1. PICK i \in marked : \A j \in marked : ~ (<<j, i>> \in OpToRel(<, Nat))
    BY <1>1, <1>3, NatLessThanWellFounded, WFMin
  <2>2. ASSUME NEW j \in marked PROVE i <= j
    <3>1. i \in Nat /\ j \in Nat
      BY <1>1
    <3>2. ~ (j < i)
      BY <2>1, <3>1 DEF OpToRel
    <3> QED BY <3>1, <3>2
  <2>3. FirstDefault = Classes[CHOOSE k \in marked : \A j \in marked : k <= j]
    BY <1>3 DEF FirstDefault
  <2>4. FirstDefault \in defaults
    BY <2>2, <2>3
  <2> QED BY <2>4 DEF Choice
<1> QED BY <1>2, <1>3

-----------------------------------------------------------------------------
(* The invariant *)

\* A call c under way is for a volume and has no claim's name to delete; it
\* asks for the classes only if the request leaves them open, and from then on
\* it has a class that the volume may have.
CallOK(c) ==
  /\ c.claim = NoName
  /\ c.pc # "Idle" \/ c.live => c.vol \in Volumes
  /\ c.pc = "listSC" => "" \in DataSC(c.vol) /\ c.class = ""
  /\ c.pc \in {"getDataPVC", "createDataPVC"} => c.class \in ClassesFor(c.vol)

\* A volume that the provisioner knows of has its data, and its PV names it.
VolumeOK(v) ==
  /\ prov[v] \in {"created", "bound"} => dataPVC[VolumeID(v)] # Absent
  /\ prov[v] = "bound" => pv[VolumeID(v)] = VolumeContext(v)
  /\ dataPVC[VolumeID(v)] # Absent => dataPVC[VolumeID(v)] \in ClassesFor(v)

IInv ==
  /\ TypeOK
  /\ \A t \in Threads : CallOK(call[t])
  /\ \A v \in Volumes : VolumeOK(v)

\* A request has the classes of the cluster to choose from.
LEMMA ClassesAreClasses ==
  ASSUME TypeOK, NEW v \in Volumes
  PROVE  /\ DataSC(v) \subseteq ClassNames \cup {""}
         /\ ClassesFor(v) \subseteq ClassNames \cup {""}
         /\ Absent \notin ClassNames \cup {""}
<1>1. DataSC(v) \subseteq ClassNames \cup {""}
  BY ParametersAssumption DEF ParametersAssumption, DataSC, Parsed
<1>2. Absent \notin ClassNames \cup {""}
  BY ClassesAssumption
<1> QED BY <1>1, <1>2 DEF ClassesFor, TypeOK

\* A goroutine without a call.
LEMMA IdleOK == Idle \in Calls /\ CallOK(Idle)
BY DEF Idle, Calls, CallOK

\* Nothing exists at first.
LEMMA InitInv == Init => IInv
<1> SUFFICES ASSUME Init PROVE IInv
  OBVIOUS
<1>1. faults \in 0..MaxFaults /\ changes \in 0..MaxChanges
  BY BoundsAssumption DEF BoundsAssumption, Init
<1>2. /\ defaults \subseteq ClassNames /\ everDefault = Choice(defaults)
      /\ everDefault \subseteq ClassNames \cup {""}
  BY DEF Init, Choice
<1>3. call \in [Threads -> Calls]
  BY IdleOK DEF Init
<1>4. TypeOK
  BY <1>1, <1>2, <1>3 DEF TypeOK, Init
<1>5. ASSUME NEW v \in Volumes PROVE VolumeOK(v)
  <2>1. VolumeID(v) \in VolumeIDs
    BY DEF VolumeIDs
  <2> QED BY <2>1 DEF VolumeOK, Init
<1>6. \A t \in Threads : CallOK(call[t])
  BY IdleOK DEF Init
<1> QED BY <1>2, <1>4, <1>5, <1>6 DEF IInv

\* A fault is one of the bounded number; other steps leave the counter.
LEMMA FaultCount ==
  ASSUME TypeOK, NEW kind, NoFault \/ Fault(kind) PROVE faults' \in 0..MaxFaults
<1>1. faults \in 0..MaxFaults /\ MaxFaults \in Nat
  BY BoundsAssumption DEF BoundsAssumption, TypeOK
<1> QED BY <1>1 DEF NoFault, Fault

\* The step of one goroutine, for volume w, keeps the invariant: it may give
\* the volume's data a class that the volume may have, and tell the provisioner
\* anything but a success without data.
LEMMA CallInv ==
  ASSUME IInv, NEW t \in Threads, NEW c \in Calls, CallOK(c) \/ CallOK(c)',
         call' = [call EXCEPT ![t] = c], NEW w \in Volumes,
         NEW view \in {"pending", "creating", "created", "rejected", "released",
                       "deleting", "gone"},
         view = "created" => dataPVC'[VolumeID(w)] # Absent,
         prov' = prov \/ prov' = [prov EXCEPT ![w] = view],
         \/ dataPVC' = dataPVC
         \/ \E class \in ClassesFor(w) :
              dataPVC' = [dataPVC EXCEPT ![VolumeID(w)] = class],
         UNCHANGED unlisted \/ unlisted' = unlisted \cup {w},
         UNCHANGED <<defaults, everDefault, pv, changes>>,
         faults' \in 0..MaxFaults
  PROVE  IInv'
<1>0. TypeOK /\ \A v \in Volumes : VolumeID(v) \in VolumeIDs
  BY DEF IInv, VolumeIDs
<1>1. dataPVC' \in [VolumeIDs -> ClassNames \cup {"", Absent}]
  BY <1>0, ClassesAreClasses DEF TypeOK
<1>2. prov' \in [Volumes -> {"pending", "creating", "created", "rejected",
                             "bound", "released", "deleting", "gone"}]
  BY <1>0 DEF TypeOK
<1>3. call' \in [Threads -> Calls]
  BY <1>0 DEF TypeOK
<1>4. TypeOK'
  BY <1>0, <1>1, <1>2, <1>3 DEF TypeOK, IInv
<1>5. /\ \A v \in Volumes : ClassesFor(v) \subseteq ClassesFor(v)'
      /\ \A v \in Volumes \ {w} : ClassesFor(v)' = ClassesFor(v)
  BY DEF ClassesFor
<1>6. ASSUME NEW s \in Threads PROVE CallOK(call[s])'
  <2>1. PICK x : x = call'[s]
    OBVIOUS
  <2>2. CallOK(x) \/ CallOK(x)'
    BY <1>0, <2>1 DEF IInv, TypeOK
  <2>3. CallOK(x)'
    BY <1>5, <2>2 DEF CallOK
  <2> QED BY <2>1, <2>3 DEF CallOK
<1>7. ASSUME NEW v \in Volumes PROVE VolumeOK(v)'
  <2>1. /\ VolumeOK(v) /\ VolumeID(v) \in VolumeIDs
        /\ dataPVC \in [VolumeIDs -> ClassNames \cup {"", Absent}]
    BY <1>0 DEF IInv, TypeOK
  <2>2. \/ dataPVC'[VolumeID(v)] = dataPVC[VolumeID(v)]
        \/ dataPVC'[VolumeID(v)] \in ClassesFor(v)
    <3>1. CASE VolumeID(v) = VolumeID(w)
      BY <2>1, <3>1, VolumeIDInjective
    <3>2. CASE VolumeID(v) # VolumeID(w)
      BY <2>1, <3>2
    <3> QED BY <3>1, <3>2
  <2>3. dataPVC[VolumeID(v)] # Absent => dataPVC'[VolumeID(v)] # Absent
    BY <1>0, <2>2, ClassesAreClasses
  <2>4. \/ prov'[v] = prov[v]
        \/ prov'[v] # "bound" /\ (prov'[v] = "created" => dataPVC'[VolumeID(v)] # Absent)
    BY <1>0 DEF TypeOK
  <2>5. ClassesFor(v) \subseteq ClassesFor(v)'
    BY <1>5
  <2> QED BY <2>1, <2>2, <2>3, <2>4, <2>5 DEF VolumeOK
<1> QED BY <1>4, <1>6, <1>7 DEF IInv

\* The end of a call keeps it, with a success only where there is data.
LEMMA AnswerInv ==
  ASSUME IInv, NEW t \in Threads, call[t].vol \in Volumes,
         NEW view \in {"pending", "created", "rejected", "gone"}, Answer(t, view),
         LET id == VolumeID(call[t].vol) IN
         /\ view = "created" => dataPVC'[id] # Absent
         /\ \/ dataPVC' = dataPVC
            \/ \E class \in ClassesFor(call[t].vol) :
                 dataPVC' = [dataPVC EXCEPT ![id] = class],
         UNCHANGED <<defaults, everDefault, unlisted, pv, changes>>,
         faults' \in 0..MaxFaults
  PROVE  IInv'
<1>1. PICK w \in Volumes : w = call[t].vol
  OBVIOUS
<1>2. call' = [call EXCEPT ![t] = Idle]
      /\ (prov' = prov \/ prov' = [prov EXCEPT ![w] = view])
  BY <1>1 DEF Answer
<1> QED BY <1>1, <1>2, IdleOK, CallInv

\* A call that goes on as c keeps it.
LEMMA GoOnInv ==
  ASSUME IInv, NEW t \in Threads, call[t].vol \in Volumes, NEW c \in Calls,
         call' = [call EXCEPT ![t] = c], c.vol = call[t].vol, c.claim = NoName,
         c.pc = "listSC" => "" \in DataSC(c.vol) /\ c.class = "",
         c.pc \in {"getDataPVC", "createDataPVC"} => c.class \in ClassesFor(c.vol),
         UNCHANGED <<defaults, everDefault, unlisted, dataPVC, pv, prov, changes>>,
         faults' \in 0..MaxFaults
  PROVE  IInv'
<1>1. CallOK(c)
  BY DEF CallOK
<1>2. PICK w \in Volumes : w = call[t].vol
  OBVIOUS
<1>3. PICK view : view = "pending"
  OBVIOUS
<1> QED BY <1>1, <1>2, <1>3, CallInv

\* The steps of CreateVolume.
LEMMA CreateInv ==
  ASSUME IInv, NEW t \in Threads,
         Validate(t) \/ ListSC(t) \/ GetDataPVC(t) \/ CreateDataPVC(t)
  PROVE  IInv'
<1>0. /\ TypeOK /\ call \in [Threads -> Calls] /\ call[t] \in Calls
      /\ CallOK(call[t]) /\ call[t].claim = NoName
  BY DEF IInv, TypeOK, CallOK
<1>1. call[t].vol \in Volumes
  BY <1>0 DEF CallOK, Validate, ListSC, GetDataPVC, CreateDataPVC
<1>2. PICK v \in Volumes : v = call[t].vol
  BY <1>1
<1>3. /\ VolumeID(v) \in VolumeIDs /\ Absent \notin ClassesFor(v)
      /\ DataSC(v) \subseteq ClassNames \cup {""}
      /\ ClassesFor(v) \subseteq ClassNames \cup {""}
  BY <1>0, ClassesAreClasses DEF VolumeIDs
<1>4. faults \in 0..MaxFaults /\ (NoFault => faults' \in 0..MaxFaults)
      /\ \A kind : Fault(kind) => faults' \in 0..MaxFaults
  BY <1>0, FaultCount DEF TypeOK
<1>5. CASE Validate(t)
  <2>1. CASE Answer(t, "rejected")
    BY <1>1, <1>4, <1>5, <2>1, AnswerInv DEF Validate
  <2>2. ASSUME NEW class \in DataSC(v), UNCHANGED prov,
               call' = [call EXCEPT ![t].class = class,
                          ![t].pc = IF class = "" THEN "listSC" ELSE "getDataPVC"]
        PROVE  IInv'
    <3> DEFINE pc == IF class = "" THEN "listSC" ELSE "getDataPVC"
               c == [call[t] EXCEPT !.class = class, !.pc = pc]
    <3>1. call' = [call EXCEPT ![t] = c]
      BY <1>0, <2>2
    <3>2. pc \in {"listSC", "getDataPVC"} /\ (pc = "listSC" <=> class = "")
      OBVIOUS
    <3> HIDE DEF pc
    <3>3. /\ c \in Calls /\ c.pc = pc /\ c.class = class
          /\ c.vol = v /\ c.claim = NoName
      BY <1>0, <1>2, <1>3, <3>2 DEF Calls, CreateSteps
    <3> HIDE DEF c
    <3>4. class # "" => class \in ClassesFor(v)
      BY DEF ClassesFor
    <3>5. /\ pc = "listSC" => "" \in DataSC(c.vol) /\ c.class = ""
          /\ pc # "createDataPVC"
          /\ pc = "getDataPVC" => c.class \in ClassesFor(c.vol)
      BY <2>2, <3>2, <3>3, <3>4
    <3>6. /\ faults' \in 0..MaxFaults
          /\ UNCHANGED <<defaults, everDefault, unlisted, dataPVC, pv, prov, changes>>
      BY <1>4, <1>5, <2>2 DEF Validate
    <3> QED BY <1>1, <1>2, <3>1, <3>3, <3>5, <3>6, GoOnInv
  <2> QED BY <1>2, <1>5, <2>1, <2>2 DEF Validate
<1>6. CASE ListSC(t)
  <2>1. "" \in DataSC(v) /\ call[t].class = ""
    BY <1>0, <1>2, <1>6 DEF ListSC, CallOK
  <2>2. FirstDefault \in everDefault
    BY <1>0, FirstDefaultMarked DEF TypeOK
  <2>3. PICK class \in {FirstDefault, ""} :
          /\ call' = [call EXCEPT ![t].pc = "getDataPVC", ![t].class = class]
          /\ \/ class = FirstDefault /\ UNCHANGED unlisted
             \/ class = "" /\ unlisted' = unlisted \cup {v}
    <3>1. CASE /\ call' = [call EXCEPT ![t].pc = "getDataPVC", ![t].class = FirstDefault]
               /\ UNCHANGED unlisted
      BY <3>1
    <3>2. CASE /\ call' = [call EXCEPT ![t].pc = "getDataPVC"]
               /\ unlisted' = unlisted \cup {v}
      <4>1. [call EXCEPT ![t].pc = "getDataPVC"] =
              [call EXCEPT ![t].pc = "getDataPVC", ![t].class = ""]
        BY <1>0, <2>1 DEF Calls
      <4> QED BY <3>2, <4>1
    <3> QED BY <1>2, <1>6, <3>1, <3>2 DEF ListSC
  <2>4. class \in ClassesFor(v)'
    <3>1. everDefault' = everDefault
      BY <1>6 DEF ListSC
    <3>2. class \in everDefault' \/ (class = "" /\ v \in unlisted')
      BY <2>2, <2>3, <3>1
    <3> QED BY <2>1, <3>2 DEF ClassesFor
  <2>5. class \in ClassNames \cup {""}
    BY <1>0, <2>2, <2>3 DEF TypeOK
  <2> DEFINE c == [call[t] EXCEPT !.pc = "getDataPVC", !.class = class]
  <2>6. PICK x : x = c
    OBVIOUS
  <2>7. call' = [call EXCEPT ![t] = x]
    BY <1>0, <2>3, <2>6
  <2>8. /\ x \in Calls /\ x.pc = "getDataPVC" /\ x.class = class
        /\ x.vol = v /\ x.claim = NoName
    BY <1>0, <1>2, <2>5, <2>6 DEF Calls, CreateSteps
  <2> HIDE DEF c
  <2>9. CallOK(x)'
    BY <2>4, <2>8 DEF CallOK
  <2>10. /\ UNCHANGED unlisted \/ unlisted' = unlisted \cup {v}
         /\ UNCHANGED <<defaults, everDefault, dataPVC, pv, prov, changes>>
         /\ faults' \in 0..MaxFaults
    BY <1>4, <1>6, <2>3 DEF ListSC
  <2>11. PICK view : view = "pending"
    OBVIOUS
  <2> QED BY <2>7, <2>8, <2>9, <2>10, <2>11, CallInv
<1>7. CASE GetDataPVC(t)
  <2>1. CASE Goto(t, "createDataPVC")
    <3> DEFINE c == [call[t] EXCEPT !.pc = "createDataPVC"]
    <3>1. call' = [call EXCEPT ![t] = c] /\ UNCHANGED prov
      BY <1>0, <2>1 DEF Goto
    <3>2. /\ c \in Calls /\ c.pc = "createDataPVC" /\ c.class = call[t].class
          /\ c.vol = v /\ c.claim = NoName
      BY <1>0, <1>2 DEF Calls, CreateSteps
    <3> HIDE DEF c
    <3>3. call[t].class \in ClassesFor(v)
      BY <1>0, <1>2, <1>7 DEF GetDataPVC, CallOK
    <3> QED BY <1>1, <1>2, <1>4, <1>7, <3>1, <3>2, <3>3, GoOnInv DEF GetDataPVC
  <2>2. CASE DataPVCFound(VolumeID(v)) /\ Answer(t, "created")
    BY <1>1, <1>2, <1>4, <1>7, <2>2, AnswerInv DEF GetDataPVC, DataPVCFound
  <2> QED BY <1>2, <1>7, <2>1, <2>2 DEF GetDataPVC
<1>8. CASE CreateDataPVC(t)
  <2>1. CASE CreateFailed(t) /\ UNCHANGED dataPVC
    BY <1>1, <1>4, <1>8, <2>1, AnswerInv DEF CreateDataPVC, CreateFailed
  <2>2. CASE /\ dataPVC' = [dataPVC EXCEPT ![VolumeID(v)] = call[t].class]
             /\ Answer(t, "created")
    <3>1. call[t].class \in ClassesFor(v)
      BY <1>0, <1>2, <1>8 DEF CreateDataPVC, CallOK
    <3>2. dataPVC'[VolumeID(v)] # Absent
      BY <1>0, <1>3, <2>2, <3>1 DEF TypeOK
    <3> QED BY <1>1, <1>2, <1>4, <1>8, <2>2, <3>1, <3>2, AnswerInv DEF CreateDataPVC
  <2> QED BY <1>2, <1>8, <2>1, <2>2 DEF CreateDataPVC
<1> QED BY <1>5, <1>6, <1>7, <1>8

\* The steps of DeleteVolume, which deletes no data PVC.
LEMMA DeleteInv ==
  ASSUME IInv, NEW t \in Threads, GetPV(t) \/ DeleteDataPVC(t) PROVE IInv'
<1>0. /\ TypeOK /\ call \in [Threads -> Calls] /\ call[t] \in Calls
      /\ CallOK(call[t]) /\ call[t].claim = NoName
  BY DEF IInv, TypeOK, CallOK
<1>1. call[t].vol \in Volumes
  BY <1>0 DEF CallOK, GetPV, DeleteDataPVC
<1>2. PICK v \in Volumes : v = call[t].vol
  BY <1>1
<1>3. NoFault \/ Fault("api") => faults' \in 0..MaxFaults
  BY <1>0, FaultCount
<1>4. CASE Answer(t, "gone") /\ UNCHANGED dataPVC
           /\ UNCHANGED <<defaults, everDefault, unlisted, pv, changes>>
           /\ (NoFault \/ Fault("api"))
  BY <1>1, <1>3, <1>4, AnswerInv
<1>5. CASE GetPV(t) /\ UNCHANGED prov /\ NoFault /\ pv[VolumeID(v)] # Absent
           /\ call' = [call EXCEPT ![t].pc = "deleteDataPVC",
                         ![t].claim = Lookup(pv[VolumeID(v)], "nfsVolumeClaim")]
  <2>1. VolumeID(v) \in VolumeIDs
    BY DEF VolumeIDs
  <2>2. PICK w \in Volumes : pv[VolumeID(v)] = VolumeContext(w)
    BY <1>0, <1>5, <2>1 DEF TypeOK
  <2>3. Lookup(pv[VolumeID(v)], "nfsVolumeClaim") = NoName
    BY <2>2, LookupMisses
  <2> DEFINE c == [call[t] EXCEPT !.pc = "deleteDataPVC", !.claim = NoName]
  <2>4. call' = [call EXCEPT ![t] = c]
    BY <1>0, <1>5, <2>3
  <2>5. c \in Calls /\ c.pc = "deleteDataPVC" /\ c.vol = v /\ c.claim = NoName
    BY <1>0, <1>2 DEF Calls, DeleteSteps
  <2> HIDE DEF c
  <2> QED BY <1>1, <1>2, <1>3, <1>5, <2>4, <2>5, GoOnInv DEF GetPV
<1>6. CASE DeleteDataPVC(t)
  <2>1. ASSUME dataPVC' = [id \in VolumeIDs |->
                 IF id = call[t].claim THEN Absent ELSE dataPVC[id]]
        PROVE  dataPVC' = dataPVC
    BY <1>0, <2>1, NoNameIsNone DEF TypeOK
  <2> QED BY <1>4, <1>6, <2>1 DEF DeleteDataPVC
<1> QED BY <1>2, <1>4, <1>5, <1>6 DEF GetPV

\* The provisioner's steps on claim v, and the end of the claim.
LEMMA ProvisionerInv ==
  ASSUME IInv, NEW v \in Volumes, Provisioner(v) \/ ReleaseClaim(v) PROVE IInv'
<1>0. TypeOK /\ VolumeID(v) \in VolumeIDs
  BY DEF IInv, VolumeIDs
<1>1. ASSUME NEW t \in Threads, StartCreate(v, t) \/ StartDelete(v, t) PROVE IInv'
  <2>1. PICK pc \in {"validate", "getPV"} : \E view \in {"creating", "deleting"} :
          Begin(v, t, pc, view)
    BY <1>1 DEF StartCreate, StartDelete
  <2>2. PICK view \in {"creating", "deleting"} : Begin(v, t, pc, view)
    BY <2>1
  <2> DEFINE c == [Idle EXCEPT !.pc = pc, !.vol = v, !.live = TRUE]
  <2>3. Idle \in Calls
    BY IdleOK
  <2>4. c \in Calls
    BY <2>3 DEF Calls, CreateSteps, DeleteSteps
  <2>5. c.pc = pc /\ c.vol = v /\ c.claim = NoName
    BY DEF Idle
  <2>6. call' = [call EXCEPT ![t] = c]
    BY <2>2 DEF Begin
  <2> HIDE DEF c
  <2>7. CallOK(c)
    BY <2>5 DEF CallOK
  <2>8. faults' \in 0..MaxFaults
    BY <1>0, <2>2 DEF Begin, TypeOK
  <2> QED BY <2>2, <2>4, <2>6, <2>7, <2>8, CallInv DEF Begin
<1>2. CASE SavePV(v) \/ ReleaseClaim(v) \/ RemovePV(v)
  <2>1. /\ pv' \in [VolumeIDs -> {Absent} \cup {VolumeContext(w) : w \in Volumes}]
        /\ prov' \in [Volumes -> {"pending", "creating", "created", "rejected",
                                  "bound", "released", "deleting", "gone"}]
    <3>1. /\ pv \in [VolumeIDs -> {Absent} \cup {VolumeContext(w) : w \in Volumes}]
          /\ prov \in [Volumes -> {"pending", "creating", "created", "rejected",
                                   "bound", "released", "deleting", "gone"}]
      BY <1>0 DEF TypeOK
    <3>2. PICK a \in {Absent, VolumeContext(v)} :
            pv' = pv \/ pv' = [pv EXCEPT ![VolumeID(v)] = a]
      BY <1>2 DEF SavePV, ReleaseClaim, RemovePV
    <3>3. PICK view \in {"bound", "released"} :
            prov' = prov \/ prov' = [prov EXCEPT ![v] = view]
      BY <1>2 DEF SavePV, ReleaseClaim, RemovePV
    <3>4. a \in {Absent} \cup {VolumeContext(w) : w \in Volumes}
      OBVIOUS
    <3> QED BY <3>1, <3>2, <3>3, <3>4
  <2>2. UNCHANGED <<defaults, everDefault, unlisted, dataPVC, call, faults, changes>>
    BY <1>2 DEF SavePV, ReleaseClaim, RemovePV
  <2>3. TypeOK'
    BY <2>1, <2>2 DEF TypeOK, IInv
  <2>4. \A t \in Threads : CallOK(call[t])'
    BY <2>2 DEF IInv, CallOK, ClassesFor
  <2>5. ASSUME NEW w \in Volumes PROVE VolumeOK(w)'
    <3>1. VolumeOK(w) /\ ClassesFor(w)' = ClassesFor(w) /\ dataPVC' = dataPVC
      BY <2>2 DEF IInv, ClassesFor
    <3>2. CASE w = v
      BY <1>0, <1>2, <3>1, <3>2 DEF VolumeOK, SavePV, ReleaseClaim, RemovePV, TypeOK
    <3>3. CASE w # v
      <4>1. VolumeID(w) # VolumeID(v) /\ VolumeID(w) \in VolumeIDs
        BY <3>3, VolumeIDInjective DEF VolumeIDs
      <4>2. prov'[w] = prov[w] /\ pv'[VolumeID(w)] = pv[VolumeID(w)]
        BY <1>0, <1>2, <3>3, <4>1 DEF SavePV, ReleaseClaim, RemovePV, TypeOK
      <4> QED BY <3>1, <4>2 DEF VolumeOK
    <3> QED BY <3>2, <3>3
  <2> QED BY <2>3, <2>4, <2>5 DEF IInv
<1> QED BY <1>1, <1>2 DEF Provisioner

\* Every step keeps the invariant.
LEMMA NextInv == IInv /\ [Next]_vars => IInv'
<1> SUFFICES ASSUME IInv, [Next]_vars PROVE IInv'
  OBVIOUS
<1>0. TypeOK /\ call \in [Threads -> Calls]
  BY DEF IInv, TypeOK
<1>1. ASSUME NEW t \in Threads, Handler(t) PROVE IInv'
  BY <1>1, CreateInv, DeleteInv DEF Handler
<1>2. ASSUME NEW t \in Threads, ProvisionerTimeout(t) PROVE IInv'
  <2> DEFINE c == [call[t] EXCEPT !.live = FALSE]
  <2>1. call[t] \in Calls /\ CallOK(call[t]) /\ call[t].live
    BY <1>0, <1>2 DEF IInv, ProvisionerTimeout
  <2>2. PICK w \in Volumes : w = call[t].vol
    BY <2>1 DEF CallOK
  <2>3. c \in Calls /\ c.pc = call[t].pc /\ c.vol = w /\ c.claim = call[t].claim
        /\ c.class = call[t].class
    BY <2>1, <2>2 DEF Calls
  <2>4. call' = [call EXCEPT ![t] = c]
    BY <1>0, <1>2 DEF ProvisionerTimeout
  <2> HIDE DEF c
  <2>5. CallOK(c)
    BY <2>1, <2>2, <2>3 DEF CallOK
  <2>6. PICK view : view = Again(prov[w])
    OBVIOUS
  <2>7. prov' = [prov EXCEPT ![w] = view]
    BY <1>2, <2>2, <2>6 DEF ProvisionerTimeout
  <2>8. prov[w] \in {"pending", "creating", "created", "rejected", "bound",
                     "released", "deleting", "gone"}
    BY <1>0 DEF TypeOK
  <2>9. faults' \in 0..MaxFaults
    BY <1>0, <1>2, FaultCount DEF ProvisionerTimeout
  <2>10. CASE view = "bound"
    <3>1. prov' = prov
      BY <1>0, <2>6, <2>7, <2>8, <2>10 DEF Again, TypeOK
    <3> QED BY <1>2, <2>3, <2>4, <2>5, <2>9, <3>1, CallInv DEF ProvisionerTimeout
  <2>11. CASE view # "bound"
    <3>1. view \in {"pending", "rejected", "released", "gone"}
      BY <2>6, <2>8, <2>11 DEF Again
    <3> QED BY <1>2, <2>3, <2>4, <2>5, <2>7, <2>9, <3>1, CallInv
            DEF ProvisionerTimeout
  <2> QED BY <2>10, <2>11
<1>3. ASSUME NEW v \in Volumes, Provisioner(v) \/ ReleaseClaim(v) PROVE IInv'
  BY <1>3, ProvisionerInv
<1>4. CASE ControllerRestart
  <2>1. call' \in [Threads -> Calls] /\ \A t \in Threads : call'[t] = Idle
    BY <1>4, IdleOK DEF ControllerRestart
  <2>2. ASSUME NEW v \in Volumes
        PROVE  /\ prov'[v] \in {"pending", "rejected", "bound", "released", "gone"}
               /\ prov'[v] = "bound" => prov[v] = "bound"
    <3>1. prov[v] \in {"pending", "creating", "created", "rejected", "bound",
                       "released", "deleting", "gone"}
      BY <1>0 DEF TypeOK
    <3> QED BY <1>4, <3>1 DEF ControllerRestart, Again
  <2>3. prov' \in [Volumes -> {"pending", "creating", "created", "rejected",
                               "bound", "released", "deleting", "gone"}]
    BY <1>4, <2>2 DEF ControllerRestart
  <2>4. faults' \in 0..MaxFaults
    BY <1>0, <1>4, FaultCount DEF ControllerRestart
  <2>5. UNCHANGED <<defaults, everDefault, unlisted, dataPVC, pv, changes>>
    BY <1>4 DEF ControllerRestart
  <2>6. TypeOK'
    BY <2>1, <2>3, <2>4, <2>5 DEF TypeOK, IInv
  <2>7. \A t \in Threads : CallOK(call[t])'
    <3>1. CallOK(Idle)'
      BY DEF CallOK, Idle
    <3> QED BY <2>1, <3>1 DEF CallOK
  <2>8. ASSUME NEW v \in Volumes PROVE VolumeOK(v)'
    BY <2>2, <2>5 DEF IInv, VolumeOK, ClassesFor
  <2> QED BY <2>6, <2>7, <2>8 DEF IInv
<1>5. CASE ChangeDefault
  <2>1. /\ defaults' \subseteq ClassNames
        /\ everDefault' = everDefault \cup Choice(defaults')
        /\ UNCHANGED <<unlisted, dataPVC, pv, prov, call, faults>>
    <3>1. PICK D \in (SUBSET ClassNames) \ {defaults} :
            defaults' = D /\ everDefault' = everDefault \cup Choice(D)
      BY <1>5 DEF ChangeDefault
    <3> QED BY <1>5, <3>1 DEF ChangeDefault
  <2>2. changes' \in 0..MaxChanges
    <3>1. changes \in 0..MaxChanges /\ MaxChanges \in Nat
      BY <1>0, BoundsAssumption DEF BoundsAssumption, TypeOK
    <3> QED BY <1>5, <3>1 DEF ChangeDefault
  <2>3. TypeOK'
    BY <1>0, <2>1, <2>2 DEF TypeOK, Choice
  <2>4. ASSUME NEW v PROVE ClassesFor(v) \subseteq ClassesFor(v)'
    BY <2>1 DEF ClassesFor
  <2>5. ASSUME NEW t \in Threads PROVE CallOK(call[t])'
    <3>1. PICK x : x = call[t] /\ CallOK(x)
      BY DEF IInv
    <3>2. call'[t] = x
      BY <2>1, <3>1
    <3>3. CallOK(x)'
      <4>1. PICK w : w = x.vol
        OBVIOUS
      <4>2. ClassesFor(w) \subseteq ClassesFor(w)'
        BY <2>4
      <4> QED BY <3>1, <4>1, <4>2 DEF CallOK
    <3> QED BY <3>2, <3>3 DEF CallOK
  <2>6. ASSUME NEW v \in Volumes PROVE VolumeOK(v)'
    BY <2>1, <2>4 DEF IInv, VolumeOK
  <2> QED BY <2>1, <2>3, <2>5, <2>6 DEF IInv
<1>6. CASE UNCHANGED vars
  BY <1>6 DEF vars, IInv, TypeOK, CallOK, VolumeOK, ClassesFor
<1> QED BY <1>1, <1>2, <1>3, <1>4, <1>5, <1>6 DEF Next, Settled

-----------------------------------------------------------------------------
(* The theorems *)

\* The invariant holds whatever the provisioner and the administrators do.
THEOREM ControllerInvariant == Spec => []IInv
BY InitInv, NextInv, PTL DEF Spec

\* The variables stay in their types (controllerserver.go).
THEOREM ControllerTypes == Spec => []TypeOK
<1>1. IInv => TypeOK
  BY DEF IInv
<1> QED BY <1>1, ControllerInvariant, PTL

\* The PV of a bound claim leads to data that exists, for any number of
\* retries, abandoned calls and restarts (controllerserver.go:144-166).
THEOREM BoundPVHasData == Spec => []PVHasData
<1>1. ASSUME IInv PROVE PVHasData
  <2> SUFFICES ASSUME NEW v \in Volumes, prov[v] = "bound",
                      NEW id \in DataPVCsOf(VolumeID(v))
               PROVE  id \in VolumeIDs /\ dataPVC[id] # Absent
    BY DEF PVHasData
  <2>1. VolumeOK(v) /\ VolumeContext(v) # Absent
    BY <1>1, NoPVAssumption DEF IInv, NoPVAssumption
  <2>2. id = VolumeID(v)
    BY <2>1, ContextNamesData DEF VolumeOK, DataPVCsOf
  <2> QED BY <2>1, <2>2 DEF VolumeOK, VolumeIDs
<1> QED BY <1>1, ControllerInvariant, PTL

\* Two claims never export the same data (controllerserver.go:91-92).
THEOREM ClaimsOwnTheirData == Spec => []OwnData
<1>1. ASSUME IInv PROVE OwnData
  <2> SUFFICES ASSUME NEW v \in Volumes, NEW w \in Volumes, v # w,
                      prov[v] = "bound", prov[w] = "bound"
               PROVE  /\ pv[VolumeID(v)] # Absent
                      /\ DataPVCsOf(VolumeID(v)) \cap DataPVCsOf(VolumeID(w)) = {}
    BY DEF OwnData
  <2>1. /\ VolumeOK(v) /\ VolumeContext(v) # Absent
        /\ VolumeOK(w) /\ VolumeContext(w) # Absent
    BY <1>1, NoPVAssumption DEF IInv, NoPVAssumption
  <2>2. DataPVCsOf(VolumeID(v)) = {VolumeID(v)}
        /\ DataPVCsOf(VolumeID(w)) = {VolumeID(w)}
    BY <2>1, ContextNamesData DEF VolumeOK, DataPVCsOf
  <2> QED BY <2>1, <2>2, VolumeIDInjective DEF VolumeOK
<1> QED BY <1>1, ControllerInvariant, PTL

\* The data PVC has a class that its request names, or that was the default,
\* however often the call was repeated (controllerserver.go:60-107 and 132).
THEOREM RequestedClassHonoured == Spec => []DataClassHonoured
<1>1. IInv => DataClassHonoured
  BY DEF IInv, VolumeOK, DataClassHonoured
<1> QED BY <1>1, ControllerInvariant, PTL

-----------------------------------------------------------------------------
(* The controller service implements ClaimService. *)

DoneWith == {"released", "deleting", "gone"}

\* A provisioner that waits for a call waits for that kind of call, and for
\* one call on each claim.
CallsAgree ==
  /\ \A t \in Threads : call[t].live =>
       \/ call[t].pc \in CreateSteps /\ prov[call[t].vol] = "creating"
       \/ call[t].pc \in DeleteSteps /\ prov[call[t].vol] = "deleting"
  /\ \A t, u \in Threads : call[t].live /\ call[u].live /\ call[t].vol = call[u].vol => t = u

\* The data of a claim stays when the claim is released: DeleteVolume does not
\* find it, and no late CreateVolume makes it once more.
DataKept == \A v \in Volumes : prov[v] \in DoneWith => dataPVC[VolumeID(v)] # Absent

\* What the abstract service sees of the state.
DataOf == [v \in Volumes |-> dataPVC[VolumeID(v)]]
Exports ==
  [v \in Volumes |-> IF prov[v] # "bound" THEN {}
                     ELSE {w \in Volumes : VolumeID(w) \in DataPVCsOf(VolumeID(v))}]
Released == {v \in Volumes : prov[v] \in DoneWith}

RInv == IInv /\ CallsAgree /\ DataKept

\* The steps of one call for volume v: it goes on as the same kind of call, or
\* tells a provisioner that waits the outcome; the data is made at most once.
LEMMA HandlerShape ==
  ASSUME IInv, NEW t \in Threads, Handler(t), NEW v \in Volumes, v = call[t].vol
  PROVE  /\ \A u \in Threads : u # t => call'[u] = call[u]
         /\ \/ /\ UNCHANGED prov /\ call'[t].vol = v /\ call'[t].live = call[t].live
               /\ \/ call[t].pc \in CreateSteps /\ call'[t].pc \in CreateSteps
                  \/ call[t].pc \in DeleteSteps /\ call'[t].pc \in DeleteSteps
            \/ /\ call'[t] = Idle
               /\ \/ ~ call[t].live /\ UNCHANGED prov
                  \/ /\ call[t].live /\ call[t].pc \in CreateSteps
                     /\ \E view \in {"pending", "created", "rejected"} :
                          prov' = [prov EXCEPT ![v] = view]
                  \/ /\ call[t].live /\ call[t].pc \in DeleteSteps
                     /\ prov' = [prov EXCEPT ![v] = "gone"]
         /\ \/ UNCHANGED dataPVC /\ (UNCHANGED unlisted \/ unlisted' = unlisted \cup {v})
            \/ /\ dataPVC[VolumeID(v)] = Absent /\ UNCHANGED unlisted
               /\ \E class \in ClassesFor(v) :
                    dataPVC' = [dataPVC EXCEPT ![VolumeID(v)] = class]
         /\ UNCHANGED <<defaults, everDefault, pv, changes>>
<1>0. /\ call \in [Threads -> Calls] /\ call[t] \in Calls /\ CallOK(call[t])
      /\ TypeOK /\ call[t].claim = NoName
  BY DEF IInv, TypeOK, CallOK
<1>1. ASSUME NEW view, Answer(t, view)
      PROVE  /\ \A u \in Threads : u # t => call'[u] = call[u]
             /\ call'[t] = Idle
             /\ \/ ~ call[t].live /\ UNCHANGED prov
                \/ call[t].live /\ prov' = [prov EXCEPT ![v] = view]
  BY <1>0, <1>1 DEF Answer
<1>2. ASSUME NEW c, call' = [call EXCEPT ![t] = c]
      PROVE  (\A u \in Threads : u # t => call'[u] = call[u]) /\ call'[t] = c
  BY <1>0, <1>2
<1>3. CASE Validate(t)
  <2>1. CASE Answer(t, "rejected")
    BY <1>1, <1>3, <2>1 DEF Validate, CreateSteps
  <2>2. ASSUME NEW class, UNCHANGED prov,
               call' = [call EXCEPT ![t].class = class,
                          ![t].pc = IF class = "" THEN "listSC" ELSE "getDataPVC"]
        PROVE  /\ \A u \in Threads : u # t => call'[u] = call[u]
               /\ call'[t].pc \in CreateSteps /\ call'[t].vol = v
               /\ call'[t].live = call[t].live
    <3> DEFINE pc == IF class = "" THEN "listSC" ELSE "getDataPVC"
               c == [call[t] EXCEPT !.class = class, !.pc = pc]
    <3>1. call' = [call EXCEPT ![t] = c]
      BY <1>0, <2>2
    <3>2. pc \in CreateSteps
      BY DEF CreateSteps
    <3> HIDE DEF pc
    <3>3. c.pc = pc /\ c.vol = v /\ c.live = call[t].live
      BY <1>0 DEF Calls
    <3> HIDE DEF c
    <3> QED BY <1>2, <3>1, <3>2, <3>3
  <2> QED BY <1>3, <2>1, <2>2 DEF Validate, CreateSteps
<1>4. CASE ListSC(t)
  <2>1. \A class : LET c == [call[t] EXCEPT !.pc = "getDataPVC", !.class = class] IN
          c.pc = "getDataPVC" /\ c.vol = v /\ c.live = call[t].live
    BY <1>0 DEF Calls
  <2>2. PICK class : call' = [call EXCEPT ![t] =
                                [call[t] EXCEPT !.pc = "getDataPVC", !.class = class]]
    <3>1. CASE call' = [call EXCEPT ![t].pc = "getDataPVC", ![t].class = FirstDefault]
      BY <1>0, <3>1
    <3>2. CASE call' = [call EXCEPT ![t].pc = "getDataPVC"]
      <4>1. [call[t] EXCEPT !.pc = "getDataPVC"] =
              [call[t] EXCEPT !.pc = "getDataPVC", !.class = call[t].class]
        BY <1>0 DEF Calls
      <4> QED BY <1>0, <3>2, <4>1
    <3> QED BY <1>4, <3>1, <3>2 DEF ListSC
  <2> QED BY <1>2, <1>4, <2>1, <2>2 DEF ListSC, CreateSteps
<1>5. ASSUME Goto(t, "createDataPVC")
      PROVE  /\ \A u \in Threads : u # t => call'[u] = call[u]
             /\ UNCHANGED prov /\ call'[t].pc = "createDataPVC" /\ call'[t].vol = v
             /\ call'[t].live = call[t].live
  <2>1. LET c == [call[t] EXCEPT !.pc = "createDataPVC"] IN
          c.pc = "createDataPVC" /\ c.vol = v /\ c.live = call[t].live
    BY <1>0 DEF Calls
  <2> QED BY <1>0, <1>2, <1>5, <2>1 DEF Goto
<1>6. CASE GetDataPVC(t)
  BY <1>1, <1>5, <1>6 DEF GetDataPVC, CreateSteps
<1>7. CASE CreateDataPVC(t)
  <2>1. call[t].class \in ClassesFor(v)
    BY <1>0, <1>7 DEF CreateDataPVC, CallOK
  <2> QED BY <1>1, <1>7, <2>1 DEF CreateDataPVC, CreateFailed, CreateSteps
<1>8. CASE GetPV(t)
  <2>1. \A claim : LET c == [call[t] EXCEPT !.pc = "deleteDataPVC", !.claim = claim] IN
          c.pc = "deleteDataPVC" /\ c.vol = v /\ c.live = call[t].live
    BY <1>0 DEF Calls
  <2>2. \A claim : [call EXCEPT ![t].pc = "deleteDataPVC", ![t].claim = claim] =
          [call EXCEPT ![t] = [call[t] EXCEPT !.pc = "deleteDataPVC", !.claim = claim]]
    BY <1>0
  <2>3. CASE Answer(t, "gone")
    BY <1>1, <1>8, <2>3 DEF GetPV, DeleteSteps
  <2>4. ASSUME NEW claim, UNCHANGED prov,
               call' = [call EXCEPT ![t].pc = "deleteDataPVC", ![t].claim = claim]
        PROVE  /\ \A u \in Threads : u # t => call'[u] = call[u]
               /\ call'[t].pc = "deleteDataPVC" /\ call'[t].vol = v
               /\ call'[t].live = call[t].live
    <3> DEFINE c == [call[t] EXCEPT !.pc = "deleteDataPVC", !.claim = claim]
    <3>1. c.pc = "deleteDataPVC" /\ c.vol = v /\ c.live = call[t].live
      BY <2>1
    <3>2. call' = [call EXCEPT ![t] = c]
      BY <2>2, <2>4
    <3> HIDE DEF c
    <3> QED BY <1>2, <2>4, <3>1, <3>2
  <2>5. CASE UNCHANGED prov
             /\ call' = [call EXCEPT ![t].pc = "deleteDataPVC",
                           ![t].claim = Lookup(pv[VolumeID(v)], "nfsVolumeClaim")]
    <3>1. PICK claim : claim = Lookup(pv[VolumeID(v)], "nfsVolumeClaim")
      OBVIOUS
    <3> QED BY <1>8, <2>4, <2>5, <3>1 DEF GetPV, DeleteSteps
  <2> QED BY <1>8, <2>3, <2>5 DEF GetPV
<1>9. CASE DeleteDataPVC(t)
  <2>1. ASSUME dataPVC' = [id \in VolumeIDs |->
                 IF id = call[t].claim THEN Absent ELSE dataPVC[id]]
        PROVE  dataPVC' = dataPVC
    BY <1>0, <2>1, NoNameIsNone DEF TypeOK
  <2> QED BY <1>1, <1>9, <2>1 DEF DeleteDataPVC, DeleteSteps
<1> QED BY <1>3, <1>4, <1>6, <1>7, <1>8, <1>9 DEF Handler

\* The PV of a claim leads to the data of the claim alone.
LEMMA OwnExport ==
  ASSUME NEW v \in Volumes
  PROVE  {w \in Volumes :
            VolumeID(w) \in Parsed(Entries(VolumeContext(v)), "datavolumeclaim", NoName)} = {v}
BY ContextNamesData, VolumeIDInjective

\* So does what a bound claim exports.
LEMMA BoundExports ==
  ASSUME IInv, NEW v \in Volumes, prov[v] = "bound" PROVE Exports[v] = {v}
<1>1. pv[VolumeID(v)] = VolumeContext(v) /\ VolumeContext(v) # Absent
  BY NoPVAssumption DEF IInv, VolumeOK, NoPVAssumption
<1> QED BY <1>1, OwnExport DEF Exports, DataPVCsOf

\* A step that leaves the bound claims and the PVs alone keeps the exports.
LEMMA ExportsStay ==
  ASSUME pv' = pv, \A v \in Volumes : prov'[v] = "bound" <=> prov[v] = "bound"
  PROVE  Exports' = Exports
BY DEF Exports, DataPVCsOf

\* A step of a call keeps the agreement, and makes the data at most.
LEMMA HandlerRefines ==
  ASSUME RInv, NEW t \in Threads, Handler(t)
  PROVE  /\ CallsAgree' /\ DataKept'
         /\ Service!Next \/ UNCHANGED Service!vars
<1>0. /\ IInv /\ TypeOK /\ CallOK(call[t]) /\ prov \in [Volumes -> {"pending",
           "creating", "created", "rejected", "bound", "released", "deleting", "gone"}]
      /\ dataPVC \in [VolumeIDs -> ClassNames \cup {"", Absent}]
  BY DEF RInv, IInv, TypeOK
<1>1. call[t].pc \in CreateSteps \cup DeleteSteps
  BY DEF Handler, Validate, ListSC, GetDataPVC, CreateDataPVC, GetPV, DeleteDataPVC,
     CreateSteps, DeleteSteps
<1>2. PICK v \in Volumes : v = call[t].vol
  BY <1>0, <1>1 DEF CallOK, CreateSteps, DeleteSteps
<1>3. /\ \A u \in Threads : u # t => call'[u] = call[u]
      /\ \/ /\ UNCHANGED prov /\ call'[t].vol = v /\ call'[t].live = call[t].live
            /\ \/ call[t].pc \in CreateSteps /\ call'[t].pc \in CreateSteps
               \/ call[t].pc \in DeleteSteps /\ call'[t].pc \in DeleteSteps
         \/ /\ call'[t] = Idle
            /\ \/ ~ call[t].live /\ UNCHANGED prov
               \/ /\ call[t].live /\ call[t].pc \in CreateSteps
                  /\ \E view \in {"pending", "created", "rejected"} :
                       prov' = [prov EXCEPT ![v] = view]
               \/ /\ call[t].live /\ call[t].pc \in DeleteSteps
                  /\ prov' = [prov EXCEPT ![v] = "gone"]
  BY <1>0, <1>2, HandlerShape
<1>4. /\ \/ UNCHANGED dataPVC /\ (UNCHANGED unlisted \/ unlisted' = unlisted \cup {v})
         \/ /\ dataPVC[VolumeID(v)] = Absent /\ UNCHANGED unlisted
            /\ \E class \in ClassesFor(v) :
                 dataPVC' = [dataPVC EXCEPT ![VolumeID(v)] = class]
      /\ UNCHANGED <<defaults, everDefault, pv, changes>>
  BY <1>0, <1>2, HandlerShape
<1>5. CreateSteps \cap DeleteSteps = {} /\ Idle.live = FALSE
  BY DEF CreateSteps, DeleteSteps, Idle
<1>6. CallsAgree'
  <2>1. CASE UNCHANGED prov
    BY <1>2, <1>3, <1>5, <2>1 DEF RInv, CallsAgree
  <2>2. CASE call[t].live /\ call'[t] = Idle
    <3>1. \A w \in Volumes : w # v => prov'[w] = prov[w]
      BY <1>0, <1>3
    <3>2. ASSUME NEW u \in Threads, call'[u].live
          PROVE  u # t /\ call'[u] = call[u] /\ call[u].vol \in Volumes /\ call[u].vol # v
      BY <1>2, <1>3, <1>5, <2>2, <3>2 DEF RInv, IInv, CallOK, CallsAgree
    <3> QED BY <3>1, <3>2 DEF RInv, CallsAgree
  <2> QED BY <1>3, <2>1, <2>2
<1>7. \A w \in Volumes : (prov'[w] = "bound" <=> prov[w] = "bound")
                         /\ (prov'[w] \in DoneWith <=> prov[w] \in DoneWith)
  <2>1. call[t].live => \/ call[t].pc \in CreateSteps /\ prov[v] = "creating"
                        \/ call[t].pc \in DeleteSteps /\ prov[v] = "deleting"
    BY <1>2 DEF RInv, CallsAgree
  <2> QED BY <1>0, <1>3, <1>5, <2>1 DEF DoneWith
<1>8. Exports' = Exports /\ Released' = Released
  BY <1>4, <1>7, ExportsStay DEF Released
<1>9. Absent \notin ClassesFor(v) /\ VolumeID(v) \in VolumeIDs
  BY <1>0, ClassesAreClasses DEF VolumeIDs
<1>10. DataKept'
  <2>1. \A w \in Volumes : dataPVC[VolumeID(w)] # Absent => dataPVC'[VolumeID(w)] # Absent
    <3>1. CASE UNCHANGED dataPVC
      BY <3>1
    <3>2. ASSUME NEW class \in ClassesFor(v),
                 dataPVC' = [dataPVC EXCEPT ![VolumeID(v)] = class]
          PROVE  \A w \in Volumes :
                   dataPVC[VolumeID(w)] # Absent => dataPVC'[VolumeID(w)] # Absent
      BY <1>0, <1>9, <3>2 DEF VolumeIDs
    <3> QED BY <1>4, <3>1, <3>2
  <2> QED BY <1>7, <2>1 DEF RInv, DataKept
<1>11. Service!Next \/ UNCHANGED Service!vars
  <2>1. CASE UNCHANGED dataPVC /\ (UNCHANGED unlisted \/ unlisted' = unlisted \cup {v})
    <3>1. DataOf' = DataOf
      BY <2>1 DEF DataOf
    <3>2. CASE UNCHANGED unlisted
      BY <1>4, <1>8, <3>1, <3>2 DEF Service!vars, DataOf, Exports, Released, DoneWith
    <3>3. CASE unlisted' = unlisted \cup {v}
      <4>1. Service!Hide(v)
        BY <1>4, <1>8, <3>1, <3>3 DEF Service!Hide, DataOf, Exports, Released, DoneWith
      <4> QED BY <4>1 DEF Service!Next
    <3> QED BY <2>1, <3>2, <3>3
  <2>2. ASSUME dataPVC[VolumeID(v)] = Absent, NEW class \in ClassesFor(v), UNCHANGED unlisted,
               dataPVC' = [dataPVC EXCEPT ![VolumeID(v)] = class]
        PROVE  Service!Next
    <3>1. DataOf' = [DataOf EXCEPT ![v] = class]
      <4>1. ASSUME NEW w \in Volumes, w # v PROVE VolumeID(w) # VolumeID(v)
        BY <4>1, VolumeIDInjective
      <4>2. ASSUME NEW w \in Volumes
            PROVE  dataPVC'[VolumeID(w)] = IF w = v THEN class ELSE dataPVC[VolumeID(w)]
        <5>1. VolumeID(w) \in VolumeIDs
          BY DEF VolumeIDs
        <5> QED BY <1>0, <1>9, <2>2, <4>1, <5>1
      <4> QED BY <4>2 DEF DataOf
    <3>2. v \notin Released /\ DataOf[v] = Absent
      BY <2>2 DEF RInv, DataKept, Released, DataOf
    <3>3. class \in Service!Allowed(v)
      BY DEF Service!Allowed, ClassesFor
    <3>4. Service!Provide(v)
      BY <1>4, <1>8, <2>2, <3>1, <3>2, <3>3 DEF Service!Provide, DataOf, Exports, Released, DoneWith
    <3> QED BY <3>4 DEF Service!Next
  <2> QED BY <1>4, <2>1, <2>2
<1> QED BY <1>6, <1>10, <1>11

\* A step of the provisioner that begins a call, or gives up on one.
LEMMA ProvisionerSilent ==
  ASSUME IInv, UNCHANGED <<everDefault, unlisted, dataPVC, pv>>,
         \A v \in Volumes : /\ prov'[v] = "bound" <=> prov[v] = "bound"
                            /\ prov'[v] \in DoneWith <=> prov[v] \in DoneWith
  PROVE  UNCHANGED Service!vars
<1>1. Exports' = Exports
  BY ExportsStay
<1> QED BY <1>1 DEF Service!vars, Exports, DoneWith

\* The provisioner's steps on claim v, and the end of the claim.
LEMMA ProvisionerRefines ==
  ASSUME RInv, NEW v \in Volumes, Provisioner(v) \/ ReleaseClaim(v)
  PROVE  /\ CallsAgree' /\ DataKept'
         /\ Service!Next \/ UNCHANGED Service!vars
<1>0. /\ IInv /\ VolumeOK(v) /\ VolumeID(v) \in VolumeIDs
      /\ prov \in [Volumes -> {"pending",
           "creating", "created", "rejected", "bound", "released", "deleting", "gone"}]
      /\ pv \in [VolumeIDs -> {Absent} \cup {VolumeContext(w) : w \in Volumes}]
      /\ call \in [Threads -> Calls]
  BY DEF RInv, IInv, TypeOK, VolumeIDs
<1>1. ASSUME NEW t \in Threads, StartCreate(v, t) \/ StartDelete(v, t)
      PROVE  CallsAgree' /\ DataKept' /\ UNCHANGED Service!vars
  <2>1. PICK pc \in {"validate", "getPV"} : \E view \in {"creating", "deleting"} :
          /\ Begin(v, t, pc, view)
          /\ \/ pc \in CreateSteps /\ view = "creating" /\ prov[v] \in {"pending", "rejected"}
             \/ pc \in DeleteSteps /\ view = "deleting" /\ prov[v] = "released"
    BY <1>1 DEF StartCreate, StartDelete, CreateSteps, DeleteSteps
  <2>2. PICK view \in {"creating", "deleting"} :
          /\ Begin(v, t, pc, view)
          /\ \/ pc \in CreateSteps /\ view = "creating" /\ prov[v] \in {"pending", "rejected"}
             \/ pc \in DeleteSteps /\ view = "deleting" /\ prov[v] = "released"
    BY <2>1
  <2> DEFINE c == [Idle EXCEPT !.pc = pc, !.vol = v, !.live = TRUE]
  <2>3. c.pc = pc /\ c.vol = v
    BY DEF Idle
  <2>4. call'[t] = c /\ \A u \in Threads : u # t => call'[u] = call[u]
    BY <1>0, <2>2 DEF Begin
  <2> HIDE DEF c
  <2>5. /\ prov'[v] = view /\ \A w \in Volumes : w # v => prov'[w] = prov[w]
        /\ UNCHANGED <<everDefault, unlisted, dataPVC, pv>>
    BY <1>0, <2>2 DEF Begin
  <2>6. ASSUME NEW u \in Threads, u # t, call'[u].live
        PROVE  call'[u] = call[u] /\ call[u].vol \in Volumes /\ call[u].vol # v
    BY <2>2, <2>4, <2>6 DEF RInv, IInv, CallOK, CallsAgree
  <2>7. CallsAgree'
    BY <2>2, <2>3, <2>4, <2>5, <2>6 DEF RInv, CallsAgree
  <2>8. \A w \in Volumes : /\ prov'[w] = "bound" <=> prov[w] = "bound"
                           /\ prov'[w] \in DoneWith <=> prov[w] \in DoneWith
    BY <2>2, <2>5 DEF DoneWith
  <2>9. DataKept'
    BY <2>5, <2>8 DEF RInv, DataKept
  <2> QED BY <1>0, <2>5, <2>7, <2>8, <2>9, ProvisionerSilent
<1>2. ASSUME ~ \E t \in Threads : call[t].live /\ call[t].vol = v,
             \A w \in Volumes : w # v => prov'[w] = prov[w],
             UNCHANGED <<dataPVC, call>>,
             prov'[v] \in DoneWith => dataPVC[VolumeID(v)] # Absent
      PROVE  CallsAgree' /\ DataKept'
  <2>1. CallsAgree'
    BY <1>2 DEF RInv, IInv, CallOK, CallsAgree
  <2> QED BY <1>2, <2>1 DEF RInv, DataKept
<1>3. prov[v] \notin {"creating", "deleting"} =>
        ~ \E t \in Threads : call[t].live /\ call[t].vol = v
  BY DEF RInv, CallsAgree
<1>4. CASE SavePV(v)
  <2>1. /\ prov'[v] = "bound" /\ \A w \in Volumes : w # v => prov'[w] = prov[w]
        /\ prov[v] = "created" /\ pv'[VolumeID(v)] = VolumeContext(v)
        /\ UNCHANGED <<everDefault, unlisted, dataPVC, call>>
    BY <1>0, <1>4 DEF SavePV
  <2>2. CallsAgree' /\ DataKept'
    BY <1>2, <1>3, <2>1 DEF DoneWith
  <2>3. DataOf' = DataOf /\ DataOf[v] # Absent
    BY <1>0, <2>1 DEF DataOf, VolumeOK
  <2>4. Released' = Released /\ v \notin Released
    BY <2>1 DEF Released, DoneWith
  <2>5. Exports' = [Exports EXCEPT ![v] = {v}]
    <3>1. ASSUME NEW w \in Volumes, w # v PROVE Exports'[w] = Exports[w]
      <4>1. VolumeID(w) # VolumeID(v) /\ VolumeID(w) \in VolumeIDs
        BY <3>1, VolumeIDInjective DEF VolumeIDs
      <4>2. pv'[VolumeID(w)] = pv[VolumeID(w)] /\ prov'[w] = prov[w]
        BY <1>0, <1>4, <2>1, <3>1, <4>1 DEF SavePV
      <4> QED BY <4>2 DEF Exports, DataPVCsOf
    <3>2. Exports'[v] = {v}
      <4>1. VolumeContext(v) # Absent
        BY NoPVAssumption DEF NoPVAssumption
      <4> QED BY <2>1, <4>1, OwnExport DEF Exports, DataPVCsOf
    <3> QED BY <3>1, <3>2 DEF Exports
  <2>6. Service!Bind(v)
    BY <2>1, <2>3, <2>4, <2>5 DEF Service!Bind, DataOf, Exports, Released, DoneWith
  <2> QED BY <2>2, <2>6 DEF Service!Next
<1>5. CASE ReleaseClaim(v)
  <2>1. /\ prov'[v] = "released" /\ \A w \in Volumes : w # v => prov'[w] = prov[w]
        /\ prov[v] = "bound" /\ UNCHANGED <<everDefault, unlisted, dataPVC, pv, call>>
    BY <1>0, <1>5 DEF ReleaseClaim
  <2>2. CallsAgree' /\ DataKept'
    BY <1>0, <1>2, <1>3, <2>1 DEF VolumeOK
  <2>3. Released' = Released \cup {v}
    BY <2>1 DEF Released, DoneWith
  <2>4. Exports' = [Exports EXCEPT ![v] = {}] /\ Exports[v] = {v}
    BY <1>0, <2>1, BoundExports DEF Exports, DataPVCsOf
  <2>5. Service!Release(v)
    BY <2>1, <2>3, <2>4 DEF Service!Release, DataOf, Exports, Released, DoneWith
  <2> QED BY <2>2, <2>5 DEF Service!Next
<1>6. CASE RemovePV(v)
  <2>1. prov[v] = "gone" /\ UNCHANGED <<everDefault, unlisted, dataPVC, call, prov>>
    BY <1>6 DEF RemovePV
  <2>2. CallsAgree' /\ DataKept'
    BY <2>1 DEF RInv, CallsAgree, DataKept
  <2>3. Exports' = Exports
    <3>1. ASSUME NEW w \in Volumes, prov[w] = "bound"
          PROVE  pv'[VolumeID(w)] = pv[VolumeID(w)]
      <4>1. VolumeID(w) # VolumeID(v) /\ VolumeID(w) \in VolumeIDs
        BY <2>1, <3>1, VolumeIDInjective DEF VolumeIDs
      <4> QED BY <1>0, <1>6, <4>1 DEF RemovePV
    <3> QED BY <2>1, <3>1 DEF Exports, DataPVCsOf
  <2> QED BY <2>1, <2>2, <2>3 DEF Service!vars, Exports
<1> QED BY <1>1, <1>4, <1>5, <1>6 DEF Provisioner

\* The sidecar gives up on a call, or everything restarts.
LEMMA GivingUpRefines ==
  ASSUME RInv, (\E t \in Threads : ProvisionerTimeout(t)) \/ ControllerRestart
  PROVE  CallsAgree' /\ DataKept' /\ UNCHANGED Service!vars
<1>0. /\ IInv /\ prov \in [Volumes -> {"pending",
           "creating", "created", "rejected", "bound", "released", "deleting", "gone"}]
      /\ call \in [Threads -> Calls] /\ Idle.live = FALSE
  BY DEF RInv, IInv, TypeOK, Idle
<1>1. \A v \in Volumes : /\ Again(prov[v]) = "bound" <=> prov[v] = "bound"
                         /\ Again(prov[v]) \in DoneWith <=> prov[v] \in DoneWith
  BY <1>0 DEF Again, DoneWith
<1>2. ASSUME NEW t \in Threads, ProvisionerTimeout(t)
      PROVE  CallsAgree' /\ DataKept' /\ UNCHANGED Service!vars
  <2>1. PICK v \in Volumes : v = call[t].vol
    BY <1>2 DEF RInv, IInv, CallOK, ProvisionerTimeout
  <2>2. ~ call'[t].live /\ \A u \in Threads : u # t => call'[u] = call[u]
    <3>1. [call[t] EXCEPT !.live = FALSE].live = FALSE
      BY <1>0 DEF Calls
    <3> QED BY <1>0, <1>2, <3>1 DEF ProvisionerTimeout
  <2>3. /\ prov'[v] = Again(prov[v]) /\ \A w \in Volumes : w # v => prov'[w] = prov[w]
        /\ call[t].live /\ UNCHANGED <<everDefault, unlisted, dataPVC, pv>>
    BY <1>0, <1>2, <2>1 DEF ProvisionerTimeout
  <2>4. ASSUME NEW u \in Threads, call'[u].live
        PROVE  u # t /\ call'[u] = call[u] /\ call[u].vol \in Volumes /\ call[u].vol # v
    BY <2>1, <2>2, <2>3, <2>4 DEF RInv, IInv, CallOK, CallsAgree
  <2>5. CallsAgree'
    BY <2>3, <2>4 DEF RInv, CallsAgree
  <2>6. \A w \in Volumes : /\ prov'[w] = "bound" <=> prov[w] = "bound"
                           /\ prov'[w] \in DoneWith <=> prov[w] \in DoneWith
    BY <1>1, <2>3
  <2>7. DataKept'
    BY <2>3, <2>6 DEF RInv, DataKept
  <2> QED BY <1>0, <2>3, <2>5, <2>6, <2>7, ProvisionerSilent
<1>3. CASE ControllerRestart
  <2>1. /\ \A t \in Threads : ~ call'[t].live
        /\ \A w \in Volumes : prov'[w] = Again(prov[w])
        /\ UNCHANGED <<everDefault, unlisted, dataPVC, pv>>
    BY <1>0, <1>3 DEF ControllerRestart
  <2>2. CallsAgree' /\ DataKept'
    BY <1>1, <2>1 DEF RInv, CallsAgree, DataKept
  <2> QED BY <1>0, <1>1, <2>1, <2>2, ProvisionerSilent
<1> QED BY <1>2, <1>3

\* Every step keeps the invariant, and is an abstract step or a stutter.
LEMMA RefineNext ==
  ASSUME RInv, [Next]_vars
  PROVE  RInv' /\ (Service!Next \/ UNCHANGED Service!vars)
<1>1. CASE ChangeDefault
  <2>1. everDefault \subseteq everDefault' /\ UNCHANGED <<unlisted, dataPVC, pv, prov, call>>
    BY <1>1 DEF ChangeDefault
  <2>2. CallsAgree' /\ DataKept'
    BY <2>1 DEF RInv, CallsAgree, DataKept
  <2>3. Exports' = Exports
    BY <2>1, ExportsStay
  <2>4. Service!Offer
    BY <2>1, <2>3 DEF Service!Offer, Exports
  <2> QED BY <2>2, <2>4, NextInv DEF RInv, Service!Next
<1>2. CASE UNCHANGED vars
  <2>1. CallsAgree' /\ DataKept'
    BY <1>2 DEF vars, RInv, CallsAgree, DataKept
  <2>2. Exports' = Exports
    BY <1>2, ExportsStay DEF vars
  <2>3. UNCHANGED Service!vars
    BY <1>2, <2>2 DEF vars, Service!vars, Exports
  <2> QED BY <2>1, <2>3, NextInv DEF RInv
<1>3. CASE \/ \E t \in Threads : Handler(t) \/ ProvisionerTimeout(t)
           \/ \E v \in Volumes : Provisioner(v) \/ ReleaseClaim(v)
           \/ ControllerRestart
  BY <1>3, HandlerRefines, ProvisionerRefines, GivingUpRefines, NextInv DEF RInv
<1> QED BY <1>1, <1>2, <1>3 DEF Next, Settled

\* Nothing is offered but the default classes, and no claim has anything.
LEMMA RefineInit == Init => RInv /\ Service!Init
<1> SUFFICES ASSUME Init PROVE RInv /\ Service!Init
  OBVIOUS
<1>1. CallsAgree /\ DataKept
  BY DEF Init, Idle, CallsAgree, DataKept, DoneWith
<1>2. \A v \in Volumes : VolumeID(v) \in VolumeIDs
  BY DEF VolumeIDs
<1>3. Service!Init
  BY <1>2 DEF Init, Choice, Service!Init
<1> QED BY <1>1, <1>3, InitInv DEF RInv

\* The controller service keeps its promise to the claims through any number
\* of retries, abandoned calls, restarts and failures: the data of a claim is
\* made once, in a class that the request allows, and stays as it is until the
\* claim is released; no late call makes data for a released claim; a bound
\* claim exports its own data and no other (controllerserver.go:44-194).
THEOREM ControllerServerImplementsClaims == Spec => ClaimsServed
<1>1. RInv /\ [Next]_vars => RInv'
  BY RefineNext
<1>2. RInv /\ [Next]_vars => [Service!Next]_(Service!vars)
  BY RefineNext
<1> QED BY <1>1, <1>2, RefineInit, PTL DEF Spec, ClaimsServed, Service!Spec

-----------------------------------------------------------------------------
(* What the promise is worth to a claim. *)

\* The steps of the abstract service, on what it sees of the state.
LEMMA ServiceSteps ==
  ASSUME Service!Next
  PROVE  \/ /\ everDefault \subseteq everDefault' /\ unlisted \subseteq unlisted'
            /\ UNCHANGED <<DataOf, Exports, Released>>
         \/ \E c \in Volumes :
              /\ UNCHANGED <<everDefault, unlisted>>
              /\ \/ /\ c \notin Released /\ DataOf[c] = Absent
                    /\ \E class \in Service!Allowed(c) : DataOf' = [DataOf EXCEPT ![c] = class]
                    /\ UNCHANGED <<Exports, Released>>
                 \/ /\ c \notin Released /\ DataOf[c] # Absent
                    /\ Exports' = [Exports EXCEPT ![c] = {c}]
                    /\ UNCHANGED <<DataOf, Released>>
                 \/ /\ Exports' = [Exports EXCEPT ![c] = {}] /\ Released' = Released \cup {c}
                    /\ UNCHANGED DataOf
                 \/ /\ c \in Released /\ DataOf' = [DataOf EXCEPT ![c] = Absent]
                    /\ UNCHANGED <<Exports, Released>>
BY DEF Service!Next, Service!Offer, Service!Hide, Service!Provide, Service!Bind, Service!Release,
       Service!Reclaim, DataOf, Exports, Released, DoneWith

\* The abstract service keeps it, whatever implements it: the classes that a
\* request allows only become more.
LEMMA ServiceKeepsPromise == Service!Spec => []Service!Promise
<1> DEFINE Fine(c) == /\ Exports[c] \subseteq {c}
                      /\ Exports[c] # {} => DataOf[c] # Absent /\ c \notin Released
                      /\ DataOf[c] # Absent => DataOf[c] \in Service!Allowed(c)
<1>1. Service!Promise <=> \A c \in Volumes : Fine(c)
  BY DEF Service!Promise, DataOf, Exports, Released, DoneWith
<1>2. Service!Init => Service!Promise
  BY DEF Service!Init, Service!Promise
<1>3. Service!Promise /\ [Service!Next]_(Service!vars) => Service!Promise'
  <2> SUFFICES ASSUME Service!Promise, [Service!Next]_(Service!vars)
               PROVE  Service!Promise'
    OBVIOUS
  <2>1. everDefault \subseteq everDefault' /\ unlisted \subseteq unlisted' =>
          \A c \in Volumes : Service!Allowed(c) \subseteq Service!Allowed(c)'
    BY DEF Service!Allowed
  <2>2. DOMAIN Exports = Volumes /\ DOMAIN DataOf = Volumes
    BY DEF Exports, DataOf
  <2>3. CASE UNCHANGED Service!vars
    <3>1. UNCHANGED <<everDefault, unlisted, DataOf, Exports, Released>>
      BY <2>3 DEF Service!vars, DataOf, Exports, Released, DoneWith
    <3>2. \A c \in Volumes : Fine(c)'
      <4> HIDE DEF Exports, DataOf, Released
      <4> QED BY <1>1, <2>1, <3>1
    <3> QED BY <3>2 DEF Service!Promise, DataOf, Exports, Released, DoneWith
  <2>4. CASE Service!Next
    <3>1. \A c \in Volumes : Fine(c)'
      <4> HIDE DEF Exports, DataOf, Released
      <4> QED BY <1>1, <2>1, <2>2, <2>4, ServiceSteps
    <3> QED BY <3>1 DEF Service!Promise, DataOf, Exports, Released, DoneWith
  <2> QED BY <2>3, <2>4
<1> QED BY <1>2, <1>3, PTL DEF Service!Spec

\* Nor does any of its steps touch data that is not given up.
LEMMA ServiceDataLasts == Service!Spec => Service!DataLasts
<1>1. Service!Next =>
        \A c \in Volumes : DataOf[c] # Absent /\ DataOf'[c] # DataOf[c] => c \in Released
  <2>1. DOMAIN DataOf = Volumes
    BY DEF DataOf
  <2> HIDE DEF DataOf, Exports, Released
  <2> QED BY <2>1, ServiceSteps
<1>2. [Service!Next]_(Service!vars) =>
        [\A c \in Volumes :
           DataOf[c] # Absent /\ DataOf'[c] # DataOf[c] => c \in Released]_(Service!vars)
  BY <1>1
<1> QED BY <1>2, PTL DEF Service!Spec, Service!DataLasts, DataOf, Released, DoneWith

\* Whatever fails, a bound claim exports its own data and nothing else, the
\* data is there, in a class that the request allows, and a released claim
\* exports nothing (controllerserver.go:44-194).
THEOREM ControllerServerKeepsPromise == Spec => []Service!Promise
BY ControllerServerImplementsClaims, ServiceKeepsPromise, PTL DEF ClaimsServed

\* Whatever fails, data that was made once is not made anew, moved or deleted
\* while its claim is in use (controllerserver.go:97-145 and 169-194).
THEOREM ClaimDataLasts == Spec => Service!DataLasts
BY ControllerServerImplementsClaims, ServiceDataLasts, PTL DEF ClaimsServed
=============================================================================
