# A verification project for csi-driver-nfs-export

csi-driver-nfs-export turns a ReadWriteOnce volume (the *data PVC*) into a
ReadWriteMany one: for every NFS volume the driver creates a data PVC, a
StatefulSet whose only pod (the *server pod*) exports the data over NFS, and a
Service in front of it.  A pod on the node of the server pod gets a bind mount of
the data, every other pod an NFS mount.  Nothing but the API objects and the mounts
is persistent, nobody owns the server, and every decision is taken in handlers that
run on all nodes at once: that is what this project models.

Source lines below are those of `pkg/nfsexport/` unless a path is given.

## 1. The system

| Component | State | Operations | Interacts with |
|---|---|---|---|
| Node service, `nodeserver.go` (one process per node) | mounts on the target paths; no variables of its own | `NodePublishVolume` (50-441), `NodeUnpublishVolume` (444-537), `NodeGetVolumeStats` (read only); the rest is Unimplemented | kubelet (caller), API server (PVC, StatefulSet, Service, Pods, PV), `mount`, the server pod's TCP port |
| Local source lookup, lines 297-330 | `source` | a loop over the directories of the server pod | used by publish |
| Waits and lookups, `k8utils.go` | none | `waitForPodRunning`, `waitForTcpReady`, `getPvById` | used by both services |
| Controller service, `controllerserver.go` (one process per cluster) | none | `CreateVolume` (45-167), `DeleteVolume` (169-192) | external-provisioner (caller), API server (StorageClasses, data PVC, PV) |
| gRPC server and process, `server.go`, `nfsexport.go`, `cmd/nfsexportplugin/main.go` | wait group, `grpc.Server`, the socket in a directory of the node | `main`, `Run`, `Start`, `serve`, `Wait`, `Stop`, `ForceStop` | the interceptor `logGRPC`; the kubelet, which starts and probes the container; the other plugin containers of the node, through the socket |
| Utilities, `utils.go` | `VolumeLocks` (a type no handler uses) | `ParseEndpoint`, `chmodIfPermissionMismatch`, `logGRPC` | |
| Identity service, version | none | constants | |
| NFS server container, `exporter/` | daemons, the kernel's export table | `nfsd.sh`: write exports, start, watch, stop; `start.sh`: write a configuration, start, exec ganesha | started by the StatefulSet |
| Manifests, `charts/`; tests, `test/` | | | |

What is hard about it:

* **Concurrency.** Publish and unpublish calls of different nodes share the
  StatefulSet, the Service and the pod list, and no call holds a lock: an unpublish
  call lists the pods, decides, and deletes in three separate API calls, while other
  calls look the same objects up, create them and mount.
* **Abandoned calls.** Every API call uses `context.TODO()`, the waits last up to five
  minutes, and the kubelet's deadline is shorter.  A call goes on after its caller has
  given up and started the next one.
* **Partial failure.** Errors of single calls are dropped (261, 474), logged (342-346,
  509, 516; `controllerserver.go`:188) or shadowed (354 against 420), and the call goes
  on.
* **Restarts.** A plugin that restarts in the middle of a publish leaves objects and
  mounts, and the retry has to recognise them (278, 354; `controllerserver.go`:144).
* **Order.** The server pod's UID is read before the pod exists; the last unpublish
  call may come before or after its pod has left the API; the server pod outlives its
  StatefulSet.  Parameters and attributes are Go maps, walked in another order every
  time.
* **Sharing.** The old and the new plugin pod of a node listen at one socket; each
  removes what it finds there and unlinks the path when it stops.
* **Supervision.** A script starts four daemons, watches one of them, and may be told to
  stop at any line; kernel threads and exports outlive its container.

What makes each component correct: *publish* answers OK only when the target path is
mounted, from a server that stays, with the deletion cost and the mode where they
belong, and repeated calls do not pile up mounts; *unpublish* answers OK only when
nothing is mounted, deletes the server when nobody uses it, and only then;
*CreateVolume* is idempotent, gives every claim data of its own, of the right class;
*DeleteVolume* removes it; *the lookup* returns the path of the data volume; *the
process* serves in the end, whatever an earlier one left behind, and a stopped server
stays silent; *the server container* exports the directory while it is taken for
running, and after an orderly end leaves nothing but what a failing command kept.
The hazards, line by line, are in `PROJECT.json`.

## 2. Modules

| Module | What it is |
|---|---|
| `Kube` | External. The API objects of one volume (data PVC, PV, StatefulSet, Service, server pod, application pods) and what the cluster and its users do to them. |
| `SourcePath` | The lookup of lines 297-330 in closed form (`PickSource`). |
| `SourceScan` | The loop of lines 307-327, one iteration per step. |
| `NodeServer` | Extends `Kube` and `SourcePath`: the handlers of all nodes, the kubelets that call them, restarts. |
| `ExportService` | The abstract specification: what the node services promise together about one volume. |
| `Params` | The loops over parameters and attributes, whose keys are compared in lower case. |
| `ControllerServer` | Extends `Params`: `CreateVolume` and `DeleteVolume`, the provisioner that calls them. |
| `ClaimService` | The abstract specification: what the controller service promises to the claims. |
| `GrpcServer` | The process of the plugin, from `main` to its end. |
| `PluginService` | The abstract specification: what these processes promise to their callers. |
| `ServerContainer` | The scripts of the two server images and their daemons. |
| `ContainerService` | The abstract specification: what a client sees of a server container. |
| `MC...` | Small instances for TLC. |
| `...Proofs` | Theorems, see section 4. |

### NodeServer

A member of `Threads` is a goroutine that serves one call; `call[t]` holds its program
counter and the local variables that outlive a step: `uid` (`nfsPodUID`), `ip`
(`nfsIP`), `dirOk` (whether `ReadDir` at 303 returned no error: the value that `err`
still has at 420 in the NFS branch).  `live` says that the kubelet still waits for the
answer.  `mnt[p]` is the stack of mounts on the target path of pod `p`, since a second
mount hides the first and `CleanupMountPoint` takes off one.  `annotated` is the set of
pods with the deletion cost.  `kub[p]` is what the kubelet believes, which is all that
decides which call comes next: after Canceled or a timeout the volume may be mounted
(`uncertain`), after InvalidArgument, PermissionDenied or Internal it is not
(`failed`).  Three history variables: `exposed` holds the pods that a teardown has
overlooked, those created while some call was between its decision to tear down and its
last deletion, and those listed when a pod list failed; `skipped` is set when an unpublish
call leaves the server alone while no pod runs, because an API call failed or only pods on
their way out were listed; `orphaned` holds the pods one of whose calls went on without
its kubelet.

There is one action for each API call, wait or mount operation, from the top of the
handler to its return; its disjuncts are the outcomes of that call, and a failing one
counts as a fault.  `Publish(t)` is `GetPVC`, `GetSTS`, `CreateSTS`, `GetPod`,
`WaitPod`, `CheckTarget`, `FindSource`, `BindLocal`, `GetAppPod`, `Annotate`, `GetSVC`,
`CreateSVC`, `WaitTcp`, `MountNFS`, `Chmod`; `Unpublish(t)` is `CleanupMountPoint`,
`GetPV`, `ListPods`, `DeleteSTS`, `DeleteSVC`, `WaitGone`.

A new server pod comes with one of the listings of `PodVolumeDirs` (`dirs`, the plugin
directories that `ReadDir` returns for it); with some of them the lookup misses the data
volume.  `FindSource` takes the lookup's result from `SourcePath`.

Faults (`FaultKinds`, at most `MaxFaults`): a failing API call (`api`), pod list
(`list`), mount or umount (`mount`), other file operation (`fs`); a wait beyond its
limit (`slow`); a restart of the plugin (`crash`) or of the kubelet (`kubelet`); a
kubelet that gives up on a call (`deadline`); the loss of the server pod (`evict`).

### ExportService

No calls, no API objects but the server, no retries: users come and go (`users`);
whoever decides to withdraw the server (`closing`) did so when there were no users, or
could not see them where the pod list may fail (`CloseBlindly`); those who came since or
were out of sight are `late`; the server is withdrawn only then, or when the data is
gone; mounts are made from a running server only; a pod away from the data is told
"published" only while it has the mount, and loses no mount while it relies on it.
`Export` in `NodeServer` is the refinement mapping: users are the listed pods, late the
exposed ones, `closing` means that some goroutine is at `deleteSTS` or `deleteSVC`,
`server` and `condemned` are phase and ownership of the server pod, `mounted` forgets
how mounts are stacked and what is mounted.  `ExportRefined` says that every step of
the goroutines, kubelets and cluster is an abstract step or leaves the abstract state
alone.  `Promise`, `ServerLasts` and `MountsLast` say what that is worth to a pod.

### ControllerServer

The steps of the two handlers; `dataPVC[id]` is the class of the data PVC of that
name, `pv[id]` the attributes stored with the PV.  Names are sequences of their parts,
so that the prefix replacement of line 91 and the keys of lines 160-163 and 182-183
are modelled by what they do.  The parameters of a request are entries with keys in
lower case (`Params`): of two spellings of one key any may come last in Go's walk, at
each attempt anew.  The default class may change, be missing from the start or be taken
away (`Choice`: a request that names none then gets "", lines 98-107); an abandoned call
may run beside its retry.  Two history variables: `everDefault`, the classes that were the
default, with "" if there was once none; `unlisted`, the volumes one of whose own listings
failed.

### ClaimService

No calls and no API objects: a claim gets data once, in a class that its request names
or that has been on offer (`Allowed`), is bound, exports its own data, and is released;
only then may its data be reclaimed.  Data without a class is allowed when there was once
nothing on offer, or for a claim from which the offer was hidden (`Hide`, `unseen`).
`Service` in `ControllerServer` is the refinement mapping: `offered` is `everDefault`,
`unseen` is `unlisted`, `data` the class of the claim's data PVC, `exports` the claims
whose data PVC a publish call would find through the PV of a bound claim.  `ClaimsServed` says that the calls, however often they are
repeated or abandoned, do nothing else.  The controller never takes the step `Reclaim`
(the finding of `ControllerDelete`).  `Promise` and `DataLasts` say what that is worth
to a claim.

### SourceScan

`dirs` is what `ReadDir` returned, any set with the data volume in it.  `break` leaves
the switch, so the walk goes on: the model says what the loop computes, and
`FoundWhenLast` when that is the right path.

### GrpcServer

`proc[p]` is the process in container `p`: where its goroutines are (`main`; `serve`;
`stopper`, the one that ends a test, lines 109-114 of `server.go`), the counter `wg`,
whether `s.server` is set, how far the grpc server has stopped, and whether it handles
a call.  `sock` is what is at the address: the listener of a process, the file of a dead
one (`Stale`), something that cannot be removed (`Blocked`), or nothing.  The containers
share it, since the directory is a hostPath (`charts/templates/node.yaml`): `Remove`
takes away whatever is there, and the close of a Unix listener unlinks the path whoever
listens there by now.  Faults: a configuration that cannot be read (`config`), an error
of Accept (`accept`), a crash (`kill`), the deletion of the pod (`retire`), a caller of
`Stop` or `ForceStop` (`stop`; no code of the driver is one).  The grpc library, the
kubelet and its liveness probe are external.  A call is one that connects to the address,
as the kubelet does for each of its calls.

### PluginService

No goroutines and no files: each server is off, open, closing or done, a call reaches one
open server or none, and whoever has the address may lose it at any time.  An open server
takes calls; one that is told to stop, even before it opens, refuses new ones and is done
when it has answered those it has, unless it is made to drop them.  `Service` in
`GrpcServer` is the refinement mapping: a server is open when its goroutine is in `Serve`
and nobody has stopped it, and it is reached when the address is its listener's and it is
in `Serve`.  `PluginServed` is the refinement; `Promise` and `GoneIsGone` say what it is
worth to a caller.

### ServerContainer

`pc` is the line of the script, `up` the daemons that run, `exported` the kernel's
export table.  The threads of `nfsd` and the export table belong to the pod's network
and outlive the container, so a second container does not start from nothing.  `Trap`
can come between any two commands of `nfsd.sh`; `start.sh` has no handler before its
`exec`.  Faults: a command fails (`command`), a daemon dies (`die`), the container is
killed (`kill`).  Where the script looks at the status, at exportfs (125) and, under
`set -e`, in `start.sh`, a failing command ends the container; everywhere else
(`FailsUnheeded`: lines 12, 13, 113, 123, 132, and `init_rpc`) the script goes on, and the
history variable `unheeded` holds the commands whose last run failed that way.  So the
signal handler may leave exports or kernel threads and still exit with status 0.

### ContainerService

No scripts: a container starts, is ready, ends or is gone; the volume is offered or not,
the port answers or not.  A server in the kernel (`lasting`) prepares both while it
starts, in either order, and both outlive its end; a server in a process has them only
while it is ready.  An end is orderly only when the pod is deleted, and then nothing is
left unless a withdrawal failed unnoticed (`FailToWithdraw`, `spoiled`); else the offer is
withdrawn before the port.  `Service` in `ServerContainer` is the
refinement mapping: ready is the watch loop of `nfsd.sh` or ganesha after the exec of
`start.sh` and the bind of its port,
ending the signal handler or the way to line 171, offered the export table or ganesha, and the port
the kernel threads or ganesha.  `ServiceRefined` is the refinement; `Promise` and
`OfferLasts` say what it is worth to a client.

## 3. Runs

Passing runs (`tlc -config <name>.cfg <module>.tla`):

| Run | Shows |
|---|---|
| `SourceScan` | `LoopInvariant`: the loop computes `PickSource`; `FoundWhenLast`: it is the data volume if the loop keeps nothing behind it. Nine plugins, every set of directories. |
| `NodeOneFault` | All interleavings of two nodes' calls with graceful and forced deletions and at most one fault of any kind, an abandoned call beside its retry among them: what a publish call that was answered OK means (`RemotePublishSound`, `LocalPublishComplete`, `PublishedHasServer`), why a pod beside the data may get an NFS mount (`FallsBackOnStaleUid`; server pods come with the `csi` directory last but for a `secret`, which the lookup skips, or with a `projected` one, which it takes), what a teardown spares (`TearDownSparesListedPods`), what the last unpublish call leaves behind (`LastUnmountDeletes`), what is mounted for pods that are not `orphaned` (`NoStackedMounts`, `DoneMeansUnmounted`), and `ExportRefined`. |
| `NodeRetries` | Two faults and the retries after them, with deletions of the PV and the data PVC, two data nodes, and two cluster IPs, so that a Service that was deleted and made again differs from the one a call has read (`PublishedHasServer`). On one `IsLikelyNotMountPoint` recognises a bind mount and `NoStackedMounts` holds; on the other (`HidingNodes`: data and target path on one file system, as with the local-path volumes of the README) mounts do stack, and `DoneMeansUnmounted` holds on both; so does `ExportRefined`. |
| `NodeLiveness` | One fault, forced deletions, fairness. `ActivePodPublished`: a running pod gets its volume; `LastUnmountCleansUp`: without a fault the last unpublish call removes the server; `LaterUnmountCleansUp`: whatever a failed deletion, a crash or an eviction has left, an unpublish call that is still to come removes it. |
| `ControllerFaults` | `PVHasData`, `OwnData`, `DataClassHonoured`, `ClaimsServed` (the refinement) and `ClaimServed` with one fault, abandoned calls among them, two spellings of one key and a default class that changes, comes or goes. |
| `GrpcServer` | `ServerSetInTime`: the wait group keeps `s.server` ahead of its readers; `RunReturnsOnlyInTests`; `StopSticks`: a stopped server is out of reach, also if it is stopped before `Serve`; `ProductionServes`: in the end the kubelet finds a server at a usable address; `TestsEnd`; `PluginServed` (the refinement). |
| `ServerContainer` | `WatchedIsExported`: what the script takes for running exports the directory, whatever failed or was left over; `CleanStop`: at whatever line the signal came, an orderly end leaves an export only if `exportfs -uav` failed and kernel threads only if `rpc.nfsd 0` failed; `ServesAtLast`: a failed start of mountd is repeated and its death ends the container, so that in the end the server runs, or runs without the kernel threads of a failed `rpc.nfsd` (`NfsdMissed`); `ServiceRefined` (the refinement). |

Each property is violated by a mutant of a mapped definition (`PROJECT.json`,
"mutants"; the mutated definition stands before the original in the module).

Runs that violate a statement of the repository ("findings" in `PROJECT.json`):

| Run | What happens |
|---|---|
| `SourceScanProjected` | A `kubernetes.io~projected` directory (every pod with a service account token has one) hides a CSI data volume: the `break` of line 322 leaves the switch only. |
| `NodePublishedIsMounted` | A failed NFS mount is answered OK: line 354 declares a new `err`, line 420 tests the old one. |
| `NodeServerOutlivesUse` | A pod created between the list (474) and the deletion (505) of another node's call loses its server. |
| `NodeGraceful` | After ordinary deletions the server is never deleted: the last unpublish call finds its own, still terminating, pod in the list. |
| `ControllerDelete` | DeleteVolume reads keys that CreateVolume does not write, and leaves the data PVC. |

More deviations can be read off the models without a run of their own:

* The UID of the server pod is read before the pod exists (261), so a pod on the data
  node may get an NFS mount where README.md:23 announces a bind mount.
  `FallsBackOnStaleUid` says that, without faults, this and the lookup that takes another
  directory (`SourceScanProjected`) are the only reasons.
* A failing pod list (474) is taken for an empty one, and the server is deleted under its
  users.  No property catches it: `TearDownSparesListedPods` and `PublishedHasServer` count
  these pods as overlooked (`exposed`), and `ExportService` has the action `CloseBlindly`.
* A failing list of storage classes leaves the class empty.  `DataClassHonoured` and
  `ClaimService` admit that for the volume whose own listing failed, and for no other.
* A failing chmod (432), and a successful NFS mount whose outer `err` still holds the error
  of `ReadDir` (427), are answered Internal, a final error: the kubelet takes the volume for
  not mounted and may never unpublish it, and the mount stays.  `RemotePublishSound` speaks
  of published views, `DoneMeansUnmounted` of unpublished ones; no property catches the
  forgotten mount.
* A restart or an error between the bind mount and its chmod makes the retry return at 290
  with the annotation or the mode missing: `LocalPublishComplete` asserts them only while
  nothing has failed.
* A listed pod that never had the volume published keeps the server alive, and if no
  unpublish call is to come nobody removes it (the premise of `LaterUnmountCleansUp`).
* The wait of line 521 for the server pod to go down ends at once while the pod runs
  (`WaitGone`).
* The mode of an NFS mount is never set: its first call ends at 427 and the retry at 290
  (`RemoteCalls` of the proofs: no call on a node without the data volume reaches
  `Chmod`).
* The publish call of a pod deleted by force goes on, and may create the StatefulSet
  again after the last unpublish call has deleted it: nobody removes that one, unless a
  pod comes and goes again (the premise of `LaterUnmountCleansUp`).
* No handler takes a volume lock (`NewVolumeLocks` has no caller), so an abandoned call
  and its retry can stack mounts: `NoStackedMounts` leaves out the pods that had such a
  call (`orphaned`), and no others.
* Of two spellings of one key in the parameters or attributes the order of Go's map
  decides, at each call anew (`Params`).
* An endpoint `UNIX://...` passes `ParseEndpoint`, which ignores the case, and ends in a
  fatal `net.Listen`: the run has such an endpoint, and `Usable` excludes it from
  `ProductionServes`.
* `Stop` reads `s.server` without synchronisation, and it is nil until line 94 of
  `server.go`: in the model such a call may end the process.
* In production `Run` never returns: a process whose server was stopped serves nothing
  until the liveness probe ends it.
* `nfsd.sh` looks at the status of `exportfs` only, and watches `mountd` only: with a
  failed `rpc.nfsd` it reports "Startup successful." (149) without a kernel server, and
  never repeats the command.  `ServesAtLast` admits this end (`NfsdMissed`).
* The handler of `nfsd.sh` looks at no status: with a failing `exportfs -uav` (12) or
  `rpc.nfsd 0` (13) the container exits with status 0 and the export or the kernel threads
  stay until the pod's network goes.  `CleanStop` says that nothing else is left.
* Until its `exec`, `start.sh` runs as process 1 without a handler and ignores the
  termination signal: it is killed at the end of the grace period (`GraceEnds`).

**Bounds.** `NodeServer`: two nodes, one that can hold the data and one that cannot, with
one application pod on each: the two branches of publish, and every race between two
calls.  A pod is created and deleted once.  Two goroutines: a third is needed only if
two calls of one pod overlap (an abandoned call and its retry) beside a call of the
other pod.  Two cluster IPs tell an old Service from its successor (`NodeRetries`; the
other runs have one), and four UIDs suffice because a new server pod takes one that
no call remembers.  `MaxFaults` is 1 where all kinds are mixed
and 2 where the property is about retries; the proofs of section 4 hold for any number
and mixture.  Deletions of the PV and the data PVC are in `NodeRetries` only.
Listings: with a directory behind that of the data volume and without one in
`NodeOneFault`, without one in the other runs; all subsets of nine plugins in `SourceScan`.
`ControllerServer`: three claims (by default; by class, in two spellings of the key;
malformed), two classes, two goroutines, one fault, one change of the default to any set
of classes, from one or none at the start.
`GrpcServer`: two containers of a node, four endpoints (a good Unix and TCP one, one in
capitals, an empty one), both modes, two faults: enough for a crash that leaves a socket
while the other container starts.  `ServerContainer`: both images, three faults: a failed
start, the restart that finds its leftovers, and a failure of that, or of its handler.
Symmetry is used for goroutines, in runs of `NodeServer` without liveness only.

**Deadlock** is checked in every run; `Settled`, `Finished` and `Waits` are the states in
which the system may rest.

**Fairness.** `FairSpec` assumes weak fairness of each goroutine (the Go scheduler, and
waits that end), of each kubelet and of the provisioner (both retry until they
succeed), of the controllers that create, start and remove the server pod, of the
kubelet that starts, probes and removes containers, and of the scripts (their commands
return, the watch loop sleeps for a second).  Nothing is assumed of users or clients,
and faults are finite in number.

## 4. Proofs

All are checked by TLAPS for every value of the constants, under the named assumptions
of the modules and those stated below.

* `SourceScanProofs`: `ScanTypes`, `LoopCorrect`, `DataVolumeFoundWhenLast`.  The inductive
  invariant is the loop invariant with the types.  `PickKept` and `PickSkipped` say what
  one more directory does to `PickUpTo`; the choice of the greatest kept position needs
  no induction, as the new position is above all others.
* `NodeServerProofs!TypeCorrect`: `TypeOK` is inductive.  One lemma for each way a step
  touches the goroutines (continue, answer, begin), one for each group of actions.
* `NodeSafetyProofs!TearDownSpares`, for all faults.  The
  inductive invariant `TearDownInv` says that while a call is in its teardown, all
  listed pods are exposed ones: the listing was empty when it decided, or failed and its
  pods are recorded, and so is every pod since then.  `TearDownStep` shows that only such
  a call deletes the StatefulSet.
* `NodeSafetyProofs!RemoteSound`, for all faults.  `RemotePublishSound` is not
  inductive by itself.  `CallsAgree` says that a kubelet waits for at most one call per
  pod, of the kind its view says, and that no unpublish call, not even an abandoned
  one, works on a volume that is being published or published: pods leave for good, so
  an unpublish call is always the later one.  `RemoteCalls` says that a call on such a
  node never lists the server pod's directories with success, hence never reaches the
  bind mount or the chmod.  So the only answer OK is that of line 290, which saw a
  mount, and nobody takes it away while the volume is published.
* `NodeVolumeProofs!PublishedServed`, for all faults.  The inductive
  invariant adds to the two above that the objects a publish call has found or made are
  still there (`CallServed`), that every NFS mount leads to the present Service
  (`MountsServed`), both for listed pods that no teardown has exposed, and that nothing
  has happened for a pod that is not yet created (`UnbornIdle`).  A teardown cannot spoil
  it, for such a pod would have been in its list.
* `NodeVolumeProofs!RetriesDoNotStack`, `DoneUnmounted`, for all faults.  `CallsWatched`
  says that only a call for an orphaned pod goes on without its kubelet; any other pod has
  one call at a time (`OneCallPerPod`), and `CallMounts` says what that call knows of the
  mounts: none between the test of line 278 and the mount on a node where mounts can be
  recognised, and none after the cleanup of an unpublish call.  Abandoned calls of one pod
  do not disturb the others.  For the orphaned pods themselves the statement is false.
* `NodeVolumeProofs!LastUnmount`, for all faults and all deletions of users: the safety
  core of `LastUnmountCleansUp`, which needs no fairness.  The inductive invariant
  (`OwedSTS`, `OwedSVC`) says that while the StatefulSet or the Service is there, some pod
  still owes the deletion: its kubelet has not been told that the volume is unpublished,
  and a call that is about to tell it so has the deletion still to do.  A publish call
  owes for what it creates (`PublisherOwes`), an unpublish call deletes, or hands its debt
  to a running pod it has listed (`ActiveOwes`), or sets `skipped` (`UnpublishDebt`); a
  crash or a failing unmount leaves the debt where it is (`EnvironmentOwes`).  What is
  excluded is what the code gets wrong: `NodeGraceful` is a run with `skipped`, and an
  orphaned publish call creates a server nobody is asked for.
* `NodeVolumeProofs!FallbackMeansStaleUid`.  While nothing has failed, a call that holds
  the UID of the present server pod has waited for that pod to run (`UidInv`), so its
  directories are on the call's node, and it falls back to NFS only if the lookup does not
  find the data volume among them.
* `NodeVolumeProofs!LocalComplete`, for all faults.  `BindKept` says that a pod with the
  deletion cost, or whose call is about to set it, has a bind mount until it is unmounted
  for good; `BindDone` that, while nothing has failed, a bind mount has its cost and its
  mode or a call is still at that work.
* `NodeRefinementProofs!NodeServerImplementsExport`, for all faults:
  initial states map to initial states, and every step of a publish call, an unpublish
  call, a kubelet or the cluster maps to a step of `ExportService` or a stutter, by the
  invariants of `RemoteSound` and `TearDownSpares`.
* `NodeServerKeepsPromise`, `NodeServerLasts` (in the same module): `ExportService` by
  itself keeps its `Promise`, and no step of it gives up a server that somebody can see,
  or a mount that a published pod relies on; the refinement hands both to the node
  services.  The proofs are about the abstract steps alone, where the argument is short:
  those who close have overlooked late users only, so whoever is listed afterwards is late.
* `ControllerServerProofs`: `ControllerTypes`, `BoundPVHasData`, `ClaimsOwnTheirData`,
  `RequestedClassHonoured`.  `VolumeID` is injective because all volumes have one prefix
  (`VolumesAssumption`), so volumes do not disturb each other.  `CallOK` says that a call
  holds a class its volume may have once it comes to create the data PVC, however often
  it was repeated, and that a DeleteVolume call never has the name of a data PVC: this is
  why data outlives its volume (the finding of `ControllerDelete`) and also why no late
  DeleteVolume can take away what a claim is bound to.  `FirstDefault` takes the first
  annotated class, if there is one, by the well-founded order of the naturals.
* `ControllerServerProofs!ControllerServerImplementsClaims`: initial states map to initial
  states, and every step to a step of `ClaimService` or a stutter.  To the invariant above
  it adds `CallsAgree`, that a provisioner waits for one call on each claim and for the
  right kind, so that no late answer brings a released claim back, and `DataKept`, that
  released claims still have their data, so that no late CreateVolume makes it again.
  `HandlerShape` says once what the steps of all handlers have in common.
* `ControllerServerKeepsPromise`, `ClaimDataLasts` (in the same module), in the same way:
  `ServiceSteps` lists what the abstract steps do, `Allowed` only grows as classes come
  on offer, and no step but `Reclaim` takes data away.
* `GrpcServerProofs`: `ServerTypes`, `ServerInTime`, `ProductionRunStays`,
  `StoppedServerIsSilent`.  `Ordered` says that the counter of the wait group comes down
  only in test mode and after `s.server` is set, and that whoever waits for it goes on
  later; `Silent` that a server that was told to stop does not own the socket while it
  serves, whichever container took the socket in between.
* `GrpcServerProofs!GrpcServerImplementsPlugin`: `Seen` is the abstract service on the
  abstract state as three named expressions (`States`, `Reached`, `Busy`).  `SeenOfStep`,
  `ReachedOfStep` and `ReachedStays` say once what it sees when one process changes, whatever
  happens to the address at the same time; with them every step of main, serve, the
  stopper and the kubelet is an abstract step (`DropRefines`, `QuietRefines`) or a stutter
  (`SilentRefines`).  `Ordered` is needed because only a process that has called Run has
  anything to lose, `Silent` because a forced stop may come after another stop has closed
  the listener.
* `GrpcServerKeepsPromise`, `StoppedServersStayGone` (in the same module): the promise of
  `PluginService`.  That nobody reaches a server a second time is why the liveness probe
  has to end a process that has lost its socket file.
* `ServerContainerProofs`: `ContainerTypes`, `ServerWatchedIsExported`,
  `ServerStopsClean`.  `AtLine` says what is known of the daemons and the export table at
  each line, in the handler up to what `unheeded` says has failed (`LateFailures`: only the
  handler's own commands count there); its heart is that a new container finds no `mountd`,
  so that the check of line 102 never skips the export.  `OwnLines` keeps the two scripts apart, and
  `NoKernelServer` says that ganesha's never exports through the kernel.
* `ServerContainerProofs!ServerContainerImplementsService`: by `AtLine` a command of
  `nfsd.sh` maps to a step towards ready, the handler to the withdrawal of the offer before
  the port, or to a failure to do so (its lines are reached only when the pod is deleted),
  and every end to an
  orderly end or a failure.  `ServerContainerKeepsPromise` and
  `ExportOutlivesContainers` carry the promise of `ContainerService` over: exports of the
  kernel outlive the containers that made them.

All safety properties of the passing runs are proved.  Only model-checked are the liveness
properties (`ActivePodPublished`, `LastUnmountCleansUp`, `LaterUnmountCleansUp`,
`ClaimServed`, `ProductionServes`, `TestsEnd`, `ServesAtLast`): the prover handles neither
fairness nor ENABLED.

## 5. Not modelled

* The contents of the StatefulSet, the Service and the configuration files, log lines,
  the data plane.
* The syntax of parameters and attributes (accepted or refused; which spelling wins is
  modelled).
* `VolumeLocks`, `getMountOptions` and `setKeyValueInMap` of `utils.go`: no code of the
  driver calls them.
* `NodeGetVolumeStats`, which only reads, the identity service and the version, which
  answer constants, and the Unimplemented methods.
* Several volumes at once: their objects have disjoint names (`OwnData`), and the
  handlers share no variable.  Several pods of one volume on one node: they have target
  paths and calls of their own, as pods of different nodes have.
* The manifests in `charts/`, which are data, and the suites in `test/`, which need a
  cluster.

## 6. Plan

All components with state of their own are modelled.  What could be added:

1. One volume from `CreateVolume` over its mounts to `DeleteVolume`, as a composition of
   `ControllerServer` and `NodeServer` that shares the data PVC and the PV.  Today
   `PVHasData` states what the first hands to the second, and `Kube` lets both objects
   disappear at any time.
2. Three pods on three nodes in `NodeOneFault`, when the state space allows it.
