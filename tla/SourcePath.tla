----------------------------- MODULE SourcePath -----------------------------
(***************************************************************************)
(* How NodePublishVolume finds the path of the data volume on this node:   *)
(* it lists the volume directories of the NFS server pod and walks over    *)
(* them (nodeserver.go, lines 297-330).  PickSource is the result of the   *)
(* walk in closed form, the form in which NodeServer uses it; SourceScan   *)
(* is the loop itself.                                                     *)
(*                                                                         *)
(* A directory is named after the volume plugin that owns it (the prefix   *)
(* "kubernetes.io~" is left out).                                          *)
(***************************************************************************)
EXTENDS Naturals, Sequences

CONSTANTS
  Plugins,  \* the directory names, in the order os.ReadDir sorts them
  DataDir   \* the directory that holds the mount point of the data volume

ASSUME PluginsAssumption ==
  /\ Plugins \in Seq(STRING)
  /\ \A i, j \in 1..Len(Plugins) : Plugins[i] = Plugins[j] => i = j

ASSUME DataDirAssumption == DataDir \in STRING

PluginNames == {Plugins[i] : i \in 1..Len(Plugins)}

(***************************************************************************)
(* The switch of the loop body.  `continue` skips a directory; every other *)
(* name sets source, and the `break` that follows leaves the switch only,  *)
(* not the loop.                                                           *)
(***************************************************************************)
Skipped == {"secret", "configmap", "empty-dir", "downward-api"}

NoSource == [dir |-> "", leaf |-> ""]

\* dataPVMountPoint2 for a CSI volume, dataPVMountPoint1 for an in-tree one.
SourceIn(d) == [dir |-> d, leaf |-> IF d = "csi" THEN "mount" ELSE ""]

\* Positions among the first n names that `dirs` holds and the loop keeps.
KeptBelow(dirs, n) ==
  {i \in 1..n : Plugins[i] \in dirs /\ Plugins[i] \notin Skipped}

\* The loop assigns source anew for every directory it keeps.
LastKept(S) ==
  IF S = {} THEN NoSource
  ELSE SourceIn(Plugins[CHOOSE i \in S : \A j \in S : j <= i])

\* What source is once the first n names have been walked over.
PickUpTo(dirs, n) == LastKept(KeptBelow(dirs, n))

PickSource(dirs) == PickUpTo(dirs, Len(Plugins))

\* Where a data volume kept in directory d is really mounted: CSI drivers
\* mount one level deeper (the two comments of the switch).
DataMountPoint == SourceIn(DataDir)
=============================================================================
