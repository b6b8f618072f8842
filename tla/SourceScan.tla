----------------------------- MODULE SourceScan -----------------------------
(***************************************************************************)
(* The loop of NodePublishVolume that picks the source directory           *)
(* (nodeserver.go, lines 300-328), one iteration per step, over the names  *)
(* in the order os.ReadDir returns them.  A name that is not listed is     *)
(* stepped over without effect.                                            *)
(***************************************************************************)
EXTENDS SourcePath

VARIABLES dirs,    \* the directories os.ReadDir found
          next,    \* the position of the loop in Plugins
          source   \* the Go variable of the same name

vars == <<dirs, next, source>>

\* The pod has its data volume; any set of other volumes may be there too.
Init ==
  /\ dirs \in {D \in SUBSET PluginNames : DataDir \in D}
  /\ next = 1
  /\ source = NoSource

Keeps_All(d) == d \in dirs

Keeps(d) == d \in dirs /\ d \notin Skipped

Keep_First ==
  /\ next <= Len(Plugins)
  /\ Keeps(Plugins[next])
  /\ source' = IF source = NoSource THEN SourceIn(Plugins[next]) ELSE source
  /\ next' = next + 1
  /\ UNCHANGED dirs

\* One iteration that reaches one of the two assignments.
Keep ==
  /\ next <= Len(Plugins)
  /\ Keeps(Plugins[next])
  /\ source' = SourceIn(Plugins[next])
  /\ next' = next + 1
  /\ UNCHANGED dirs

Skip_Two ==
  /\ next <= Len(Plugins)
  /\ ~ Keeps(Plugins[next])
  /\ next' = next + 2
  /\ UNCHANGED <<dirs, source>>

\* An iteration that takes a `continue`, or a name that is not listed.
Skip ==
  /\ next <= Len(Plugins)
  /\ ~ Keeps(Plugins[next])
  /\ next' = next + 1
  /\ UNCHANGED <<dirs, source>>

Scanned == next > Len(Plugins)

\* The scan is over; the handler goes on with source.
Finished == Scanned /\ UNCHANGED vars

Next == Keep \/ Skip \/ Finished

Spec == Init /\ [][Next]_vars

-----------------------------------------------------------------------------
\* The loop's state has its types.
TypeOK ==
  /\ dirs \subseteq PluginNames
  /\ next \in 1..(Len(Plugins) + 1)
  /\ source \in {NoSource} \cup {SourceIn(d) : d \in PluginNames}

\* The loop invariant: source is the last kept directory among those walked
\* over so far, and PickSource when the loop is over (nodeserver.go:307-327).
LoopInvariant == source = PickUpTo(dirs, next - 1)

\* The data volume is found whenever no directory that the loop keeps sorts
\* behind it: names behind it that are skipped, and any names before it, do
\* no harm (nodeserver.go:301-327).
FoundWhenLast ==
  (/\ Scanned
   /\ DataDir \notin Skipped
   /\ \A i, j \in 1..Len(Plugins) :
        (Plugins[i] = DataDir /\ Keeps(Plugins[j])) => j <= i)
  => source = DataMountPoint

\* README.md:23, "Bind mount the local path on the data node": on the node of
\* the server pod the scan ends with the path of the data volume.
FindsDataVolume == Scanned => source = DataMountPoint
=============================================================================
