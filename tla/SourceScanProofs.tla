-------------------------- MODULE SourceScanProofs --------------------------
(***************************************************************************)
(* The walk over the volume directories of the server pod, for every list  *)
(* of plugins: what the loop of module SourceScan computes, and when that  *)
(* is the path of the data volume.                                         *)
(***************************************************************************)
EXTENDS SourceScan, TLAPS

\* The number of plugins is a number, and each has a name.
LEMMA PluginList ==
  Len(Plugins) \in Nat /\ \A i \in 1..Len(Plugins) : Plugins[i] \in PluginNames
BY PluginsAssumption DEF PluginNames

\* A kept position behind all other kept ones decides what is picked.
LEMMA PickLast ==
  ASSUME NEW D, NEW n \in Nat, NEW k \in KeptBelow(D, n),
         \A j \in KeptBelow(D, n) : j <= k
  PROVE  PickUpTo(D, n) = SourceIn(Plugins[k])
<1>1. \A j \in KeptBelow(D, n) : j \in Nat
  BY DEF KeptBelow
<1>2. (CHOOSE i \in KeptBelow(D, n) : \A j \in KeptBelow(D, n) : j <= i) = k
  BY <1>1
<1> QED BY <1>2 DEF PickUpTo, LastKept

\* One more directory that the loop keeps becomes the one that is picked.
LEMMA PickKept ==
  ASSUME NEW D, NEW n \in Nat, Plugins[n + 1] \in D, Plugins[n + 1] \notin Skipped
  PROVE  PickUpTo(D, n + 1) = SourceIn(Plugins[n + 1])
<1>1. n + 1 \in KeptBelow(D, n + 1)
  BY DEF KeptBelow
<1>2. \A j \in KeptBelow(D, n + 1) : j <= n + 1
  BY DEF KeptBelow
<1> QED BY <1>1, <1>2, PickLast

\* One that the loop does not keep changes nothing.
LEMMA PickSkipped ==
  ASSUME NEW D, NEW n \in Nat, ~ (Plugins[n + 1] \in D /\ Plugins[n + 1] \notin Skipped)
  PROVE  PickUpTo(D, n + 1) = PickUpTo(D, n)
<1>1. KeptBelow(D, n + 1) = KeptBelow(D, n)
  BY DEF KeptBelow
<1> QED BY <1>1 DEF PickUpTo

-----------------------------------------------------------------------------
\* The loop invariant with the types, and the data volume among the volumes.
ScanInv == TypeOK /\ LoopInvariant /\ DataDir \in dirs

\* Before the first iteration nothing is picked.
LEMMA ScanInit == Init => ScanInv
<1> SUFFICES ASSUME Init PROVE ScanInv
  OBVIOUS
<1>1. KeptBelow(dirs, 0) = {}
  BY DEF KeptBelow
<1>2. LoopInvariant
  BY <1>1 DEF Init, LoopInvariant, PickUpTo, LastKept
<1> QED BY <1>2, PluginList DEF Init, ScanInv, TypeOK

\* Every iteration keeps the loop invariant.
LEMMA ScanNext == ScanInv /\ [Next]_vars => ScanInv'
<1> SUFFICES ASSUME ScanInv, [Next]_vars PROVE ScanInv'
  OBVIOUS
<1> USE DEF ScanInv
<1>1. CASE Keep
  <2> DEFINE n == next - 1
  <2>1. n \in Nat /\ n + 1 = next /\ next' - 1 = n + 1
    BY <1>1, PluginList DEF Keep, TypeOK
  <2>2. PickUpTo(dirs, n + 1) = SourceIn(Plugins[n + 1])
    BY <1>1, <2>1, PickKept DEF Keep, Keeps
  <2>3. LoopInvariant'
    BY <1>1, <2>1, <2>2 DEF Keep, LoopInvariant
  <2>4. TypeOK'
    BY <1>1, PluginList DEF Keep, TypeOK
  <2> QED BY <1>1, <2>3, <2>4 DEF Keep
<1>2. CASE Skip
  <2> DEFINE n == next - 1
  <2>1. n \in Nat /\ n + 1 = next /\ next' - 1 = n + 1
    BY <1>2, PluginList DEF Skip, TypeOK
  <2>2. PickUpTo(dirs, n + 1) = PickUpTo(dirs, n)
    BY <1>2, <2>1, PickSkipped DEF Skip, Keeps
  <2>3. LoopInvariant'
    BY <1>2, <2>1, <2>2 DEF Skip, LoopInvariant
  <2>4. TypeOK'
    BY <1>2, PluginList DEF Skip, TypeOK
  <2> QED BY <1>2, <2>3, <2>4 DEF Skip
<1>3. CASE UNCHANGED vars
  BY <1>3 DEF vars, TypeOK, LoopInvariant
<1> QED BY <1>1, <1>2, <1>3 DEF Next, Finished

\* The loop's variables stay in their types: the index never runs past the end
\* of the listing, and source is the path of a listed directory or none.
THEOREM ScanTypes == Spec => []TypeOK
<1>1. ScanInv => TypeOK
  BY DEF ScanInv
<1> QED BY <1>1, ScanInit, ScanNext, PTL DEF Spec

\* For every list of plugins and every set of volumes of the server pod, the
\* loop has picked the last kept directory of those it has walked over.
THEOREM LoopCorrect == Spec => []LoopInvariant
<1>1. ScanInv => LoopInvariant
  BY DEF ScanInv
<1> QED BY <1>1, ScanInit, ScanNext, PTL DEF Spec

\* The scan ends with the data volume's path if the loop keeps no directory
\* behind it.
THEOREM DataVolumeFoundWhenLast == Spec => []FoundWhenLast
<1>1. ScanInv => FoundWhenLast
  <2> SUFFICES ASSUME ScanInv, Scanned, DataDir \notin Skipped,
                      \A i, j \in 1..Len(Plugins) :
                        (Plugins[i] = DataDir /\ Keeps(Plugins[j])) => j <= i
               PROVE  source = DataMountPoint
    BY DEF FoundWhenLast
  <2>1. next - 1 = Len(Plugins)
    BY PluginList DEF ScanInv, TypeOK, Scanned
  <2>2. PICK k \in 1..Len(Plugins) : Plugins[k] = DataDir
    BY DEF ScanInv, TypeOK, PluginNames
  <2>3. k \in KeptBelow(dirs, Len(Plugins))
    BY <2>2 DEF KeptBelow, ScanInv
  <2>4. \A j \in KeptBelow(dirs, Len(Plugins)) : j <= k
    BY <2>2 DEF KeptBelow, Keeps
  <2>5. PickUpTo(dirs, Len(Plugins)) = SourceIn(DataDir)
    BY <2>2, <2>3, <2>4, PickLast, PluginList
  <2> QED BY <2>1, <2>5 DEF ScanInv, LoopInvariant, DataMountPoint
<1> QED BY <1>1, ScanInit, ScanNext, PTL DEF Spec
=============================================================================
