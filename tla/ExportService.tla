---------------------------- MODULE ExportService ----------------------------
(***************************************************************************)
(* What the node services of all nodes promise together about one exported *)
(* volume, without calls, API objects and retries: the server is withdrawn *)
(* only after nobody was seen to use the volume, a pod that does not sit   *)
(* on the data is told "published" only while the volume is mounted, and   *)
(* no mount is taken away from a pod that relies on it.  NodeServer        *)
(* implements it, see ExportRefined there.                                 *)
(***************************************************************************)
CONSTANTS
  Pods,        \* the pods that may use the volume
  RemotePods,  \* those on nodes that cannot hold the data
  Blind        \* the users of the volume may be out of sight

VARIABLES
  users,      \* the pods that use the volume now
  late,       \* the pods a withdrawal has overlooked: those that came while
              \* it was under way, and those out of its sight
  data,       \* there is data to export
  closing,    \* somebody has decided to withdraw the server
  served,     \* a server is wanted
  server,     \* the server: "Absent", "Pending", "Running", "Failed"
  condemned,  \* the server there is belongs to a withdrawn one
  mounted,    \* the pods that have the volume mounted
  published   \* the pods that were told so

serverVars == <<served, server, condemned>>
podVars == <<mounted, published>>
vars == <<users, late, data, closing, serverVars, podVars>>

Init ==
  /\ users = {} /\ late = {} /\ mounted = {} /\ published = {}
  /\ data = TRUE
  /\ closing = FALSE /\ served = FALSE /\ condemned = FALSE
  /\ server = "Absent"

-----------------------------------------------------------------------------
Arrive(p) ==
  /\ users' = users \cup {p}
  /\ late' = IF closing THEN late \cup {p} ELSE late
  /\ UNCHANGED <<data, closing, serverVars, podVars>>

Leave(p) ==
  /\ users' = users \ {p}
  /\ UNCHANGED <<late, data, closing, serverVars, podVars>>

LoseData ==
  /\ server = "Absent" /\ data' = FALSE
  /\ UNCHANGED <<users, late, closing, serverVars, podVars>>

\* The decision is taken when nobody uses the volume.
Close ==
  /\ users = {} /\ closing' = TRUE
  /\ UNCHANGED <<users, late, data, serverVars, podVars>>

CloseBlindly ==
  /\ Blind /\ closing' = TRUE
  /\ late' = late \cup users
  /\ UNCHANGED <<users, data, serverVars, podVars>>

\* The end of a withdrawal, finished or not; and views that are given up.
Forget ==
  /\ closing' => closing
  /\ published' \subseteq published
  /\ UNCHANGED <<users, late, data, serverVars, mounted>>

Serve ==
  /\ served' = TRUE
  /\ UNCHANGED <<users, late, data, closing, server, condemned, podVars>>

Withdraw ==
  /\ closing \/ ~ data
  /\ served' = FALSE /\ condemned' = (server # "Absent")
  /\ UNCHANGED <<users, late, data, closing, server, podVars>>

\* The server comes and goes.  It is removed when it has failed or has been
\* withdrawn, for no other reason.
Moves(from, to) == server \in from /\ server' = to

Launch == served /\ data /\ Moves({"Absent"}, "Pending") /\ condemned' = FALSE
Run == Moves({"Pending"}, "Running") /\ UNCHANGED condemned
Fail == Moves({"Pending", "Running"}, "Failed") /\ UNCHANGED condemned
Remove ==
  /\ condemned \/ server = "Failed"
  /\ server' = "Absent" /\ condemned' = FALSE

ServerMoves ==
  /\ Launch \/ Run \/ Fail \/ Remove
  /\ UNCHANGED <<users, late, data, closing, served, podVars>>

\* A mount is made from a server that runs.
Mount(p) ==
  /\ server = "Running" /\ mounted' = mounted \cup {p}
  /\ UNCHANGED <<users, late, data, closing, serverVars, published>>

Unmount(p) ==
  /\ p \notin published /\ mounted' = mounted \ {p}
  /\ UNCHANGED <<users, late, data, closing, serverVars, published>>

\* A pod beside the data gets no such promise (nodeserver.go:420).
Confirm(p) ==
  /\ p \in RemotePods => p \in mounted
  /\ published' = published \cup {p}
  /\ UNCHANGED <<users, late, data, closing, serverVars, mounted>>

Next ==
  \/ \E p \in Pods : Arrive(p) \/ Leave(p) \/ Mount(p) \/ Unmount(p) \/ Confirm(p)
  \/ Close \/ CloseBlindly \/ Forget \/ Serve \/ Withdraw \/ ServerMoves \/ LoseData

Spec == Init /\ [][Next]_vars

-----------------------------------------------------------------------------
\* What a pod may rely on.

\* Whoever withdraws the server has overlooked nobody but the late ones, and
\* a pod away from the data that was told "published" has its mount.
Promise ==
  /\ closing => users \subseteq late
  /\ published \cap RemotePods \subseteq mounted

\* As long as there is data, the server is given up, and the one that runs is
\* condemned, only when all users are late.
ServerLasts ==
  [][(served /\ ~ served') \/ (~ condemned /\ condemned') =>
       users \subseteq late \/ ~ data]_vars

\* No pod loses its mount while it relies on it.
MountsLast == [][published \cap mounted \subseteq mounted']_vars
=============================================================================
