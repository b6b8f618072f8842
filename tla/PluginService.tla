--------------------------- MODULE PluginService ---------------------------
(***************************************************************************)
(* What the processes of the plugin promise to those who call their        *)
(* address, without goroutines, wait groups and socket files: a call is    *)
(* taken by a server that is open, a server that is told to stop refuses   *)
(* new calls and answers the ones it has, and whoever loses the address    *)
(* does not get it back.  GrpcServer implements it, see PluginServed       *)
(* there.                                                                  *)
(***************************************************************************)
CONSTANTS
  Servers,
  Nobody

VARIABLES
  state,    \* of each server: off, open, closing (no new calls) or done
  reached,  \* the server that a call reaches, or Nobody
  busy      \* the servers that have a call to answer

vars == <<state, reached, busy>>

Init ==
  /\ state = [p \in Servers |-> "off"]
  /\ reached = Nobody
  /\ busy = {}

\* The address may be lost any time, to one that is starting or stopping.
Keeps == reached' \in {reached, Nobody}

Moves(p, s) == state' = [state EXCEPT ![p] = s]

Open(p) ==
  /\ state[p] = "off" /\ Moves(p, "open")
  /\ reached' = reached \/ (reached = Nobody /\ reached' = p)
  /\ UNCHANGED busy

Lose == Keeps /\ UNCHANGED <<state, busy>>

Call(p) ==
  /\ reached = p /\ state[p] = "open" /\ p \notin busy
  /\ busy' = busy \cup {p}
  /\ UNCHANGED <<state, reached>>

Answer(p) ==
  /\ busy' = busy \ {p}
  /\ UNCHANGED <<state, reached>>

Refuse(p) ==
  /\ state[p] \in {"off", "open"} /\ Moves(p, "closing")
  /\ Keeps /\ reached' # p
  /\ UNCHANGED busy

Finish(p) ==
  /\ state[p] = "closing" /\ p \notin busy /\ Moves(p, "done")
  /\ UNCHANGED <<reached, busy>>

\* The process ends, or is made to drop its calls.
Drop(p) ==
  /\ \E s \in {"off", "done"} : Moves(p, s)
  /\ Keeps /\ reached' # p
  /\ busy' = busy \ {p}

Next ==
  \/ Lose
  \/ \E p \in Servers :
       Open(p) \/ Call(p) \/ Answer(p) \/ Refuse(p) \/ Finish(p) \/ Drop(p)

Spec == Init /\ [][Next]_vars

-----------------------------------------------------------------------------
\* What a caller may rely on.

\* It reaches an open server or none; only a server that is open, or that was
\* told to stop and is not done, has calls to answer.
Promise ==
  /\ reached # Nobody => reached \in Servers /\ state[reached] = "open"
  /\ \A p \in busy : p \in Servers /\ state[p] \in {"open", "closing"}

\* A server that was told to stop, or that lost the address, is not reached
\* again before its process has started once more.
GoneIsGone ==
  [][reached' \notin {reached, Nobody} => state[reached'] = "off"]_vars
=============================================================================
