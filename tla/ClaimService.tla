---------------------------- MODULE ClaimService ----------------------------
(***************************************************************************)
(* What the controller service promises about the claims, without calls,   *)
(* API objects and retries: the data of a claim is made once, in a class   *)
(* that the request allows, and stays as it is until the claim is          *)
(* released; a claim that is bound exports its own data and nothing else.  *)
(* ControllerServer implements it, see ClaimsServed there.                 *)
(***************************************************************************)
CONSTANTS
  Claims,
  Named,    \* the classes that the request of each claim names; "" stands
            \* for a request that leaves the choice open
  NoData

VARIABLES
  offered,  \* the classes that have been on offer, "" if there was none
  unseen,   \* the claims from which the offer has been hidden
  data,     \* the class in which each claim has data, or NoData
  exports,  \* the claims whose data each claim exports
  released  \* the claims that are given up

vars == <<offered, unseen, data, exports, released>>

Init ==
  /\ offered # {}
  /\ unseen = {}
  /\ data = [c \in Claims |-> NoData]
  /\ exports = [c \in Claims |-> {}]
  /\ released = {}

Offer ==
  /\ offered \subseteq offered'
  /\ UNCHANGED <<unseen, data, exports, released>>

Hide(c) ==
  /\ unseen' = unseen \cup {c}
  /\ UNCHANGED <<offered, data, exports, released>>

\* If the request names no class it is one on offer; the data has none, "", if
\* there was none, or if the offer was hidden from the claim.
Allowed(c) ==
  (Named[c] \ {""}) \cup
    {class \in offered \cup {""} :
       "" \in Named[c] /\ (class \in offered \/ c \in unseen)}

Provide(c) ==
  /\ c \notin released /\ data[c] = NoData
  /\ \E class \in Allowed(c) : data' = [data EXCEPT ![c] = class]
  /\ UNCHANGED <<offered, unseen, exports, released>>

Bind(c) ==
  /\ c \notin released /\ data[c] # NoData
  /\ exports' = [exports EXCEPT ![c] = {c}]
  /\ UNCHANGED <<offered, unseen, data, released>>

Release(c) ==
  /\ exports[c] # {}
  /\ exports' = [exports EXCEPT ![c] = {}]
  /\ released' = released \cup {c}
  /\ UNCHANGED <<offered, unseen, data>>

\* Nobody else's data goes with it.
Reclaim(c) ==
  /\ c \in released
  /\ data' = [data EXCEPT ![c] = NoData]
  /\ UNCHANGED <<offered, unseen, exports, released>>

Next ==
  \/ Offer
  \/ \E c \in Claims : Hide(c) \/ Provide(c) \/ Bind(c) \/ Release(c) \/ Reclaim(c)

Spec == Init /\ [][Next]_vars

-----------------------------------------------------------------------------
\* What a claim may rely on.

\* It exports nothing but its own data, which is there, in a class that is
\* allowed; and nothing once it is released.
Promise ==
  \A c \in Claims :
    /\ exports[c] \subseteq {c}
    /\ exports[c] # {} => data[c] # NoData /\ c \notin released
    /\ data[c] # NoData => data[c] \in Allowed(c)

\* Data that was made once stays as it is, until the claim is released.
DataLasts ==
  [][\A c \in Claims : data[c] # NoData /\ data'[c] # data[c] => c \in released]_vars
=============================================================================
