--------------------------- MODULE ContainerService ---------------------------
(***************************************************************************)
(* What the container of the server pod promises, without scripts and      *)
(* daemons: it is taken for ready only when the volume is offered; what a  *)
(* kernel server offers outlives its containers; an orderly end comes only *)
(* when the pod is deleted, and leaves nothing unless the withdrawal has   *)
(* failed, which nobody is told.  ServerContainer implements it, see       *)
(* ServiceRefined there.                                                   *)
(***************************************************************************)
VARIABLES
  lasting,  \* the offer outlives the container: a server in the kernel
  wanted,   \* the pod is not being deleted
  state,    \* of the container: "down", "starting", "ready", "ending", "gone"
  offered,  \* the volume is offered to clients
  port,     \* somebody answers at the port
  orderly,  \* the last container ended as it was told to
  spoiled   \* some of its withdrawal has failed

offerVars == <<offered, port>>
vars == <<lasting, wanted, state, offerVars, orderly, spoiled>>

Init ==
  /\ lasting \in BOOLEAN /\ wanted = TRUE /\ state = "down"
  /\ offered = FALSE /\ port = FALSE /\ orderly = FALSE /\ spoiled = FALSE

-----------------------------------------------------------------------------
Delete ==
  /\ wanted /\ wanted' = FALSE
  /\ UNCHANGED <<lasting, state, offerVars, orderly, spoiled>>

Start ==
  /\ state = "down" /\ wanted /\ state' = "starting"
  /\ UNCHANGED <<lasting, wanted, offerVars, orderly, spoiled>>

\* The port may answer before anything is offered.
Prepare ==
  /\ state = "starting" /\ lasting
  /\ (port' = TRUE /\ UNCHANGED offered) \/ (offered' = TRUE /\ UNCHANGED port)
  /\ UNCHANGED <<lasting, wanted, state, orderly, spoiled>>

\* A server in a process answers and offers from here on.
BeReady ==
  /\ state = "starting" /\ state' = "ready"
  /\ IF lasting THEN offered /\ UNCHANGED offerVars ELSE offered' /\ port'
  /\ UNCHANGED <<lasting, wanted, orderly, spoiled>>

BeginEnd ==
  /\ state = "ready" \/ (~ wanted /\ state = "starting")
  /\ state' = "ending"
  /\ UNCHANGED <<lasting, wanted, offerVars, orderly, spoiled>>

\* First the offer, then the port.
Withdraw ==
  /\ ~ wanted /\ state = "ending"
  /\ \/ offered /\ ~ offered' /\ UNCHANGED port
     \/ (~ offered \/ spoiled) /\ ~ port' /\ UNCHANGED offered
  /\ UNCHANGED <<lasting, wanted, state, orderly, spoiled>>

\* The end goes on as if nothing had happened.
FailToWithdraw ==
  /\ ~ wanted /\ state = "ending" /\ spoiled'
  /\ UNCHANGED offered \/ ~ offered'
  /\ UNCHANGED <<lasting, wanted, state, port, orderly>>

\* A container that fails while it starts may spoil what is offered.
End ==
  /\ state \notin {"down", "gone"} /\ state' = "down" /\ ~ orderly'
  /\ IF lasting
     THEN UNCHANGED port /\ (UNCHANGED offered \/ (state = "starting" /\ ~ offered'))
     ELSE ~ offered' /\ ~ port'
  /\ UNCHANGED <<lasting, wanted, spoiled>>

EndOrderly ==
  /\ ~ wanted /\ state \in {"ready", "ending"} /\ state' = "down" /\ orderly'
  /\ IF lasting
     THEN (spoiled \/ ~ (offered \/ port)) /\ UNCHANGED offerVars
     ELSE ~ offered' /\ ~ port'
  /\ UNCHANGED <<lasting, wanted, spoiled>>

Remove ==
  /\ state = "down" /\ ~ wanted /\ state' = "gone"
  /\ ~ offered' /\ ~ port'
  /\ UNCHANGED <<lasting, wanted, orderly, spoiled>>

Next ==
  \/ Delete \/ Start \/ Prepare \/ BeReady \/ BeginEnd \/ Withdraw \/ FailToWithdraw
  \/ End \/ EndOrderly \/ Remove

Spec == Init /\ [][Next]_vars

-----------------------------------------------------------------------------
\* What a client may rely on.

Promise ==
  /\ state = "ready" => offered
  /\ state = "down" /\ orderly => spoiled \/ ~ (offered \/ port)
  /\ state = "gone" => ~ wanted /\ ~ offered /\ ~ port

\* What a kernel server offers stays, over the ends of its containers, until
\* the pod is deleted or a later container fails to offer it again.
OfferLasts ==
  [][lasting /\ offered /\ ~ offered' => ~ wanted \/ state = "starting"]_vars
=============================================================================
