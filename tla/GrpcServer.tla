----------------------------- MODULE GrpcServer -----------------------------
(***************************************************************************)
(* The start, the life and the end of the plugin's process:                *)
(* cmd/nfsexportplugin/main.go, Driver.Run of nfsexport.go and the         *)
(* non-blocking gRPC server of server.go, with the goroutines main, serve  *)
(* and, in test mode, the one that stops the server.  The containers of    *)
(* Procs share the directory of the socket (a hostPath in                  *)
(* charts/templates/node.yaml): the old and the new pod of one node.  The  *)
(* grpc library, the kubelet and its liveness probe are external.          *)
(***************************************************************************)
EXTENDS Naturals

CONSTANTS
  Procs,       \* the containers
  Endpoints,   \* the values of --endpoint
  None,        \* nothing is at the address
  Stale,       \* the socket file of a process that is no more
  Blocked,     \* something that os.Remove cannot remove
  FaultKinds,  \* see Fault
  MaxFaults    \* bound on their number in one behaviour

ASSUME AddressAssumption ==
  /\ Procs \cap {None, Stale, Blocked} = {}
  /\ None \notin {Stale, Blocked} /\ Stale # Blocked
ASSUME EndpointsAssumption ==
  Endpoints \subseteq
    [scheme : {"unix", "tcp", "http"}, lower : BOOLEAN, rest : BOOLEAN]
ASSUME BoundAssumption == MaxFaults \in Nat

VARIABLES
  endpoint,  \* its scheme, whether that is written in lower case, and
             \* whether anything follows "://"
  testMode,  \* the argument of Run
  proc,      \* the process of each container
  sock,      \* what is at the address: the listener of a process, or rubbish
  faults

vars == <<endpoint, testMode, proc, sock, faults>>

\* The goroutines main, serve and stopper; the counter of s.wg; s.server is
\* not nil; how far the grpc server has stopped; a call is being handled.
NoProcess ==
  [main |-> "Down", serve |-> "none", stopper |-> "none", wg |-> 0,
   server |-> FALSE, stop |-> "no", busy |-> FALSE]

Processes ==
  [main : {"Down", "Gone", "config", "run", "wait", "returned"},
   serve : {"none", "parse", "remove", "listen", "register", "mode", "serve",
            "serving", "returned"},
   stopper : {"none", "wait", "sleep", "called"},
   wg : 0..1, server : BOOLEAN, stop : {"no", "closing", "done"}, busy : BOOLEAN]

TypeOK ==
  /\ endpoint \in Endpoints /\ testMode \in BOOLEAN
  /\ proc \in [Procs -> Processes]
  /\ sock \in Procs \cup {None, Stale, Blocked}
  /\ faults \in 0..MaxFaults

Init ==
  /\ endpoint \in Endpoints /\ testMode \in BOOLEAN
  /\ proc = [p \in Procs |-> NoProcess]
  /\ sock \in IF endpoint.scheme = "unix" THEN {None, Stale, Blocked} ELSE {None}
  /\ faults = 0

\* A cluster configuration that cannot be read ("config"), an error of Accept
\* ("accept"), a crash ("kill"), the deletion of the pod ("retire"), a caller
\* of Stop or ForceStop ("stop").
Fault(kind) ==
  /\ kind \in FaultKinds /\ faults < MaxFaults
  /\ faults' = faults + 1

NoFault == UNCHANGED faults

-----------------------------------------------------------------------------
(* The processes and the address. *)

Becomes(p, q) ==
  /\ proc' = [proc EXCEPT ![p] = q]
  /\ UNCHANGED <<endpoint, testMode>>

\* serve goes on at pc.
Goto(p, pc) == Becomes(p, [proc[p] EXCEPT !.serve = pc])

\* A process that ends closes nothing: a socket file stays, a port is freed.
Ends(p) ==
  /\ Becomes(p, NoProcess)
  /\ sock' = IF sock # p THEN sock
             ELSE IF endpoint.scheme = "unix" THEN Stale ELSE None

Fatal(p) == Ends(p) /\ NoFault

\* Closing a Unix listener unlinks its path, whoever listens there by now.
CloseListener(p) ==
  sock' = IF sock = p \/ (endpoint.scheme = "unix" /\ sock # Blocked)
          THEN None ELSE sock

Serving(p) == proc[p].serve = "serving" /\ proc[p].stop = "no"

Reachable == sock \in Procs /\ Serving(sock)

-----------------------------------------------------------------------------
(* main *)

\* main.go:41-60 with getKubeClient, 64-88.
Configure(p) ==
  /\ proc[p].main = "config"
  /\ \/ NoFault /\ Becomes(p, [proc[p] EXCEPT !.main = "run"]) /\ UNCHANGED sock
     \/ Fault("config") /\ Ends(p)

\* main.go:61 with Run, nfsexport.go:118-135, and Start, server.go:52-57.
Run_NoAdd(p) ==
  /\ proc[p].main = "run"
  /\ Becomes(p, [proc[p] EXCEPT !.main = "wait", !.serve = "parse"])
  /\ NoFault /\ UNCHANGED sock

Run(p) ==
  /\ proc[p].main = "run"
  /\ Becomes(p, [proc[p] EXCEPT !.main = "wait", !.wg = 1, !.serve = "parse"])
  /\ NoFault /\ UNCHANGED sock

\* server.go:59-61.
WaitReturns(p) ==
  /\ proc[p].main = "wait" /\ proc[p].wg = 0
  /\ Becomes(p, [proc[p] EXCEPT !.main = "returned"])
  /\ NoFault /\ UNCHANGED sock

\* main.go:48-49; in test mode the end of the test.
ExitZero(p) == proc[p].main = "returned" /\ Fatal(p)

-----------------------------------------------------------------------------
(* serve *)

\* utils.go:69-77.  The test ignores the case; what is returned keeps it.
ValidEndpoint == endpoint.scheme \in {"unix", "tcp"} /\ endpoint.rest

\* server.go:73-78.
Parse(p) ==
  /\ proc[p].serve = "parse" /\ NoFault
  /\ \/ ~ ValidEndpoint /\ Ends(p)
     \/ /\ ValidEndpoint /\ UNCHANGED sock
        /\ Goto(p, IF endpoint.scheme = "unix" /\ endpoint.lower
                   THEN "remove" ELSE "listen")

\* server.go:79-82.
Remove_Kept(p) ==
  /\ proc[p].serve = "remove" /\ NoFault
  /\ Goto(p, "listen") /\ UNCHANGED sock

Remove(p) ==
  /\ proc[p].serve = "remove" /\ NoFault
  /\ \/ sock = Blocked /\ Ends(p)
     \/ sock # Blocked /\ sock' = None /\ Goto(p, "listen")

\* server.go:85-88.  net.Listen knows the networks in lower case only, and
\* fails if there is anything at the address.
Listen(p) ==
  /\ proc[p].serve = "listen" /\ NoFault
  /\ \/ endpoint.lower /\ sock = None /\ sock' = p /\ Goto(p, "register")
     \/ ~ endpoint.lower /\ Ends(p)
     \/ sock # None /\ Ends(p)

\* server.go:90-104.
Register(p) ==
  /\ proc[p].serve = "register" /\ NoFault /\ UNCHANGED sock
  /\ Becomes(p, [proc[p] EXCEPT !.server = TRUE, !.serve = "mode"])

\* server.go:107-115.
StartStopper_Always(p) ==
  [proc[p] EXCEPT !.wg = 0, !.stopper = "wait", !.serve = "serve"]

StartStopper(p) ==
  IF testMode
  THEN [proc[p] EXCEPT !.wg = @ - 1, !.stopper = "wait", !.serve = "serve"]
  ELSE [proc[p] EXCEPT !.serve = "serve"]

Mode(p) ==
  /\ proc[p].serve = "mode" /\ NoFault /\ UNCHANGED sock
  /\ Becomes(p, StartStopper(p))

\* server.go:119-122.  A Serve that comes after the stop closes the listener
\* and returns an error.
Serve_Anyway(p) ==
  /\ proc[p].serve = "serve" /\ NoFault /\ UNCHANGED sock
  /\ Goto(p, "serving")

Serve(p) ==
  /\ proc[p].serve = "serve" /\ NoFault
  /\ \/ proc[p].stop = "no" /\ Goto(p, "serving") /\ UNCHANGED sock
     \/ proc[p].stop # "no" /\ Becomes(p, NoProcess) /\ CloseListener(p)

\* Serve returns nil after a stop; if Accept fails it closes the listener and
\* returns an error.
ServeEnds(p) ==
  /\ proc[p].serve = "serving"
  /\ \/ proc[p].stop = "done" /\ Goto(p, "returned") /\ NoFault /\ UNCHANGED sock
     \/ /\ proc[p].stop = "no" /\ Fault("accept")
        /\ Becomes(p, NoProcess) /\ CloseListener(p)

\* A unary call through the interceptor, utils.go:88-100.
AcceptCall(p) ==
  /\ sock = p /\ Serving(p) /\ ~ proc[p].busy
  /\ Becomes(p, [proc[p] EXCEPT !.busy = TRUE])
  /\ NoFault /\ UNCHANGED sock

\* A server may have nothing to do.
Waits(p) == Serving(p) /\ UNCHANGED vars

FinishCall(p) ==
  /\ proc[p].busy
  /\ Becomes(p, [proc[p] EXCEPT !.busy = FALSE])
  /\ NoFault /\ UNCHANGED sock

-----------------------------------------------------------------------------
(* The ends of the grpc server. *)

\* GracefulStop: no new calls from now on.
Stopping(p, q) ==
  /\ Becomes(p, [q EXCEPT !.stop = IF @ = "no" THEN "closing" ELSE @])
  /\ IF Serving(p) THEN CloseListener(p) ELSE UNCHANGED sock

\* It returns when the calls under way have been answered.
Stopped(p) ==
  /\ proc[p].stop = "closing" /\ ~ proc[p].busy
  /\ Becomes(p, [proc[p] EXCEPT !.stop = "done"])
  /\ NoFault /\ UNCHANGED sock

\* server.go:109-114: Wait, the sleep of a second, GracefulStop.
StopperWakes(p) ==
  /\ proc[p].stopper = "wait" /\ proc[p].wg = 0
  /\ Becomes(p, [proc[p] EXCEPT !.stopper = "sleep"])
  /\ NoFault /\ UNCHANGED sock

StopperStops_Exits(p) ==
  /\ proc[p].stopper = "sleep" /\ NoFault /\ UNCHANGED sock
  /\ Becomes(p, [proc[p] EXCEPT !.stopper = "called"])

StopperStops(p) ==
  /\ proc[p].stopper = "sleep" /\ NoFault
  /\ Stopping(p, [proc[p] EXCEPT !.stopper = "called"])

\* server.go:63-69, for whoever holds the server.  s.server is read without
\* synchronisation: a caller may see nil even after it was set.
Stop(p) ==
  /\ proc[p].main = "wait" /\ Fault("stop")
  /\ Ends(p) \/ (proc[p].server /\ Stopping(p, proc[p]))

ForceStop(p) ==
  /\ proc[p].main = "wait" /\ Fault("stop")
  /\ \/ Ends(p)
     \/ /\ proc[p].server
        /\ Becomes(p, [proc[p] EXCEPT !.stop = "done", !.busy = FALSE])
        /\ IF Serving(p) THEN CloseListener(p) ELSE UNCHANGED sock

-----------------------------------------------------------------------------
(* The kubelet *)

StartContainer(p) ==
  /\ proc[p].main = "Down"
  /\ Becomes(p, [proc[p] EXCEPT !.main = "config"])
  /\ NoFault /\ UNCHANGED sock

Crash(p) == proc[p].main \notin {"Down", "Gone"} /\ Fault("kill") /\ Ends(p)

\* The pod is deleted; another one of the node takes its place.
Retire(p) ==
  /\ \E q \in Procs \ {p} : proc[q].main # "Gone"
  /\ proc[p].main = "Down" /\ Fault("retire")
  /\ Becomes(p, [NoProcess EXCEPT !.main = "Gone"])
  /\ UNCHANGED sock

Starting(p) ==
  proc[p].main \in {"config", "run"} \/
  proc[p].serve \in {"parse", "remove", "listen", "register", "mode", "serve"}

\* The liveness probe calls the address, not the process.  Five failures in
\* two minutes are more than a start takes.
ProbeFails(p) ==
  /\ ~ testMode /\ proc[p].main = "wait" /\ ~ Reachable
  /\ \A q \in Procs : ~ Starting(q)
  /\ Fatal(p)

Process(p) ==
  \/ Configure(p) \/ Run(p) \/ WaitReturns(p) \/ ExitZero(p)
  \/ Parse(p) \/ Remove(p) \/ Listen(p) \/ Register(p) \/ Mode(p) \/ Serve(p)
  \/ ServeEnds(p) \/ FinishCall(p)
  \/ Stopped(p) \/ StopperWakes(p) \/ StopperStops(p)

Next ==
  \E p \in Procs :
    \/ Process(p) \/ AcceptCall(p) \/ Stop(p) \/ ForceStop(p)
    \/ StartContainer(p) \/ Crash(p) \/ Retire(p) \/ ProbeFails(p)
    \/ Waits(p)

Spec == Init /\ [][Next]_vars

\* Each goroutine runs, Accept returns an error only by accident, calls are
\* answered, and the kubelet starts and probes its containers.
Fairness ==
  \A p \in Procs :
    /\ WF_vars(Configure(p)) /\ WF_vars(Run(p))
    /\ WF_vars(Parse(p) \/ Remove(p) \/ Listen(p) \/ Register(p) \/ Mode(p)
               \/ Serve(p))
    /\ WF_vars(ServeEnds(p)) /\ WF_vars(FinishCall(p)) /\ WF_vars(Stopped(p))
    /\ WF_vars(StopperWakes(p)) /\ WF_vars(StopperStops(p))
    /\ WF_vars(StartContainer(p)) /\ WF_vars(ProbeFails(p))

FairSpec == Spec /\ Fairness

-----------------------------------------------------------------------------
\* The goroutine that ends a test never reads s.server before it is set, and
\* Run never returns before there is a server: the wait group orders them
\* (server.go:54, 94, 108 and 111-113).
ServerSetInTime ==
  \A p \in Procs :
    (proc[p].stopper \in {"sleep", "called"} \/ proc[p].main = "returned") =>
      proc[p].server

\* In production Run does not return, so the process lives until it is killed
\* or fails (server.go:54 against 107-108, main.go:48-49).
RunReturnsOnlyInTests ==
  \A p \in Procs : proc[p].main = "returned" => testMode

\* A server that was told to stop is not reachable any more, whether Serve
\* had been called or not, and answers what it had accepted before it is done
\* (server.go:109-114 and 119).
StopSticks ==
  \A p \in Procs :
    proc[p].stop # "no" => /\ proc[p].serve = "serving" => sock # p
                           /\ proc[p].stop = "done" => ~ proc[p].busy

\* The promise to the callers (module PluginService), which the goroutines, the
\* socket file that anybody may remove, stops before Serve and the restarts of
\* the containers keep (server.go:52-123).
StateOf(q) ==
  IF q.stop # "no" THEN q.stop ELSE IF q.serve = "serving" THEN "open" ELSE "off"

Service == INSTANCE PluginService WITH
  Servers <- Procs,
  Nobody <- None,
  state <- [p \in Procs |-> StateOf(proc[p])],
  reached <- IF sock \in Procs /\ proc[sock].serve = "serving" THEN sock ELSE None,
  busy <- {p \in Procs : proc[p].busy}

PluginServed == Service!Spec

\* Whatever a process leaves behind, and whoever takes the socket from whom,
\* in the end the kubelet finds a server at a usable address
\* (server.go:79-88, the restarts of the container and its liveness probe).
Usable == ValidEndpoint /\ endpoint.lower

ProductionServes ==
  <>[](testMode \/ ~ Usable \/ sock = Blocked \/ Reachable)

\* A test ends: what serves stops serving (server.go:107-122).
TestsEnd ==
  \A p \in Procs :
    (testMode /\ proc[p].serve = "serving") ~> proc[p].serve # "serving"
=============================================================================
