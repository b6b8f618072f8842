-------------------------- MODULE GrpcServerProofs --------------------------
(* Proofs about the process of the plugin, for every number of containers on *)
(* the node, every set of endpoints and every number of faults.              *)
EXTENDS GrpcServer, TLAPS

\* The goroutine serve before and after it has set s.server.
Before == {"parse", "remove", "listen", "register"}
After == {"mode", "serve", "serving", "returned"}

\* A process q that has not called Run holds nothing; afterwards the counter
\* of the wait group reaches zero in tests only, once there is a server, and
\* nothing that waits for it goes on earlier.
Ordered(q) ==
  /\ q.main \in {"Down", "Gone", "config", "run"} =>
       q = [NoProcess EXCEPT !.main = q.main]
  /\ q.server <=> q.serve \in After
  /\ q.serve \in Before \cup {"mode"} => q.wg = 1
  /\ q.main \in {"wait", "returned"} /\ q.wg = 0 => testMode /\ q.server
  /\ q.main = "returned" \/ q.stopper \in {"sleep", "called"} =>
       q.main \in {"wait", "returned"} /\ q.wg = 0

\* StopSticks for one process q, which is p's.
Silent(p, q) ==
  q.stop # "no" => /\ q.serve = "serving" => sock # p
                   /\ q.stop = "done" => ~ q.busy

IInv ==
  /\ TypeOK
  /\ \A p \in Procs : Ordered(proc[p]) /\ Silent(p, proc[p])

\* A container without a process.
LEMMA NoProcessOK ==
  ASSUME NEW m \in {"Down", "Gone", "config", "run"}, NEW p
  PROVE  LET q == [NoProcess EXCEPT !.main = m] IN
         q \in Processes /\ Ordered(q) /\ Silent(p, q)
<1> DEFINE q == [NoProcess EXCEPT !.main = m]
<1>1. NoProcess \in Processes
  BY DEF NoProcess, Processes
<1>2. q \in Processes
  BY <1>1 DEF Processes
<1>3. /\ q.main = m /\ q.serve = "none" /\ q.stopper = "none"
      /\ q.server = FALSE /\ q.stop = "no"
  BY DEF NoProcess
<1>4. Silent(p, q)
  BY <1>3 DEF Silent
<1>5. Ordered(q)
  BY <1>3 DEF Ordered, Before, After
<1> QED BY <1>2, <1>4, <1>5

\* Nothing runs at first.
LEMMA InitInv == Init => IInv
<1> SUFFICES ASSUME Init PROVE IInv
  OBVIOUS
<1>1. NoProcess = [NoProcess EXCEPT !.main = "Down"]
  BY DEF NoProcess
<1>2. proc \in [Procs -> Processes]
  BY <1>1, NoProcessOK DEF Init
<1>3. faults \in 0..MaxFaults
  BY BoundAssumption DEF BoundAssumption, Init
<1>4. sock \in Procs \cup {None, Stale, Blocked}
  BY DEF Init
<1>5. TypeOK
  BY <1>2, <1>3, <1>4 DEF TypeOK, Init
<1>6. ASSUME NEW p \in Procs PROVE Ordered(proc[p]) /\ Silent(p, proc[p])
  BY <1>1, NoProcessOK DEF Init
<1> QED BY <1>5, <1>6 DEF IInv

\* A fault is one of the bounded number; other steps leave the counter.
LEMMA FaultCount ==
  ASSUME TypeOK, NEW kind, NoFault \/ Fault(kind) PROVE faults' \in 0..MaxFaults
BY BoundAssumption DEF BoundAssumption, TypeOK, NoFault, Fault

\* The step of one process keeps the invariant if its new state does, and if
\* it gives the address to no process but its own.
LEMMA BecomesInv ==
  ASSUME IInv, NEW p \in Procs, NEW q \in Processes, Becomes(p, q),
         Ordered(q), q.stop # "no" => /\ q.serve = "serving" => sock' # p
                                      /\ q.stop = "done" => ~ q.busy,
         sock' \in {sock, None, Stale, p}, faults' \in 0..MaxFaults
  PROVE  IInv'
<1>1. /\ proc' = [proc EXCEPT ![p] = q]
      /\ proc \in [Procs -> Processes]
      /\ UNCHANGED <<endpoint, testMode>>
  BY DEF Becomes, IInv, TypeOK
<1>2. proc' \in [Procs -> Processes] /\ proc'[p] = q
  BY <1>1
<1>3. TypeOK'
  BY <1>1, <1>2 DEF IInv, TypeOK
<1>4. ASSUME NEW r \in Procs PROVE Ordered(proc[r])' /\ Silent(r, proc[r])'
  <2>1. CASE r = p
    BY <1>1, <1>2, <2>1 DEF Ordered, Silent
  <2>2. CASE r # p
    <3>1. proc'[r] = proc[r]
      BY <1>1, <2>2
    <3>2. sock' = r => sock = r
      BY <2>2, AddressAssumption DEF AddressAssumption
    <3> QED BY <1>1, <3>1, <3>2 DEF IInv, Ordered, Silent
  <2> QED BY <2>1, <2>2
<1> QED BY <1>3, <1>4 DEF IInv

\* A process that is no more leaves nothing but rubbish.
LEMMA EndsInv ==
  ASSUME IInv, NEW p \in Procs, Becomes(p, NoProcess),
         sock' \in {sock, None, Stale}, faults' \in 0..MaxFaults
  PROVE  IInv'
<1>1. NoProcess = [NoProcess EXCEPT !.main = "Down"] /\ NoProcess.stop = "no"
  BY DEF NoProcess
<1>2. NoProcess \in Processes /\ Ordered(NoProcess)
  BY <1>1, NoProcessOK
<1> QED BY <1>1, <1>2, BecomesInv

\* main and the kubelet: each of their steps keeps the invariant.
LEMMA MainInv ==
  ASSUME IInv, NEW p \in Procs,
         \/ Configure(p) \/ Run(p) \/ WaitReturns(p) \/ ExitZero(p)
         \/ StartContainer(p) \/ Crash(p) \/ Retire(p) \/ ProbeFails(p)
  PROVE  IInv'
<1>0. TypeOK /\ proc[p] \in Processes /\ Ordered(proc[p]) /\ Silent(p, proc[p])
  BY DEF IInv, TypeOK
<1>1. CASE Configure(p) /\ NoFault /\ UNCHANGED sock
               /\ Becomes(p, [proc[p] EXCEPT !.main = "run"])
  <2>1. [proc[p] EXCEPT !.main = "run"] = [NoProcess EXCEPT !.main = "run"]
    BY <1>0, <1>1 DEF Configure, Ordered, NoProcess
  <2>2. [NoProcess EXCEPT !.main = "run"].stop = "no"
    BY DEF NoProcess
  <2> QED BY <1>0, <1>1, <2>1, <2>2, NoProcessOK, FaultCount, BecomesInv
<1>2. CASE Run(p)
  <2> DEFINE q == [proc[p] EXCEPT !.main = "wait", !.wg = 1, !.serve = "parse"]
  <2>1. proc[p] = [NoProcess EXCEPT !.main = "run"]
    BY <1>0, <1>2 DEF Run, Ordered
  <2>2. q \in Processes
    <3>1. proc[p] \in Processes /\ 1 \in 0..1
      BY <1>0
    <3> QED BY <3>1 DEF Processes
  <2>3. /\ q.main = "wait" /\ q.serve = "parse" /\ q.stopper = "none"
        /\ q.wg = 1 /\ q.server = FALSE /\ q.stop = "no"
    BY <1>0, <2>1 DEF NoProcess, Processes
  <2> HIDE DEF q
  <2>4. Ordered(q)
    BY <2>3 DEF Ordered, Before, After
  <2>5. Becomes(p, q) /\ UNCHANGED sock /\ NoFault
    BY <1>2 DEF Run, q
  <2> QED BY <1>0, <2>2, <2>3, <2>4, <2>5, FaultCount, BecomesInv
<1>3. CASE WaitReturns(p)
  <2> DEFINE q == [proc[p] EXCEPT !.main = "returned"]
  <2>1. q \in Processes /\ Ordered(q)
    BY <1>0, <1>3 DEF WaitReturns, Processes, Ordered
  <2>2. /\ q.stop # "no" => /\ q.serve = "serving" => sock # p
                            /\ q.stop = "done" => ~ q.busy
    BY <1>0 DEF Silent, Processes
  <2> HIDE DEF q
  <2>3. Becomes(p, q) /\ UNCHANGED sock /\ NoFault
    BY <1>3 DEF WaitReturns, q
  <2> QED BY <1>0, <2>1, <2>2, <2>3, FaultCount, BecomesInv
<1>4. CASE Ends(p) /\ (NoFault \/ \E kind \in {"config", "kill"} : Fault(kind))
  BY <1>0, <1>4, EndsInv, FaultCount DEF Ends
<1>5. CASE StartContainer(p) \/ Retire(p)
  <2>1. PICK m \in {"config", "Gone"} :
          Becomes(p, [NoProcess EXCEPT !.main = m]) /\ UNCHANGED sock
    <3>1. CASE StartContainer(p)
      <4>1. [proc[p] EXCEPT !.main = "config"] = [NoProcess EXCEPT !.main = "config"]
        BY <1>0, <3>1 DEF StartContainer, Ordered, NoProcess
      <4> QED BY <3>1, <4>1 DEF StartContainer
    <3> QED BY <1>5, <3>1 DEF Retire
  <2>2. [NoProcess EXCEPT !.main = m].stop = "no"
    BY DEF NoProcess
  <2>3. faults' \in 0..MaxFaults
    BY <1>0, <1>5, FaultCount DEF StartContainer, Retire
  <2> QED BY <2>1, <2>2, <2>3, NoProcessOK, BecomesInv
<1> QED
  BY <1>1, <1>2, <1>3, <1>4, <1>5
     DEF Configure, ExitZero, Fatal, Crash, ProbeFails

\* Only a process that has called Run does anything.
LEMMA ActiveMain ==
  ASSUME NEW q \in Processes, Ordered(q),
         q.serve # "none" \/ q.stopper # "none" \/ q.stop # "no" \/ q.busy \/ q.server
  PROVE  q.main \in {"wait", "returned"}
BY DEF Ordered, Processes, NoProcess

\* The goroutine serve goes on at pc.
LEMMA GotoInv ==
  ASSUME IInv, NEW p \in Procs, proc[p].serve # "none",
         NEW pc \in Before \cup {"serving", "returned"}, Goto(p, pc),
         proc[p].server <=> pc \in After, pc \in Before => proc[p].serve \in Before,
         pc = "serving" => proc[p].stop = "no",
         sock' \in {sock, None, p}, NoFault
  PROVE  IInv'
<1> DEFINE q == [proc[p] EXCEPT !.serve = pc]
<1>0. TypeOK /\ proc[p] \in Processes /\ Ordered(proc[p]) /\ Silent(p, proc[p])
  BY DEF IInv, TypeOK
<1>1. q \in Processes
  BY <1>0 DEF Processes, Before
<1>2. q.serve = pc /\ \A f \in {"main", "stopper", "wg", "server", "stop", "busy"} :
                        q[f] = proc[p][f]
  BY <1>0 DEF Processes
<1>3. proc[p].main \in {"wait", "returned"}
  BY <1>0, ActiveMain
<1>4. Becomes(p, q)
  BY DEF Goto
<1> HIDE DEF q
<1>5. /\ q.main = proc[p].main /\ q.stopper = proc[p].stopper /\ q.wg = proc[p].wg
      /\ q.server = proc[p].server /\ q.stop = proc[p].stop /\ q.busy = proc[p].busy
  BY <1>2
<1>6. Ordered(q)
  BY <1>0, <1>2, <1>3, <1>5 DEF Ordered, Before, After
<1>7. q.stop # "no" => /\ q.serve = "serving" => sock' # p
                       /\ q.stop = "done" => ~ q.busy
  BY <1>0, <1>2, <1>5 DEF Silent
<1> QED BY <1>0, <1>1, <1>4, <1>6, <1>7, FaultCount, BecomesInv

\* serve: each of its steps keeps the invariant.
LEMMA ServeInv ==
  ASSUME IInv, NEW p \in Procs,
         \/ Parse(p) \/ Remove(p) \/ Listen(p) \/ Register(p) \/ Mode(p)
         \/ Serve(p) \/ ServeEnds(p)
  PROVE  IInv'
<1>0. TypeOK /\ proc[p] \in Processes /\ Ordered(proc[p]) /\ Silent(p, proc[p])
  BY DEF IInv, TypeOK
<1>1. CASE Ends(p) /\ NoFault
  BY <1>0, <1>1, EndsInv, FaultCount DEF Ends
<1>2. CASE Becomes(p, NoProcess) /\ CloseListener(p) /\ (NoFault \/ Fault("accept"))
  BY <1>0, <1>2, EndsInv, FaultCount DEF CloseListener
<1>3. CASE Parse(p) /\ ~ Ends(p)
  BY <1>0, <1>3, GotoInv DEF Parse, Ordered, Before, After
<1>4. CASE Remove(p) /\ ~ Ends(p)
  BY <1>0, <1>4, GotoInv DEF Remove, Ordered, Before, After
<1>5. CASE Listen(p) /\ ~ Ends(p)
  BY <1>0, <1>5, GotoInv DEF Listen, Ordered, Before, After
<1>6. CASE Register(p)
  <2> DEFINE q == [proc[p] EXCEPT !.server = TRUE, !.serve = "mode"]
  <2>1. q \in Processes /\ q.server = TRUE /\ q.serve = "mode"
    BY <1>0 DEF Processes
  <2>2. /\ q.main = proc[p].main /\ q.stopper = proc[p].stopper
        /\ q.wg = proc[p].wg /\ q.stop = proc[p].stop /\ q.busy = proc[p].busy
    BY <1>0 DEF Processes
  <2>3. Becomes(p, q) /\ UNCHANGED sock /\ NoFault
    BY <1>6 DEF Register
  <2> HIDE DEF q
  <2>4. proc[p].main \in {"wait", "returned"} /\ proc[p].wg = 1
    BY <1>0, <1>6, ActiveMain DEF Register, Ordered, Before
  <2>5. Ordered(q)
    BY <1>0, <2>1, <2>2, <2>4 DEF Ordered, Before, After
  <2> QED BY <1>0, <2>1, <2>2, <2>3, <2>5, FaultCount, BecomesInv DEF Silent
<1>7. CASE Mode(p)
  <2> DEFINE q == StartStopper(p)
  <2>1. proc[p].main \in {"wait", "returned"} /\ proc[p].wg = 1 /\ proc[p].server
    BY <1>0, <1>7, ActiveMain DEF Mode, Ordered, After
  <2>2. Becomes(p, q) /\ UNCHANGED sock /\ NoFault
    BY <1>7 DEF Mode
  <2>3. /\ q.main = proc[p].main /\ q.serve = "serve" /\ q.server = proc[p].server
        /\ q.stop = proc[p].stop /\ q.busy = proc[p].busy
    BY <1>0 DEF StartStopper, Processes
  <2>4. /\ testMode => q.wg = proc[p].wg - 1 /\ q.stopper = "wait"
        /\ ~ testMode => q.wg = proc[p].wg /\ q.stopper = proc[p].stopper
    BY <1>0 DEF StartStopper, Processes
  <2>5. q \in Processes
    <3>1. proc[p].wg - 1 \in 0..1
      BY <2>1
    <3> QED BY <1>0, <3>1 DEF StartStopper, Processes
  <2> HIDE DEF q
  <2>6. Ordered(q)
    BY <1>0, <2>1, <2>3, <2>4 DEF Ordered, Before, After
  <2> QED BY <1>0, <2>2, <2>3, <2>5, <2>6, FaultCount, BecomesInv DEF Silent
<1>8. CASE proc[p].serve = "serve" /\ NoFault /\ proc[p].stop = "no"
               /\ Goto(p, "serving") /\ UNCHANGED sock
  BY <1>0, <1>8, GotoInv DEF Ordered, Before, After
<1>9. CASE proc[p].serve = "serving" /\ Goto(p, "returned") /\ NoFault
               /\ UNCHANGED sock
  BY <1>0, <1>9, GotoInv DEF Ordered, Before, After
<1> QED BY <1>1, <1>2, <1>3, <1>4, <1>5, <1>6, <1>7, <1>8, <1>9
       DEF Parse, Remove, Listen, Serve, ServeEnds

\* A stop: the counter and the goroutine serve stay; the listener is closed if
\* Serve has it, and no call outlives the end.
LEMMA StopInv ==
  ASSUME IInv, NEW p \in Procs, NEW q \in Processes, Becomes(p, q),
         \A f \in {"main", "serve", "wg", "server"} : q[f] = proc[p][f],
         proc[p].main \in {"wait", "returned"},
         q.stopper \in {"sleep", "called"} => proc[p].wg = 0,
         IF Serving(p) /\ q.stop # "no" THEN CloseListener(p) ELSE UNCHANGED sock,
         q.stop = "no" => proc[p].stop = "no",
         q.stop = "done" => ~ q.busy, faults' \in 0..MaxFaults
  PROVE  IInv'
<1>1. TypeOK /\ proc[p] \in Processes /\ Ordered(proc[p]) /\ Silent(p, proc[p])
  BY DEF IInv, TypeOK
<1>2. /\ q.main = proc[p].main /\ q.serve = proc[p].serve /\ q.wg = proc[p].wg
      /\ q.server = proc[p].server
  OBVIOUS
<1>3. Ordered(q)
  BY <1>1, <1>2 DEF Ordered
<1>4. q.stop # "no" /\ q.serve = "serving" => sock' # p
  BY <1>1, <1>2, AddressAssumption DEF AddressAssumption, Silent, Serving, CloseListener
<1>5. sock' \in {sock, None, Stale, p}
  BY DEF CloseListener
<1> QED BY <1>3, <1>4, <1>5, BecomesInv

\* The ends of the grpc server and its calls: each keeps the invariant.
LEMMA EndInv ==
  ASSUME IInv, NEW p \in Procs,
         \/ AcceptCall(p) \/ FinishCall(p) \/ Stopped(p) \/ StopperWakes(p)
         \/ StopperStops(p) \/ Stop(p) \/ ForceStop(p)
  PROVE  IInv'
<1>0. TypeOK /\ proc[p] \in Processes /\ Ordered(proc[p]) /\ Silent(p, proc[p])
  BY DEF IInv, TypeOK
<1>1. CASE Ends(p) /\ Fault("stop")
  BY <1>0, <1>1, EndsInv, FaultCount DEF Ends
<1>2. CASE ~ (Ends(p) /\ Fault("stop"))
  <2>1. proc[p].main \in {"wait", "returned"}
    BY <1>0, <1>2, ActiveMain
       DEF AcceptCall, FinishCall, Stopped, StopperWakes, StopperStops, Stop,
           ForceStop, Serving
  <2>2. faults' \in 0..MaxFaults
    BY <1>0, FaultCount
       DEF AcceptCall, FinishCall, Stopped, StopperWakes, StopperStops, Stop,
           ForceStop
  <2>3. CASE AcceptCall(p)
    <3> DEFINE q == [proc[p] EXCEPT !.busy = TRUE]
    <3>1. /\ q \in Processes /\ q.stop = proc[p].stop /\ q.stopper = proc[p].stopper
          /\ \A f \in {"main", "serve", "wg", "server"} : q[f] = proc[p][f]
      BY <1>0 DEF Processes
    <3>2. Becomes(p, q) /\ UNCHANGED sock /\ proc[p].stop = "no"
      BY <2>3 DEF AcceptCall, Serving
    <3> HIDE DEF q
    <3> QED BY <1>0, <2>1, <2>2, <3>1, <3>2, StopInv DEF Ordered
  <2>4. CASE FinishCall(p)
    <3> DEFINE q == [proc[p] EXCEPT !.busy = FALSE]
    <3>1. /\ q \in Processes /\ q.stop = proc[p].stop /\ q.stopper = proc[p].stopper
          /\ ~ q.busy
          /\ \A f \in {"main", "serve", "wg", "server"} : q[f] = proc[p][f]
      BY <1>0 DEF Processes
    <3>2. Becomes(p, q) /\ UNCHANGED sock
      BY <2>4 DEF FinishCall
    <3> HIDE DEF q
    <3>3. ~ (Serving(p) /\ q.stop # "no")
      BY <3>1 DEF Serving
    <3> QED BY <1>0, <2>1, <2>2, <3>1, <3>2, <3>3, StopInv DEF Ordered
  <2>5. CASE Stopped(p)
    <3> DEFINE q == [proc[p] EXCEPT !.stop = "done"]
    <3>1. /\ q \in Processes /\ q.stop = "done" /\ q.stopper = proc[p].stopper
          /\ q.busy = proc[p].busy
          /\ \A f \in {"main", "serve", "wg", "server"} : q[f] = proc[p][f]
      BY <1>0 DEF Processes
    <3>2. Becomes(p, q) /\ UNCHANGED sock /\ ~ proc[p].busy /\ ~ Serving(p)
      BY <2>5 DEF Stopped, Serving
    <3> HIDE DEF q
    <3> QED BY <1>0, <2>1, <2>2, <3>1, <3>2, StopInv DEF Ordered
  <2>6. CASE StopperWakes(p)
    <3> DEFINE q == [proc[p] EXCEPT !.stopper = "sleep"]
    <3>1. /\ q \in Processes /\ q.stop = proc[p].stop /\ q.busy = proc[p].busy
          /\ \A f \in {"main", "serve", "wg", "server"} : q[f] = proc[p][f]
      BY <1>0 DEF Processes
    <3>2. Becomes(p, q) /\ UNCHANGED sock /\ proc[p].wg = 0
      BY <2>6 DEF StopperWakes
    <3> HIDE DEF q
    <3>3. ~ (Serving(p) /\ q.stop # "no")
      BY <3>1 DEF Serving
    <3> QED BY <1>0, <2>1, <2>2, <3>1, <3>2, <3>3, StopInv DEF Silent
  <2>7. ASSUME NEW s \in {"called", proc[p].stopper},
               s = "called" => proc[p].wg = 0,
               Stopping(p, [proc[p] EXCEPT !.stopper = s])
        PROVE  IInv'
    <3> DEFINE r == [proc[p] EXCEPT !.stopper = s]
               q == [r EXCEPT !.stop = IF @ = "no" THEN "closing" ELSE @]
    <3>1. s \in {"none", "wait", "sleep", "called"}
      BY <1>0 DEF Processes
    <3>2. /\ r \in Processes /\ r.stop = proc[p].stop /\ r.busy = proc[p].busy
          /\ r.stopper = s
          /\ \A f \in {"main", "serve", "wg", "server"} : r[f] = proc[p][f]
      BY <1>0, <3>1 DEF Processes
    <3>3. Becomes(p, q)
          /\ IF Serving(p) THEN CloseListener(p) ELSE UNCHANGED sock
      BY <2>7 DEF Stopping
    <3> HIDE DEF r
    <3>4. /\ q \in Processes /\ q.busy = r.busy /\ q.stopper = s
          /\ q.stop = IF r.stop = "no" THEN "closing" ELSE r.stop
          /\ \A f \in {"main", "serve", "wg", "server"} : q[f] = r[f]
      BY <3>2 DEF Processes
    <3> HIDE DEF q
    <3>5. s \in {"sleep", "called"} => proc[p].wg = 0
      BY <1>0, <2>7 DEF Ordered
    <3>6. q.stop # "no" /\ (q.stop = "done" => ~ q.busy)
      BY <1>0, <3>2, <3>4 DEF Silent
    <3>7. \A f \in {"main", "serve", "wg", "server"} : q[f] = proc[p][f]
      BY <3>2, <3>4
    <3> QED BY <2>1, <2>2, <3>3, <3>4, <3>5, <3>6, <3>7, StopInv
  <2>8. CASE StopperStops(p)
    BY <1>0, <2>7, <2>8 DEF StopperStops, Ordered
  <2>9. CASE Stop(p)
    <3>1. [proc[p] EXCEPT !.stopper = proc[p].stopper] = proc[p]
      BY <1>0 DEF Processes
    <3>2. Stopping(p, proc[p])
      BY <1>2, <2>9 DEF Stop
    <3>3. proc[p].stopper = "called" => proc[p].wg = 0
      BY <1>0 DEF Ordered
    <3>4. Stopping(p, [proc[p] EXCEPT !.stopper = proc[p].stopper])
      BY <3>1, <3>2
    <3> QED BY <2>7, <3>3, <3>4
  <2>10. CASE ForceStop(p)
    <3> DEFINE q == [proc[p] EXCEPT !.stop = "done", !.busy = FALSE]
    <3>1. /\ q \in Processes /\ q.stop = "done" /\ ~ q.busy
          /\ q.stopper = proc[p].stopper
          /\ \A f \in {"main", "serve", "wg", "server"} : q[f] = proc[p][f]
      BY <1>0 DEF Processes
    <3>2. /\ Becomes(p, q)
          /\ IF Serving(p) THEN CloseListener(p) ELSE UNCHANGED sock
      BY <1>2, <2>10 DEF ForceStop
    <3> HIDE DEF q
    <3> QED BY <1>0, <2>1, <2>2, <3>1, <3>2, StopInv DEF Ordered
  <2> QED BY <2>3, <2>4, <2>5, <2>6, <2>8, <2>9, <2>10
<1> QED BY <1>1, <1>2

\* Every step keeps the invariant.
LEMMA NextInv == IInv /\ [Next]_vars => IInv'
<1>1. ASSUME IInv, UNCHANGED vars PROVE IInv'
  BY <1>1 DEF vars, IInv, TypeOK, Ordered, Silent
<1>2. ASSUME IInv, Next PROVE IInv'
  <2>1. PICK p \in Procs :
          \/ Process(p) \/ AcceptCall(p) \/ Stop(p) \/ ForceStop(p)
          \/ StartContainer(p) \/ Crash(p) \/ Retire(p) \/ ProbeFails(p)
          \/ Waits(p)
    BY <1>2 DEF Next
  <2> QED BY <1>1, <1>2, <2>1, MainInv, ServeInv, EndInv DEF Process, Waits
<1> QED BY <1>1, <1>2

\* The invariant holds throughout the life of every container.
THEOREM ServerInvariant == Spec => []IInv
BY InitInv, NextInv, PTL DEF Spec

\* The variables stay in their types (server.go).
THEOREM ServerTypes == Spec => []TypeOK
<1>1. IInv => TypeOK
  BY DEF IInv
<1> QED BY <1>1, ServerInvariant, PTL

\* s.server is set before the goroutine that ends a test reads it, and before
\* Run returns (server.go:54, 94, 108 and 111-113).
THEOREM ServerInTime == Spec => []ServerSetInTime
<1>1. IInv => ServerSetInTime
  BY DEF IInv, Ordered, ServerSetInTime
<1> QED BY <1>1, ServerInvariant, PTL

\* Run returns in test mode only (server.go:54 against 107-108).
THEOREM ProductionRunStays == Spec => []RunReturnsOnlyInTests
<1>1. IInv => RunReturnsOnlyInTests
  BY DEF IInv, Ordered, RunReturnsOnlyInTests
<1> QED BY <1>1, ServerInvariant, PTL

\* A server that was told to stop is out of reach and answers what it had
\* accepted (server.go:109-114 and 119).
THEOREM StoppedServerIsSilent == Spec => []StopSticks
<1>1. IInv => StopSticks
  BY DEF IInv, Silent, StopSticks
<1> QED BY <1>1, ServerInvariant, PTL

-----------------------------------------------------------------------------
(* The plugin's processes implement PluginService. *)

\* What the abstract service sees of the state.
States == [p \in Procs |-> StateOf(proc[p])]
Reached == IF sock \in Procs /\ proc[sock].serve = "serving" THEN sock ELSE None
Busy == {p \in Procs : proc[p].busy}

Seen == INSTANCE PluginService WITH
  Servers <- Procs, Nobody <- None, state <- States, reached <- Reached, busy <- Busy

LEMMA SeenIsService ==
  /\ Seen!Init <=> Service!Init
  /\ Seen!Next <=> Service!Next
  /\ UNCHANGED Seen!vars <=> UNCHANGED Service!vars
  /\ Seen!Promise <=> Service!Promise
<1> USE DEF States, Reached, Busy, Seen!Moves, Service!Moves, Seen!Keeps, Service!Keeps
<1>1. UNCHANGED Seen!vars <=> UNCHANGED Service!vars
  BY DEF Seen!vars, Service!vars
<1>2. Seen!Lose <=> Service!Lose
  BY DEF Seen!Lose, Service!Lose
<1>3. ASSUME NEW p \in Procs PROVE Seen!Open(p) <=> Service!Open(p)
  BY DEF Seen!Open, Service!Open
<1>4. ASSUME NEW p \in Procs PROVE Seen!Call(p) <=> Service!Call(p)
  BY DEF Seen!Call, Service!Call
<1>5. ASSUME NEW p \in Procs PROVE Seen!Answer(p) <=> Service!Answer(p)
  BY DEF Seen!Answer, Service!Answer
<1>6. ASSUME NEW p \in Procs PROVE Seen!Refuse(p) <=> Service!Refuse(p)
  BY DEF Seen!Refuse, Service!Refuse
<1>7. ASSUME NEW p \in Procs PROVE Seen!Finish(p) <=> Service!Finish(p)
  BY DEF Seen!Finish, Service!Finish
<1>8. ASSUME NEW p \in Procs PROVE Seen!Drop(p) <=> Service!Drop(p)
  BY DEF Seen!Drop, Service!Drop
<1>9. Seen!Next <=> Service!Next
  BY <1>2, <1>3, <1>4, <1>5, <1>6, <1>7, <1>8, Zenon DEF Seen!Next, Service!Next
<1>10. Seen!Init <=> Service!Init
  BY DEF Seen!Init, Service!Init
<1>11. Seen!Promise <=> Service!Promise
  BY DEF Seen!Promise, Service!Promise
<1> QED BY <1>1, <1>9, <1>10, <1>11

\* What it sees of the step of one process.
LEMMA SeenOfStep ==
  ASSUME IInv, NEW p \in Procs, NEW q, Becomes(p, q)
  PROVE  /\ States' = [States EXCEPT ![p] = StateOf(q)]
         /\ Busy' = IF q.busy THEN Busy \cup {p} ELSE Busy \ {p}
<1>1. proc' = [proc EXCEPT ![p] = q] /\ DOMAIN proc = Procs
  BY DEF Becomes, IInv, TypeOK
<1>2. \A r \in Procs : proc'[r] = IF r = p THEN q ELSE proc[r]
  BY <1>1
<1>3. States' = [States EXCEPT ![p] = StateOf(q)]
  BY <1>2 DEF States
<1>4. Busy' = IF q.busy THEN Busy \cup {p} ELSE Busy \ {p}
  BY <1>2 DEF Busy
<1> QED BY <1>3, <1>4

\* A process that does not serve is not reached; whoever else is reached stays
\* so, or nobody is.
LEMMA ReachedOfStep ==
  ASSUME IInv, NEW p \in Procs, NEW q, Becomes(p, q),
         sock' \in {sock, None, Stale, p}, q.serve = "serving" => sock' # p
  PROVE  Reached' \in {Reached, None} /\ Reached' # p
<1>1. /\ \A r \in Procs : proc'[r] = IF r = p THEN q ELSE proc[r]
      /\ None \notin Procs /\ Stale \notin Procs
  BY AddressAssumption DEF AddressAssumption, Becomes, IInv, TypeOK
<1>2. CASE sock' = p
  BY <1>1, <1>2 DEF Reached
<1>3. CASE sock' # p
  BY <1>1, <1>3 DEF Reached
<1> QED BY <1>2, <1>3

\* A step that leaves the address and whether the process serves.
LEMMA ReachedStays ==
  ASSUME IInv, NEW p \in Procs, NEW q, Becomes(p, q), UNCHANGED sock,
         q.serve = "serving" <=> proc[p].serve = "serving"
  PROVE  Reached' = Reached
BY DEF Reached, Becomes, IInv, TypeOK

\* A process that ends, or drops its calls.
LEMMA DropRefines ==
  ASSUME IInv, NEW p \in Procs, NEW q, Becomes(p, q), ~ q.busy, StateOf(q) \in {"off", "done"},
         sock' \in {sock, None, Stale, p}, q.serve = "serving" => sock' # p
  PROVE  Seen!Next
<1>1. Busy' = Busy \ {p} /\ States' = [States EXCEPT ![p] = StateOf(q)]
  BY SeenOfStep
<1>2. Reached' \in {Reached, None} /\ Reached' # p
  BY ReachedOfStep
<1>3. Seen!Drop(p)
  BY <1>1, <1>2 DEF Seen!Drop, Seen!Moves, Seen!Keeps
<1> QED BY <1>3 DEF Seen!Next

\* A process that ends has nothing open, and no call.
LEMMA EndRefines ==
  ASSUME IInv, NEW p \in Procs, NEW m, Becomes(p, [NoProcess EXCEPT !.main = m]),
         sock' \in {sock, None, Stale}
  PROVE  Seen!Next
<1> DEFINE q == [NoProcess EXCEPT !.main = m]
<1>1. ~ q.busy /\ q.stop = "no" /\ q.serve = "none"
  BY DEF NoProcess
<1> HIDE DEF q
<1>2. StateOf(q) = "off"
  BY <1>1 DEF StateOf
<1> QED BY <1>1, <1>2, DropRefines DEF q

LEMMA EndsRefines ==
  ASSUME IInv, NEW p \in Procs, Becomes(p, NoProcess), sock' \in {sock, None, Stale}
  PROVE  Seen!Next
<1>1. NoProcess = [NoProcess EXCEPT !.main = "Down"]
  BY DEF NoProcess
<1> QED BY <1>1, EndRefines

\* A step that leaves the server and its calls alone, whatever becomes of the
\* address.
LEMMA QuietRefines ==
  ASSUME IInv, NEW p \in Procs, NEW q, Becomes(p, q), StateOf(q) = StateOf(proc[p]),
         q.busy = proc[p].busy, q.serve = "serving" => sock' # p,
         sock' \in {sock, None, Stale, p}
  PROVE  Seen!Next
<1>1. DOMAIN States = Procs /\ States[p] = StateOf(proc[p]) /\ (proc[p].busy <=> p \in Busy)
      /\ States = [r \in Procs |-> States[r]] /\ Busy \subseteq Procs
  BY DEF States, Busy
<1>2. States' = States
  BY <1>1, SeenOfStep
<1>3. Busy' = Busy
  BY <1>1, SeenOfStep
<1>4. Reached' \in {Reached, None}
  BY ReachedOfStep
<1>5. Seen!Lose
  BY <1>2, <1>3, <1>4 DEF Seen!Lose, Seen!Keeps
<1> QED BY <1>5 DEF Seen!Next

\* A step that the abstract service does not see.
LEMMA SilentRefines ==
  ASSUME IInv, NEW p \in Procs, NEW q, Becomes(p, q), UNCHANGED sock,
         q.busy = proc[p].busy, StateOf(q) = StateOf(proc[p]),
         q.serve = "serving" <=> proc[p].serve = "serving"
  PROVE  UNCHANGED Seen!vars
<1>1. DOMAIN States = Procs /\ States[p] = StateOf(proc[p]) /\ (proc[p].busy <=> p \in Busy)
      /\ States = [r \in Procs |-> States[r]] /\ Busy \subseteq Procs
  BY DEF States, Busy
<1>2. States' = States
  BY <1>1, SeenOfStep
<1>3. Busy' = Busy
  BY <1>1, SeenOfStep
<1>4. Reached' = Reached
  BY ReachedStays
<1> QED BY <1>2, <1>3, <1>4 DEF Seen!vars

\* main and the kubelet.
LEMMA MainRefines ==
  ASSUME IInv, NEW p \in Procs,
         \/ Configure(p) \/ Run(p) \/ WaitReturns(p) \/ ExitZero(p)
         \/ StartContainer(p) \/ Crash(p) \/ Retire(p) \/ ProbeFails(p)
  PROVE  Seen!Next \/ UNCHANGED Seen!vars
<1>0. TypeOK /\ proc[p] \in Processes /\ Ordered(proc[p])
  BY DEF IInv, TypeOK
<1>1. CASE Ends(p)
  BY <1>1, EndsRefines DEF Ends
<1>2. CASE Retire(p)
  BY <1>2, EndRefines DEF Retire
<1>3. ASSUME NEW m, Becomes(p, [proc[p] EXCEPT !.main = m]), UNCHANGED sock
      PROVE  UNCHANGED Seen!vars
  <2> DEFINE q == [proc[p] EXCEPT !.main = m]
  <2>1. q.stop = proc[p].stop /\ q.busy = proc[p].busy /\ q.serve = proc[p].serve
    BY <1>0 DEF Processes
  <2>2. Becomes(p, q)
    BY <1>3
  <2> HIDE DEF q
  <2>3. StateOf(q) = StateOf(proc[p])
    BY <2>1 DEF StateOf
  <2> QED BY <1>3, <2>1, <2>2, <2>3, SilentRefines
<1>4. CASE Run(p)
  <2> DEFINE q == [proc[p] EXCEPT !.main = "wait", !.wg = 1, !.serve = "parse"]
  <2>1. q.stop = proc[p].stop /\ q.busy = proc[p].busy /\ q.serve = "parse"
    BY <1>0 DEF Processes
  <2>2. Becomes(p, q) /\ UNCHANGED sock
    BY <1>4 DEF Run
  <2> HIDE DEF q
  <2>3. proc[p].serve = "none"
    BY <1>0, <1>4 DEF Run, Ordered, NoProcess
  <2>4. StateOf(q) = StateOf(proc[p])
    BY <2>1, <2>3 DEF StateOf
  <2> QED BY <2>1, <2>2, <2>4, QuietRefines
<1> QED BY <1>1, <1>2, <1>3, <1>4
       DEF Configure, WaitReturns, ExitZero, Fatal, StartContainer, Crash, ProbeFails

\* serve.
LEMMA ServeRefines ==
  ASSUME IInv, NEW p \in Procs,
         \/ Parse(p) \/ Remove(p) \/ Listen(p) \/ Register(p) \/ Mode(p)
         \/ Serve(p) \/ ServeEnds(p)
  PROVE  Seen!Next \/ UNCHANGED Seen!vars
<1>0. TypeOK /\ proc[p] \in Processes
  BY DEF IInv, TypeOK
<1>1. CASE Ends(p)
  BY <1>1, EndsRefines DEF Ends
<1>2. CASE Becomes(p, NoProcess) /\ CloseListener(p)
  BY <1>2, EndsRefines DEF CloseListener
<1>3. ASSUME NEW pc, Goto(p, pc), pc # "serving", proc[p].serve # "serving",
             sock' \in {sock, None, p}
      PROVE  Seen!Next
  <2> DEFINE q == [proc[p] EXCEPT !.serve = pc]
  <2>1. q.stop = proc[p].stop /\ q.busy = proc[p].busy /\ q.serve = pc
    BY <1>0 DEF Processes
  <2>2. Becomes(p, q)
    BY <1>3 DEF Goto
  <2> HIDE DEF q
  <2>3. StateOf(q) = StateOf(proc[p])
    BY <1>3, <2>1 DEF StateOf
  <2> QED BY <1>3, <2>1, <2>2, <2>3, QuietRefines
<1>4. CASE (Parse(p) \/ Remove(p) \/ Listen(p)) /\ ~ Ends(p)
  BY <1>3, <1>4 DEF Parse, Remove, Listen
<1>5. CASE Register(p)
  <2> DEFINE q == [proc[p] EXCEPT !.server = TRUE, !.serve = "mode"]
  <2>1. q.stop = proc[p].stop /\ q.busy = proc[p].busy /\ q.serve = "mode"
    BY <1>0 DEF Processes
  <2>2. Becomes(p, q) /\ UNCHANGED sock
    BY <1>5 DEF Register
  <2> HIDE DEF q
  <2>3. StateOf(q) = StateOf(proc[p])
    BY <1>5, <2>1 DEF StateOf, Register
  <2> QED BY <2>1, <2>2, <2>3, QuietRefines
<1>6. CASE Mode(p)
  <2> DEFINE q == StartStopper(p)
  <2>1. q.stop = proc[p].stop /\ q.busy = proc[p].busy /\ q.serve = "serve"
    BY <1>0 DEF StartStopper, Processes
  <2>2. Becomes(p, q) /\ UNCHANGED sock
    BY <1>6 DEF Mode
  <2> HIDE DEF q
  <2>3. StateOf(q) = StateOf(proc[p])
    BY <1>6, <2>1 DEF StateOf, Mode
  <2> QED BY <2>1, <2>2, <2>3, QuietRefines
<1>7. CASE /\ proc[p].serve = "serve" /\ proc[p].stop = "no"
           /\ Goto(p, "serving") /\ UNCHANGED sock
  <2> DEFINE q == [proc[p] EXCEPT !.serve = "serving"]
  <2>1. q.stop = "no" /\ q.busy = proc[p].busy /\ q.serve = "serving"
    BY <1>0, <1>7 DEF Processes
  <2>2. Becomes(p, q)
    BY <1>7 DEF Goto
  <2> HIDE DEF q
  <2>3. StateOf(q) = "open" /\ StateOf(proc[p]) = "off"
    BY <1>7, <2>1 DEF StateOf
  <2>4. States[p] = "off" /\ States' = [States EXCEPT ![p] = "open"]
    BY <2>2, <2>3, SeenOfStep DEF States
  <2>5. Busy' = Busy
    BY <2>1, <2>2, SeenOfStep DEF Busy
  <2>6. Reached' = Reached \/ (Reached = None /\ Reached' = p)
    <3>1. CASE sock = p
      BY <1>7, <2>1, <2>2, <3>1, AddressAssumption DEF Reached, Becomes, IInv, TypeOK
    <3>2. CASE sock # p
      BY <1>7, <2>2, <3>2 DEF Reached, Becomes, IInv, TypeOK
    <3> QED BY <3>1, <3>2
  <2>7. Seen!Open(p)
    BY <2>4, <2>5, <2>6 DEF Seen!Open, Seen!Moves
  <2> QED BY <2>7 DEF Seen!Next
<1>8. CASE /\ proc[p].serve = "serving" /\ proc[p].stop = "done"
           /\ Goto(p, "returned") /\ UNCHANGED sock
  <2> DEFINE q == [proc[p] EXCEPT !.serve = "returned"]
  <2>1. q.stop = proc[p].stop /\ q.busy = proc[p].busy /\ q.serve = "returned"
    BY <1>0 DEF Processes
  <2>2. Becomes(p, q)
    BY <1>8 DEF Goto
  <2> HIDE DEF q
  <2>3. StateOf(q) = StateOf(proc[p])
    BY <1>8, <2>1 DEF StateOf
  <2> QED BY <1>8, <2>1, <2>2, <2>3, QuietRefines
<1> QED BY <1>1, <1>2, <1>4, <1>5, <1>6, <1>7, <1>8 DEF Parse, Remove, Listen, Serve, ServeEnds

\* The calls and the ends of the grpc server.
LEMMA StopRefines ==
  ASSUME IInv, NEW p \in Procs,
         \/ AcceptCall(p) \/ FinishCall(p) \/ Stopped(p) \/ StopperWakes(p)
         \/ StopperStops(p) \/ Stop(p) \/ ForceStop(p)
  PROVE  Seen!Next \/ UNCHANGED Seen!vars
<1>0. /\ TypeOK /\ proc[p] \in Processes /\ Silent(p, proc[p])
      /\ States[p] = StateOf(proc[p]) /\ (proc[p].busy <=> p \in Busy)
  BY DEF IInv, TypeOK, States, Busy
<1>1. CASE Ends(p)
  BY <1>1, EndsRefines DEF Ends
<1>2. ASSUME NEW q, StateOf(q) = StateOf(proc[p]), Becomes(p, q)
      PROVE  States' = States
  <2>1. States = [r \in Procs |-> States[r]]
    BY DEF States
  <2> QED BY <1>0, <1>2, <2>1, SeenOfStep
<1>3. CASE AcceptCall(p)
  <2> DEFINE q == [proc[p] EXCEPT !.busy = TRUE]
  <2>1. q.stop = proc[p].stop /\ q.busy /\ q.serve = proc[p].serve
    BY <1>0 DEF Processes
  <2>2. Becomes(p, q) /\ UNCHANGED sock /\ sock = p /\ Serving(p) /\ p \notin Busy
    BY <1>0, <1>3 DEF AcceptCall
  <2> HIDE DEF q
  <2>3. StateOf(q) = StateOf(proc[p]) /\ States[p] = "open" /\ Reached = p
    BY <1>0, <2>1, <2>2 DEF StateOf, Serving, Reached
  <2>4. Busy' = Busy \cup {p} /\ States' = States /\ Reached' = Reached
    BY <1>2, <2>1, <2>2, <2>3, SeenOfStep, ReachedStays
  <2>5. Seen!Call(p)
    BY <2>2, <2>3, <2>4 DEF Seen!Call
  <2> QED BY <2>5 DEF Seen!Next
<1>4. CASE FinishCall(p)
  <2> DEFINE q == [proc[p] EXCEPT !.busy = FALSE]
  <2>1. q.stop = proc[p].stop /\ ~ q.busy /\ q.serve = proc[p].serve
    BY <1>0 DEF Processes
  <2>2. Becomes(p, q) /\ UNCHANGED sock
    BY <1>4 DEF FinishCall
  <2> HIDE DEF q
  <2>3. StateOf(q) = StateOf(proc[p])
    BY <2>1 DEF StateOf
  <2>4. Busy' = Busy \ {p} /\ States' = States /\ Reached' = Reached
    BY <1>2, <2>1, <2>2, <2>3, SeenOfStep, ReachedStays
  <2>5. Seen!Answer(p)
    BY <2>4 DEF Seen!Answer
  <2> QED BY <2>5 DEF Seen!Next
<1>5. CASE Stopped(p)
  <2> DEFINE q == [proc[p] EXCEPT !.stop = "done"]
  <2>1. q.stop = "done" /\ q.busy = proc[p].busy /\ q.serve = proc[p].serve
    BY <1>0 DEF Processes
  <2>2. /\ Becomes(p, q) /\ UNCHANGED sock /\ p \notin Busy /\ ~ proc[p].busy
        /\ proc[p].stop = "closing"
    BY <1>0, <1>5 DEF Stopped
  <2> HIDE DEF q
  <2>3. StateOf(q) = "done" /\ States[p] = "closing" /\ Busy \ {p} = Busy
    BY <1>0, <2>1, <2>2 DEF StateOf
  <2>4. Busy' = Busy /\ States' = [States EXCEPT ![p] = "done"] /\ Reached' = Reached
    BY <2>1, <2>2, <2>3, SeenOfStep, ReachedStays
  <2>5. Seen!Finish(p)
    BY <2>2, <2>3, <2>4 DEF Seen!Finish, Seen!Moves
  <2> QED BY <2>5 DEF Seen!Next
<1>6. CASE StopperWakes(p)
  <2> DEFINE q == [proc[p] EXCEPT !.stopper = "sleep"]
  <2>1. q.stop = proc[p].stop /\ q.busy = proc[p].busy /\ q.serve = proc[p].serve
    BY <1>0 DEF Processes
  <2>2. Becomes(p, q) /\ UNCHANGED sock
    BY <1>6 DEF StopperWakes
  <2> HIDE DEF q
  <2>3. StateOf(q) = StateOf(proc[p])
    BY <2>1 DEF StateOf
  <2> QED BY <2>1, <2>2, <2>3, SilentRefines
<1>7. ASSUME NEW s, Stopping(p, [proc[p] EXCEPT !.stopper = s])
      PROVE  Seen!Next \/ UNCHANGED Seen!vars
  <2> DEFINE r == [proc[p] EXCEPT !.stopper = s]
             t == IF proc[p].stop = "no" THEN "closing" ELSE proc[p].stop
             q == [r EXCEPT !.stop = t]
  <2>1. r.stop = proc[p].stop /\ q.stop = t /\ q.busy = proc[p].busy /\ q.serve = proc[p].serve
    BY <1>0 DEF Processes
  <2>2. Becomes(p, q) /\ IF Serving(p) THEN CloseListener(p) ELSE UNCHANGED sock
    BY <1>7, <2>1 DEF Stopping
  <2> HIDE DEF q
  <2>3. CASE proc[p].stop = "no"
    <3>1. StateOf(q) = "closing" /\ States[p] \in {"off", "open"}
      BY <1>0, <2>1, <2>3 DEF StateOf
    <3>2. sock' \in {sock, None} /\ (q.serve = "serving" => sock' # p)
      BY <2>1, <2>2, <2>3, AddressAssumption
         DEF AddressAssumption, CloseListener, Serving
    <3>3. States' = [States EXCEPT ![p] = "closing"] /\ Busy' = Busy
      BY <1>0, <2>1, <2>2, <3>1, SeenOfStep DEF Busy
    <3>4. Reached' \in {Reached, None} /\ Reached' # p
      BY <2>2, <3>2, ReachedOfStep
    <3>5. Seen!Refuse(p)
      BY <3>1, <3>3, <3>4 DEF Seen!Refuse, Seen!Moves, Seen!Keeps
    <3> QED BY <3>5 DEF Seen!Next
  <2>4. CASE proc[p].stop # "no"
    <3>1. StateOf(q) = StateOf(proc[p]) /\ UNCHANGED sock
      BY <2>1, <2>2, <2>4 DEF StateOf, Serving
    <3> QED BY <2>1, <2>2, <3>1, SilentRefines
  <2> QED BY <2>3, <2>4
<1>8. CASE StopperStops(p)
  BY <1>7, <1>8 DEF StopperStops
<1>9. CASE Stopping(p, proc[p])
  <2>1. [proc[p] EXCEPT !.stopper = proc[p].stopper] = proc[p]
    BY <1>0 DEF Processes
  <2>2. Stopping(p, [proc[p] EXCEPT !.stopper = proc[p].stopper])
    BY <1>9, <2>1
  <2> QED BY <1>7, <2>2
<1>10. CASE /\ Becomes(p, [proc[p] EXCEPT !.stop = "done", !.busy = FALSE])
            /\ IF Serving(p) THEN CloseListener(p) ELSE UNCHANGED sock
  <2> DEFINE q == [proc[p] EXCEPT !.stop = "done", !.busy = FALSE]
  <2>1. q.stop = "done" /\ ~ q.busy /\ q.serve = proc[p].serve
    BY <1>0 DEF Processes
  <2>2. Becomes(p, q)
    BY <1>10
  <2> HIDE DEF q
  <2>3. sock' \in {sock, None} /\ (q.serve = "serving" => sock' # p)
    BY <1>0, <1>10, <2>1, AddressAssumption
       DEF AddressAssumption, CloseListener, Serving, Silent
  <2>4. StateOf(q) = "done"
    BY <2>1 DEF StateOf
  <2> QED BY <2>1, <2>2, <2>3, <2>4, DropRefines
<1> QED BY <1>1, <1>3, <1>4, <1>5, <1>6, <1>8, <1>9, <1>10 DEF Stop, ForceStop

\* Every step is an abstract step or a stutter.
LEMMA RefineNext == IInv /\ [Next]_vars => [Service!Next]_(Service!vars)
<1>1. ASSUME IInv, UNCHANGED vars PROVE UNCHANGED Service!vars
  BY <1>1 DEF vars, Service!vars
<1>2. ASSUME IInv, Next PROVE Seen!Next \/ UNCHANGED Seen!vars \/ UNCHANGED vars
  <2>1. PICK p \in Procs :
          \/ Process(p) \/ AcceptCall(p) \/ Stop(p) \/ ForceStop(p)
          \/ StartContainer(p) \/ Crash(p) \/ Retire(p) \/ ProbeFails(p)
          \/ Waits(p)
    BY <1>2 DEF Next
  <2> QED BY <1>2, <2>1, MainRefines, ServeRefines, StopRefines DEF Process, Waits
<1> QED BY <1>1, <1>2, SeenIsService

LEMMA RefineInit == Init => Service!Init
<1> SUFFICES ASSUME Init PROVE Service!Init
  OBVIOUS
<1>1. NoProcess.stop = "no" /\ NoProcess.serve = "none" /\ ~ NoProcess.busy
  BY DEF NoProcess
<1>2. sock \notin Procs /\ \A p \in Procs : StateOf(proc[p]) = "off" /\ ~ proc[p].busy
  BY <1>1, AddressAssumption DEF AddressAssumption, Init, StateOf
<1> QED BY <1>2 DEF Service!Init

\* The goroutines, the socket file that others may remove, stops before and
\* after Serve, crashes and restarts keep the promise to the callers: a call
\* is taken by an open server alone, a server that is told to stop answers
\* what it has and takes nothing more, and never opens again
\* (server.go:52-123).
THEOREM GrpcServerImplementsPlugin == Spec => PluginServed
BY ServerInvariant, RefineInit, RefineNext, PTL DEF Spec, PluginServed, Service!Spec

-----------------------------------------------------------------------------
(* What the promise is worth to a caller. *)

\* The abstract service keeps it, whatever implements it.
LEMMA ServiceKeepsPromise == Service!Spec => []Service!Promise
<1>1. Service!Init => Service!Promise
  BY DEF Service!Init, Service!Promise
<1>2. Seen!Promise /\ [Seen!Next]_(Seen!vars) => Seen!Promise'
  <2> SUFFICES ASSUME Seen!Promise, Seen!Next \/ UNCHANGED Seen!vars PROVE Seen!Promise'
    OBVIOUS
  <2> USE AddressAssumption DEF AddressAssumption, Seen!Promise, Seen!Moves, Seen!Keeps
  <2>0. DOMAIN States = Procs
    BY DEF States
  <2>1. CASE Seen!Lose \/ UNCHANGED Seen!vars
    BY <2>1 DEF Seen!Lose, Seen!vars
  <2>2. ASSUME NEW p \in Procs, Seen!Open(p) \/ Seen!Refuse(p) PROVE Seen!Promise'
    BY <2>0, <2>2 DEF Seen!Open, Seen!Refuse
  <2>3. ASSUME NEW p \in Procs, Seen!Call(p) \/ Seen!Answer(p) PROVE Seen!Promise'
    BY <2>0, <2>3 DEF Seen!Call, Seen!Answer
  <2>4. ASSUME NEW p \in Procs, Seen!Finish(p) \/ Seen!Drop(p) PROVE Seen!Promise'
    BY <2>0, <2>4 DEF Seen!Finish, Seen!Drop
  <2> QED BY <2>1, <2>2, <2>3, <2>4 DEF Seen!Next
<1> QED BY <1>1, <1>2, SeenIsService, PTL DEF Service!Spec

\* So does each of its steps: only a server that opens is reached anew.
LEMMA ServiceGoneIsGone == Service!Spec => Service!GoneIsGone
<1>1. Seen!Next => (Reached' \notin {Reached, None} => States[Reached'] = "off")
  BY DEF Seen!Next, Seen!Lose, Seen!Open, Seen!Call, Seen!Answer, Seen!Refuse,
         Seen!Finish, Seen!Drop, Seen!Keeps
<1>2. [Service!Next]_(Service!vars) =>
        [Reached' \notin {Reached, None} => States[Reached'] = "off"]_(Service!vars)
  BY <1>1, SeenIsService
<1> QED BY <1>2, PTL DEF Service!Spec, Service!GoneIsGone, States, Reached

\* Whatever fails, a call reaches an open server or none, and only a server
\* that is open, or was told to stop and is not done, has calls to answer
\* (server.go:84-122).
THEOREM GrpcServerKeepsPromise == Spec => []Service!Promise
BY GrpcServerImplementsPlugin, ServiceKeepsPromise, PTL DEF PluginServed

\* Whatever fails, a server that was told to stop, or whose socket file was
\* taken away, is not reached again before its process has started once more
\* (server.go:79-88 and 109-119): hence the liveness probe.
THEOREM StoppedServersStayGone == Spec => Service!GoneIsGone
BY GrpcServerImplementsPlugin, ServiceGoneIsGone, PTL DEF PluginServed
=============================================================================
