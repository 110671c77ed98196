----------------------------- MODULE Lifecycle -----------------------------
(***************************************************************************)
(* The process around the handlers: the plugin command                     *)
(* (cmd/thalassa-csi-plugin/cmd/plugin.go), Run (driver/controller.go) and *)
(* RunNode (driver/nodedriver.go), which differ only in the health server. *)
(*                                                                         *)
(* An instance runs up to five goroutines: the command, which binds the    *)
(* socket and waits in eg.Wait; Serve; the one that waits for ctx and      *)
(* calls GracefulStop; and, with a health server, its ListenAndServe and   *)
(* its Shutdown.  What grpc.Server and http.Server do is external.  The    *)
(* kubelet starts one instance after another, or, with Overlap, while the  *)
(* old one still serves; instance ids are reused.                          *)
(***************************************************************************)
EXTENDS Naturals, FiniteSets

CONSTANTS
  Instances,  \* processes of the plugin that share an endpoint
  None,       \* no instance
  Overlap,    \* TRUE: a new instance may start while the old one serves
  MaxRpcs,    \* bound: RPCs an instance handles at once
  MaxFaults   \* bound: faults of the environment

ASSUME LifecycleAssumption ==
  /\ Cardinality(Instances) > 1
  /\ None \notin Instances
  /\ Overlap \in BOOLEAN
  /\ MaxRpcs \in Nat \ {0}
  /\ MaxFaults \in Nat

VARIABLES
  main,    \* per instance: what the command is about to do
  ctx,     \* per instance: ctx is cancelled
  ready,   \* per instance: d.ready
  grpc,    \* per instance: the gRPC server and the goroutine in Serve
  open,    \* per instance: a client may start RPCs on a connection it has
  rpc,     \* per instance: RPCs being handled (at the end: cut off)
  health,  \* per instance: the goroutine in ListenAndServe
  shut,    \* per instance: the goroutine in Shutdown has returned
  errs,    \* per instance: errors the goroutines and the command have met
  sock,    \* the instance whose socket is at the endpoint's path
  newest,  \* the instance started last
  faults   \* number of faults so far

vars == <<main, ctx, ready, grpc, open, rpc, health, shut, errs, sock, newest, faults>>

\* The ErrServerClosed of a ListenAndServe that was shut down is not an error.
Errors == {"start", "inUse", "health", "shutdown", "accept", "stopped", "killed"}

TypeOK ==
  /\ main \in [Instances -> {"off", "remove", "listen", "run", "wait"}]
  /\ ctx \in [Instances -> BOOLEAN]
  /\ ready \in [Instances -> BOOLEAN]
  /\ grpc \in [Instances -> {"new", "serving", "draining", "stopped", "returned"}]
  /\ open \in [Instances -> BOOLEAN]
  /\ rpc \in [Instances -> 0..MaxRpcs]
  /\ health \in [Instances -> {"starting", "serving", "closing", "returned"}]
  /\ shut \in [Instances -> BOOLEAN]
  /\ errs \in [Instances -> SUBSET Errors]
  /\ sock \in Instances \cup {None}
  /\ newest \in Instances
  /\ faults \in 0..MaxFaults

Init ==
  /\ main = [i \in Instances |-> "off"]
  /\ ctx = [i \in Instances |-> FALSE]
  /\ ready = [i \in Instances |-> FALSE]
  /\ grpc = [i \in Instances |-> "new"]
  /\ open = [i \in Instances |-> FALSE]
  /\ rpc = [i \in Instances |-> 0]
  /\ health = [i \in Instances |-> "starting"]
  /\ shut = [i \in Instances |-> FALSE]
  /\ errs = [i \in Instances |-> {}]
  /\ sock = None
  /\ newest \in Instances
  /\ faults = 0

-----------------------------------------------------------------------------
Running(i) == main[i] # "off"

\* The goroutines of eg have been started.
Started(i) == main[i] = "wait"

Errs(i, e) == errs' = [errs EXCEPT ![i] = @ \cup e]

\* The process ends; its file descriptors close, its socket file stays.
Ends(i) ==
  /\ main' = [main EXCEPT ![i] = "off"]
  /\ open' = [open EXCEPT ![i] = FALSE]

Fault == faults < MaxFaults /\ faults' = faults + 1

\* Closing a unix listener unlinks its path, whosever socket is there by then.
CloseListener == sock' = None

-----------------------------------------------------------------------------
(* The kubelet *)

\* A process with or without a health server (debug-addr, in controller mode).
Start(i) ==
  /\ i # newest
  /\ ~Running(i)
  /\ \A j \in Instances : ~Running(j) \/ (Overlap /\ grpc[j] = "serving")
  /\ newest' = i
  /\ main' = [main EXCEPT ![i] = "remove"]
  /\ ctx' = [ctx EXCEPT ![i] = FALSE]
  /\ ready' = [ready EXCEPT ![i] = FALSE]
  /\ grpc' = [grpc EXCEPT ![i] = "new"]
  /\ rpc' = [rpc EXCEPT ![i] = 0]
  /\ \E debug \in BOOLEAN :
       /\ health' = [health EXCEPT ![i] = IF debug THEN "starting" ELSE "returned"]
       /\ shut' = [shut EXCEPT ![i] = ~debug]
  /\ errs' = [errs EXCEPT ![i] = {}]
  /\ UNCHANGED <<open, sock, faults>>

\* SIGINT or SIGTERM; the goroutine that receives it cancels ctx, once.
Signal(i) ==
  /\ Running(i)
  /\ ~ctx[i]
  /\ ctx' = [ctx EXCEPT ![i] = TRUE]
  /\ UNCHANGED <<main, ready, grpc, open, rpc, health, shut, errs, sock, newest, faults>>

\* A crash, or SIGKILL: nothing is cleaned up.
Kill(i) ==
  /\ Running(i)
  /\ Fault
  /\ Ends(i)
  /\ Errs(i, {"killed"})
  /\ UNCHANGED <<ctx, ready, grpc, rpc, health, shut, sock, newest>>

-----------------------------------------------------------------------------
(* Run and RunNode *)

\* The client, the endpoint or the removal of the old socket is in error.
StartFails(i) ==
  /\ main[i] = "remove"
  /\ Fault
  /\ Ends(i)
  /\ Errs(i, {"start"})
  /\ UNCHANGED <<ctx, ready, grpc, rpc, health, shut, sock, newest>>

\* Mutant: an old socket is left in place.
RemoveSocket_Keep(i) ==
  /\ main[i] = "remove"
  /\ main' = [main EXCEPT ![i] = "listen"]
  /\ UNCHANGED <<ctx, ready, grpc, open, rpc, health, shut, errs, sock, newest, faults>>

RemoveSocket(i) ==
  /\ main[i] = "remove"
  /\ sock' = None
  /\ main' = [main EXCEPT ![i] = "listen"]
  /\ UNCHANGED <<ctx, ready, grpc, open, rpc, health, shut, errs, newest, faults>>

\* Mutant: the old socket is removed after the new one is bound.
Listen_ThenRemove(i) ==
  /\ main[i] = "listen"
  /\ main' = [main EXCEPT ![i] = "run"]
  /\ sock' = None
  /\ UNCHANGED <<ctx, ready, grpc, open, rpc, health, shut, errs, newest, faults>>

\* net.Listen: a socket that is there again is an error.
Listen(i) ==
  /\ main[i] = "listen"
  /\ \/ /\ sock = None
        /\ sock' = i
        /\ main' = [main EXCEPT ![i] = "run"]
        /\ UNCHANGED <<open, errs>>
     \/ sock # None /\ Ends(i) /\ Errs(i, {"inUse"}) /\ UNCHANGED sock
  /\ UNCHANGED <<ctx, ready, grpc, rpc, health, shut, newest, faults>>

\* ready is set before any goroutine of the group runs.
Run(i) ==
  /\ main[i] = "run"
  /\ ready' = [ready EXCEPT ![i] = TRUE]
  /\ main' = [main EXCEPT ![i] = "wait"]
  /\ UNCHANGED <<ctx, grpc, open, rpc, health, shut, errs, sock, newest, faults>>

\* Serve starts to accept, or finds the server stopped already.
Serve(i) ==
  /\ Started(i)
  /\ \/ /\ grpc[i] = "new"
        /\ grpc' = [grpc EXCEPT ![i] = "serving"]
        /\ UNCHANGED <<errs, sock>>
     \/ /\ grpc[i] = "stopped"
        /\ grpc' = [grpc EXCEPT ![i] = "returned"]
        /\ CloseListener
        /\ Errs(i, {"stopped"})
  /\ UNCHANGED <<main, ctx, ready, open, rpc, health, shut, newest, faults>>

\* A permanent error of Accept; the connections there are go on.
AcceptFails(i) ==
  /\ Started(i)
  /\ grpc[i] = "serving"
  /\ Fault
  /\ grpc' = [grpc EXCEPT ![i] = "returned"]
  /\ CloseListener
  /\ Errs(i, {"accept"})
  /\ UNCHANGED <<main, ctx, ready, open, rpc, health, shut, newest>>

NotReady(i) ==
  /\ Started(i)
  /\ ctx[i]
  /\ ready[i]
  /\ ready' = [ready EXCEPT ![i] = FALSE]
  /\ UNCHANGED <<main, ctx, grpc, open, rpc, health, shut, errs, sock, newest, faults>>

\* Mutant: Stop, which does not wait for the handlers.
GracefulStop_Stop(i) ==
  /\ Started(i)
  /\ ctx[i] /\ ~ready[i]
  /\ \/ /\ grpc[i] = "serving"
        /\ grpc' = [grpc EXCEPT ![i] = "returned"]
        /\ open' = [open EXCEPT ![i] = FALSE]
        /\ CloseListener
     \/ grpc[i] = "new" /\ grpc' = [grpc EXCEPT ![i] = "stopped"] /\ UNCHANGED <<open, sock>>
  /\ UNCHANGED <<main, ctx, ready, rpc, health, shut, errs, newest, faults>>

\* Mutant: the server is stopped only when it is idle.
GracefulStop_WhenIdle(i) ==
  /\ Started(i)
  /\ ctx[i] /\ ~ready[i]
  /\ ~open[i] /\ rpc[i] = 0
  /\ \/ grpc[i] = "serving" /\ grpc' = [grpc EXCEPT ![i] = "draining"] /\ CloseListener
     \/ grpc[i] = "new" /\ grpc' = [grpc EXCEPT ![i] = "stopped"] /\ UNCHANGED sock
  /\ UNCHANGED <<main, ctx, ready, open, rpc, health, shut, errs, newest, faults>>

\* Mutant: the server is stopped before ready is cleared.
GracefulStop_First(i) ==
  /\ Started(i)
  /\ ctx[i]
  /\ \/ grpc[i] = "serving" /\ grpc' = [grpc EXCEPT ![i] = "draining"] /\ CloseListener
     \/ grpc[i] = "new" /\ grpc' = [grpc EXCEPT ![i] = "stopped"] /\ UNCHANGED sock
  /\ UNCHANGED <<main, ctx, ready, open, rpc, health, shut, errs, newest, faults>>

\* GracefulStop closes the listener and drains the connections, or leaves a
\* server that Serve has not seen yet unable to serve.
GracefulStop(i) ==
  /\ Started(i)
  /\ ctx[i] /\ ~ready[i]
  /\ \/ grpc[i] = "serving" /\ grpc' = [grpc EXCEPT ![i] = "draining"] /\ CloseListener
     \/ grpc[i] = "new" /\ grpc' = [grpc EXCEPT ![i] = "stopped"] /\ UNCHANGED sock
  /\ UNCHANGED <<main, ctx, ready, open, rpc, health, shut, errs, newest, faults>>

\* Serve returns when GracefulStop has seen the last connection close.
ServeReturns(i) ==
  /\ Started(i)
  /\ grpc[i] = "draining"
  /\ ~open[i] /\ rpc[i] = 0
  /\ grpc' = [grpc EXCEPT ![i] = "returned"]
  /\ UNCHANGED <<main, ctx, ready, open, rpc, health, shut, errs, sock, newest, faults>>

\* Mutant: the ErrServerClosed that follows a Shutdown is reported.
HealthListens_Closed(i) ==
  /\ Started(i)
  /\ \/ /\ health[i] = "starting"
        /\ health' = [health EXCEPT ![i] = "serving"]
        /\ UNCHANGED <<errs, faults>>
     \/ /\ health[i] = "starting"
        /\ health' = [health EXCEPT ![i] = "returned"]
        /\ Fault
        /\ Errs(i, {"health"})
     \/ /\ health[i] = "closing"
        /\ health' = [health EXCEPT ![i] = "returned"]
        /\ Errs(i, {"serverClosed"})
        /\ UNCHANGED faults
  /\ UNCHANGED <<main, ctx, ready, grpc, open, rpc, shut, sock, newest>>

\* ListenAndServe binds its address, or cannot; after Shutdown it returns nil.
HealthListens(i) ==
  /\ Started(i)
  /\ \/ /\ health[i] = "starting"
        /\ health' = [health EXCEPT ![i] = "serving"]
        /\ UNCHANGED <<errs, faults>>
     \/ /\ health[i] = "starting"
        /\ health' = [health EXCEPT ![i] = "returned"]
        /\ Fault
        /\ Errs(i, {"health"})
     \/ /\ health[i] = "closing"
        /\ health' = [health EXCEPT ![i] = "returned"]
        /\ UNCHANGED <<errs, faults>>
  /\ UNCHANGED <<main, ctx, ready, grpc, open, rpc, shut, sock, newest>>

\* Shutdown closes the listener; a request that takes more than 10 seconds (the
\* health check asks the API) makes it return an error.
HealthShutdown(i) ==
  /\ Started(i)
  /\ ctx[i] /\ ~shut[i]
  /\ shut' = [shut EXCEPT ![i] = TRUE]
  /\ health' = [health EXCEPT ![i] = IF @ = "returned" THEN @ ELSE "closing"]
  /\ Errs(i, {}) \/ (health[i] = "serving" /\ Errs(i, {"shutdown"}))
  /\ UNCHANGED <<main, ctx, ready, grpc, open, rpc, sock, newest, faults>>

\* eg.Wait: the command ends, with the first error there was.
Exit(i) ==
  /\ Started(i)
  /\ grpc[i] = "returned" /\ health[i] = "returned" /\ shut[i]
  /\ Ends(i)
  /\ UNCHANGED <<ctx, ready, grpc, rpc, health, shut, errs, sock, newest, faults>>

-----------------------------------------------------------------------------
(* The clients: the sidecars and the kubelet *)

Connect(i) ==
  /\ sock = i
  /\ Running(i)
  /\ grpc[i] = "serving"
  /\ ~open[i]
  /\ open' = [open EXCEPT ![i] = TRUE]
  /\ UNCHANGED <<main, ctx, ready, grpc, rpc, health, shut, errs, sock, newest, faults>>

\* The client closes its connection, or has seen the server's GOAWAY.
Disconnect(i) ==
  /\ open[i]
  /\ open' = [open EXCEPT ![i] = FALSE]
  /\ UNCHANGED <<main, ctx, ready, grpc, rpc, health, shut, errs, sock, newest, faults>>

RpcBegins(i) ==
  /\ open[i]
  /\ rpc[i] < MaxRpcs
  /\ rpc' = [rpc EXCEPT ![i] = @ + 1]
  /\ UNCHANGED <<main, ctx, ready, grpc, open, health, shut, errs, sock, newest, faults>>

\* The interceptor hands the handler's answer to the client.
RpcEnds(i) ==
  /\ Running(i)
  /\ rpc[i] > 0
  /\ rpc' = [rpc EXCEPT ![i] = @ - 1]
  /\ UNCHANGED <<main, ctx, ready, grpc, open, health, shut, errs, sock, newest, faults>>

\* What Probe answers.
Probe(i) == ready[i]

-----------------------------------------------------------------------------
Command(i) == RemoveSocket(i) \/ Listen(i) \/ Run(i) \/ Exit(i)

Server(i) == Serve(i) \/ ServeReturns(i)

Stopper(i) == NotReady(i) \/ GracefulStop(i)

Next ==
  \E i \in Instances :
    \/ Start(i) \/ Signal(i) \/ Kill(i) \/ StartFails(i)
    \/ Command(i) \/ Server(i) \/ AcceptFails(i) \/ Stopper(i)
    \/ HealthListens(i) \/ HealthShutdown(i)
    \/ Connect(i) \/ Disconnect(i) \/ RpcBegins(i) \/ RpcEnds(i)

Spec == Init /\ [][Next]_vars

\* The goroutines run on, every handler ends, and a client that is told to go
\* away stops using its connection (grpc closes it after some seconds if not).
Fairness ==
  \A i \in Instances :
    /\ WF_vars(Command(i))
    /\ WF_vars(Server(i))
    /\ WF_vars(Stopper(i))
    /\ WF_vars(HealthListens(i))
    /\ WF_vars(HealthShutdown(i))
    /\ WF_vars(grpc[i] = "draining" /\ Disconnect(i))
    /\ WF_vars(RpcEnds(i))

FairSpec == Spec /\ Fairness

-----------------------------------------------------------------------------
(* Properties *)

Serving(i) == Running(i) /\ grpc[i] = "serving" /\ ~ctx[i]

\* The instance the CO is to use can be reached: while the one started last
\* serves, its own socket is at the endpoint's path ("remove the socket if it's
\* already there").
NewestIsReachable == \A i \in Instances : Serving(i) /\ i = newest => sock = i

\* Probe says ready while the server takes calls and nobody has stopped it, and
\* not ready from the moment it refuses new ones, in whatever order the
\* goroutines of Run start and a signal arrives.
ProbeTruthful ==
  \A i \in Instances :
    /\ Serving(i) => Probe(i)
    /\ Running(i) /\ grpc[i] \in {"draining", "stopped"} => ~Probe(i)

\* A process that ends by itself has answered every call it took, whether Run
\* returns an error or not, unless it was killed or its listener broke: an attach
\* or a format is not cut off by a rollout.
StopDrains ==
  \A i \in Instances :
    ~Running(i) /\ errs[i] \cap {"killed", "accept"} = {} => rpc[i] = 0

\* An instance serves at the endpoint in the end whatever socket a killed
\* instance has left there, unless it is stopped or meets a fault.
StartServes ==
  \A i \in Instances :
    main[i] = "remove" ~>
      \/ Serving(i) /\ sock = i
      \/ ctx[i]
      \/ errs[i] \cap {"start", "accept", "killed"} # {}

\* A process that gets a signal ends, whenever the signal comes: before the
\* socket is bound, before Serve, with calls in flight, and also when the health
\* server never came up or Serve has failed.
SignalEnds == \A i \in Instances : Running(i) /\ ctx[i] ~> ~Running(i)
=============================================================================
