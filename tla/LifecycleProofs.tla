-------------------------- MODULE LifecycleProofs --------------------------
(***************************************************************************)
(* Proofs about Lifecycle, for any number of instances, calls and faults.  *)
(***************************************************************************)
EXTENDS Lifecycle, TLAPS

\* Until the goroutines start the server is new.
StartInv ==
  \A i \in Instances :
    main[i] \in {"remove", "listen", "run"} =>
      grpc[i] = "new" /\ ~ready[i] /\ errs[i] = {}

\* ready is cleared after ctx is cancelled and before the server is stopped.
ReadyInv ==
  \A i \in Instances :
    Started(i) =>
      /\ ~ready[i] => ctx[i]
      /\ grpc[i] \in {"draining", "stopped"} => ~ready[i]

\* Calls are handled only by a server that serves, drains, or has lost its
\* listener; a process that has ended takes none.
CallInv ==
  \A i \in Instances :
    /\ ~Running(i) => ~open[i]
    /\ grpc[i] \in {"new", "stopped"} \/ (grpc[i] = "returned" /\ "accept" \notin errs[i])
         => \/ ~open[i] /\ rpc[i] = 0
            \/ ~Running(i) /\ "killed" \in errs[i]
    /\ ~Running(i) /\ errs[i] \cap {"killed", "accept"} = {} => rpc[i] = 0

Inv == TypeOK /\ StartInv /\ ReadyInv /\ CallInv

\* No process, no socket.
LEMMA InitInv == Init => Inv
BY LifecycleAssumption DEF Init, Inv, TypeOK, StartInv, ReadyInv, CallInv, Running, Started

\* Every step of an instance's goroutines, the kubelet and the clients keeps Inv.
LEMMA NextInv == Inv /\ [Next]_vars => Inv'
<1> SUFFICES ASSUME Inv, [Next]_vars PROVE Inv'
  OBVIOUS
<1> USE LifecycleAssumption DEF Inv, TypeOK, StartInv, ReadyInv, CallInv, Running, Started,
  Errors, Errs, Ends, Fault, CloseListener
<1>1. ASSUME NEW i \in Instances, Start(i) PROVE Inv'
  BY <1>1 DEF Start
<1>2. ASSUME NEW i \in Instances, Signal(i) PROVE Inv'
  BY <1>2 DEF Signal
<1>3. ASSUME NEW i \in Instances, Kill(i) PROVE Inv'
  BY <1>3 DEF Kill
<1>4. ASSUME NEW i \in Instances, StartFails(i) PROVE Inv'
  BY <1>4 DEF StartFails
<1>5. ASSUME NEW i \in Instances, RemoveSocket(i) PROVE Inv'
  BY <1>5 DEF RemoveSocket
<1>6. ASSUME NEW i \in Instances, Listen(i) PROVE Inv'
  <2>1. CASE sock = None
    BY <1>6, <2>1 DEF Listen
  <2>2. CASE sock # None
    <3>1. ~open[i] /\ rpc[i] = 0 /\ errs[i] = {}
      BY <1>6 DEF Listen
    <3>2. /\ main' = [main EXCEPT ![i] = "off"]
          /\ open' = [open EXCEPT ![i] = FALSE]
          /\ errs' = [errs EXCEPT ![i] = {"inUse"}]
          /\ UNCHANGED <<ctx, ready, grpc, rpc, health, shut, sock, newest, faults>>
      BY <1>6, <2>2, <3>1 DEF Listen
    <3> QED
      BY <3>1, <3>2
  <2> QED
    BY <2>1, <2>2
<1>7. ASSUME NEW i \in Instances, Run(i) PROVE Inv'
  BY <1>7 DEF Run
<1>8. ASSUME NEW i \in Instances, Exit(i) PROVE Inv'
  BY <1>8 DEF Exit
<1>9. ASSUME NEW i \in Instances, Serve(i) PROVE Inv'
  BY <1>9 DEF Serve
<1>10. ASSUME NEW i \in Instances, ServeReturns(i) PROVE Inv'
  BY <1>10 DEF ServeReturns
<1>11. ASSUME NEW i \in Instances, AcceptFails(i) PROVE Inv'
  BY <1>11 DEF AcceptFails
<1>12. ASSUME NEW i \in Instances, NotReady(i) PROVE Inv'
  BY <1>12 DEF NotReady
<1>13. ASSUME NEW i \in Instances, GracefulStop(i) PROVE Inv'
  BY <1>13 DEF GracefulStop
<1>14. ASSUME NEW i \in Instances, HealthListens(i) PROVE Inv'
  BY <1>14 DEF HealthListens
<1>15. ASSUME NEW i \in Instances, HealthShutdown(i) PROVE Inv'
  BY <1>15 DEF HealthShutdown
<1>16. ASSUME NEW i \in Instances, Connect(i) PROVE Inv'
  BY <1>16 DEF Connect
<1>17. ASSUME NEW i \in Instances, Disconnect(i) PROVE Inv'
  BY <1>17 DEF Disconnect
<1>18. ASSUME NEW i \in Instances, RpcBegins(i) PROVE Inv'
  BY <1>18 DEF RpcBegins
<1>19. ASSUME NEW i \in Instances, RpcEnds(i) PROVE Inv'
  BY <1>19 DEF RpcEnds
<1>20. CASE UNCHANGED vars
  BY <1>20 DEF vars
<1> QED
  BY <1>1, <1>2, <1>3, <1>4, <1>5, <1>6, <1>7, <1>8, <1>9, <1>10, <1>11, <1>12, <1>13,
     <1>14, <1>15, <1>16, <1>17, <1>18, <1>19, <1>20 DEF Next, Command, Server, Stopper

\* Inv holds throughout.
LEMMA InvInvariant == Spec => []Inv
<1> QED
  BY InitInv, NextInv, PTL DEF Spec

\* Every variable of every goroutine keeps its type, whatever faults there are.
THEOREM LifecycleTypeCorrect == Spec => []TypeOK
<1>1. Inv => TypeOK
  BY DEF Inv
<1> QED
  BY <1>1, InvInvariant, PTL

\* Probe is right about the server for any number of instances, calls and faults,
\* also when instances overlap.
THEOREM ProbeIsTruthful == Spec => []ProbeTruthful
<1>1. Inv => ProbeTruthful
  BY DEF Inv, TypeOK, StartInv, ReadyInv, ProbeTruthful, Probe, Serving, Running, Started
<1> QED
  BY <1>1, InvInvariant, PTL

\* A process that ends by itself has answered every call it took, under the same
\* conditions.
THEOREM StopIsGraceful == Spec => []StopDrains
<1>1. Inv => StopDrains
  BY DEF Inv, CallInv, StopDrains
<1> QED
  BY <1>1, InvInvariant, PTL

-----------------------------------------------------------------------------
(* One instance at a time *)

\* The process that runs is the newest; from net.Listen until the listener is
\* closed its socket is at the path.
SocketInv ==
  \A i \in Instances :
    Running(i) =>
      /\ i = newest
      /\ main[i] = "run" \/ (Started(i) /\ grpc[i] \in {"new", "serving", "stopped"})
           => sock = i

\* Without overlap every step keeps SocketInv.
LEMMA NextSocket ==
  ~Overlap /\ Inv /\ SocketInv /\ [Next]_vars => SocketInv'
<1> SUFFICES ASSUME ~Overlap, Inv, SocketInv, [Next]_vars PROVE SocketInv'
  OBVIOUS
<1> USE DEF Inv, TypeOK, StartInv, SocketInv, Running, Started, Ends, CloseListener
<1>1. ASSUME NEW i \in Instances, Start(i) PROVE SocketInv'
  BY <1>1 DEF Start
<1>2. ASSUME NEW i \in Instances,
             Signal(i) \/ Kill(i) \/ StartFails(i) \/ RemoveSocket(i) \/ Run(i) \/ Exit(i)
      PROVE  SocketInv'
  BY <1>2 DEF Signal, Kill, StartFails, RemoveSocket, Run, Exit
<1>3. ASSUME NEW i \in Instances, Listen(i) PROVE SocketInv'
  BY <1>3 DEF Listen
<1>4. ASSUME NEW i \in Instances,
             Server(i) \/ AcceptFails(i) \/ Stopper(i)
      PROVE  SocketInv'
  BY <1>4 DEF Server, Serve, ServeReturns, AcceptFails, Stopper, NotReady, GracefulStop
<1>5. ASSUME NEW i \in Instances,
             \/ HealthListens(i) \/ HealthShutdown(i)
             \/ Connect(i) \/ Disconnect(i) \/ RpcBegins(i) \/ RpcEnds(i)
      PROVE  SocketInv'
  BY <1>5 DEF HealthListens, HealthShutdown, Connect, Disconnect, RpcBegins, RpcEnds
<1>6. CASE UNCHANGED vars
  BY <1>6 DEF vars
<1> QED
  BY <1>1, <1>2, <1>3, <1>4, <1>5, <1>6 DEF Next, Command

\* Where one instance ends before the next one starts, the one that serves is
\* reachable at the endpoint, whatever sockets killed instances have left.
THEOREM ServesAtEndpoint ==
  ASSUME ~Overlap PROVE Spec => []NewestIsReachable
<1>1. Init => SocketInv
  BY DEF Init, SocketInv, Running
<1>2. Inv /\ SocketInv /\ [Next]_vars => SocketInv'
  BY NextSocket
<1>3. Inv /\ SocketInv => NewestIsReachable
  BY DEF Inv, TypeOK, StartInv, SocketInv, NewestIsReachable, Serving, Running, Started
<1> QED
  BY <1>1, <1>2, <1>3, InvInvariant, PTL DEF Spec
=============================================================================
