---------------------------- MODULE DaemonProofs ----------------------------
(***************************************************************************)
(* Proofs about Daemon, for any number of contexts, workers and requests:  *)
(* types, and that nothing is used after it is destroyed.                  *)
(***************************************************************************)
EXTENDS Daemon, TLAPS

\* Time for the larger leaves.
USE SMTT(30), ZenonT(60)

Quiet == {"none", "ended"}

\* Why no thread is left: the loops start late and are joined before the end, a
\* loop that has ended has joined its other thread, and the workers are joined
\* after their queue is dropped and before the contexts go.
ShutdownInv ==
  /\ TypeOK
  /\ main \in {"checking", "creating", "starting"} => \A c \in Contexts : loop[c] = "none"
  /\ main \in {"destroying", "exited"} => \A c \in Contexts : loop[c] \in Quiet
  /\ wait_mode = "single" =>
       \A c \in Contexts : grpc[c] = "none" /\ loop[c] \in {"none", "run", "ended"}
  /\ \A c \in Contexts : loop[c] \in Quiet => grpc[c] \in Quiet
  /\ "workers" \in destroyed => "queue" \in destroyed /\ \A r \in Requests : worker[r] = NoWorker
  /\ "contexts" \in destroyed =>
       /\ "workers" \in destroyed /\ main \in {"exited", "terminated"}
       /\ \A c \in Contexts : loop[c] \in Quiet

\* The round-robin index stays an index of a context.
LEMMA IndexStays == \A i \in Nat : i % NumContexts \in Contexts
BY DaemonAssumption DEF Contexts

\* Nothing runs before the start.
LEMMA InitInv == Init => ShutdownInv
<1> SUFFICES ASSUME Init PROVE ShutdownInv
  OBVIOUS
<1>1. 0 \in Contexts /\ 1 % NumContexts \in Contexts
  BY IndexStays, DaemonAssumption DEF Contexts
<1>2. TypeOK
  BY <1>1 DEF Init, TypeOK, MainStates, RequestStates, WaitModes
<1>q. QED BY <1>2 DEF Init, ShutdownInv, Quiet

\* The steps of start(): checklist, services and contexts.
LEMMA StartKeepsInv ==
  ASSUME ShutdownInv, run_checklist \/ CreateServices \/ StartServices \/ StartContext
  PROVE  ShutdownInv'
<1> USE DEF ShutdownInv, TypeOK, mainVars, contextVars, requestVars, MainStates, WaitModes, Quiet
<1> next_index \in Nat /\ index \in Nat
  BY DaemonAssumption DEF Contexts
<1> (next_index + 1) % NumContexts \in Contexts /\ (index + 1) % NumContexts \in Contexts
  BY IndexStays
<1>1. CASE run_checklist
  BY <1>1 DEF run_checklist
<1>2. CASE CreateServices
  BY <1>2 DEF CreateServices
<1>3. CASE StartServices
  BY <1>3 DEF StartServices
<1>4. CASE StartContext
  BY <1>4 DEF StartContext
<1>q. QED BY <1>1, <1>2, <1>3, <1>4

\* The steps from the signal to the end of the destructors.
LEMMA StopKeepsInv ==
  ASSUME ShutdownInv,
         \/ Signal \/ StopContext \/ StopServices \/ join
         \/ DestroyServices \/ StopWorkers \/ DestroyWorkers \/ DestroyContexts
  PROVE  ShutdownInv'
<1> USE DEF ShutdownInv, TypeOK, mainVars, contextVars, requestVars, MainStates, WaitModes, Quiet
<1> index \in Nat
  BY DaemonAssumption DEF Contexts
<1> (index + 1) % NumContexts \in Contexts
  BY IndexStays
<1>1. CASE Signal BY <1>1 DEF Signal
<1>2. CASE StopContext BY <1>2 DEF StopContext
<1>3. CASE StopServices BY <1>3 DEF StopServices
<1>4. CASE join BY <1>4 DEF join
<1>5. CASE DestroyServices BY <1>5 DEF DestroyServices
<1>6. CASE StopWorkers BY <1>6 DEF StopWorkers
<1>7. CASE DestroyWorkers BY <1>7 DEF DestroyWorkers
<1>8. CASE DestroyContexts BY <1>8 DEF DestroyContexts
<1>q. QED BY <1>1, <1>2, <1>3, <1>4, <1>5, <1>6, <1>7, <1>8

\* The two threads of a context, a new connection, and one that ends the process.
LEMMA ContextKeepsInv ==
  ASSUME ShutdownInv, NEW c \in Contexts, ContextStep(c) \/ ClientStep(c)
  PROVE  ShutdownInv'
<1> USE DEF ShutdownInv, TypeOK, mainVars, contextVars, requestVars, WaitModes, Quiet
<1>1. CASE LoopStops(c) BY <1>1 DEF LoopStops
<1>2. CASE StopGrpc(c) BY <1>2 DEF StopGrpc
<1>3. CASE GrpcEnds(c) BY <1>3 DEF GrpcEnds
<1>4. CASE JoinGrpc(c) BY <1>4 DEF JoinGrpc
<1>5. CASE Connect(c) BY <1>5 DEF Connect
<1>6. CASE ConnectionThrows(c) BY <1>6 DEF ConnectionThrows, MainStates
<1>q. QED BY <1>1, <1>2, <1>3, <1>4, <1>5, <1>6 DEF ContextStep, ClientStep

\* The steps of a request, on its context and on a worker.
LEMMA RequestKeepsInv ==
  ASSUME ShutdownInv, NEW r \in Requests,
         RequestStep(r) \/ FreeStep(r)
  PROVE  ShutdownInv'
<1> USE DEF ShutdownInv, TypeOK, mainVars, contextVars, requestVars, RequestStates, Moves
<1>1. CASE \E w \in Workers : Take(r, w) BY <1>1 DEF Take
<1>2. CASE SendRead(r) BY <1>2 DEF SendRead
<1>3. CASE CompleteRead(r) BY <1>3 DEF CompleteRead
<1>4. CASE ReturnRead(r) BY <1>4 DEF ReturnRead
<1>5. CASE Executed(r) BY <1>5 DEF Executed
<1>6. CASE Complete(r) BY <1>6 DEF Complete
<1>7. CASE Ask(r) BY <1>7 DEF Ask
<1>8. CASE \E c \in Contexts : Accept(r, c) BY <1>8 DEF Accept
<1>9. CASE TracerThrows(r) BY <1>9 DEF TracerThrows, MainStates
<1>q. QED BY <1>1, <1>2, <1>3, <1>4, <1>5, <1>6, <1>7, <1>8, <1>9 DEF RequestStep, FreeStep

\* ShutdownInv is inductive.
LEMMA NextKeepsInv == ShutdownInv /\ [Next]_vars => ShutdownInv'
<1> SUFFICES ASSUME ShutdownInv, [Next]_vars PROVE ShutdownInv'
  OBVIOUS
<1>1. CASE MainStep \/ Signal
  BY <1>1, StartKeepsInv, StopKeepsInv DEF MainStep
<1>2. CASE \E c \in Contexts : ContextStep(c) \/ ClientStep(c)
  BY <1>2, ContextKeepsInv
<1>3. CASE \E r \in Requests : RequestStep(r) \/ FreeStep(r)
  BY <1>3, RequestKeepsInv
<1>4. CASE UNCHANGED vars
  BY <1>4 DEF vars, mainVars, contextVars, requestVars, ShutdownInv, TypeOK, Quiet
<1>q. QED BY <1>1, <1>2, <1>3, <1>4 DEF Next

\* The types of the daemon's state, for any number of contexts, workers and
\* requests: the indices of start and stop stay inside the pool.
THEOREM Types == Spec => []TypeOK
<1>1. ShutdownInv => TypeOK
  BY DEF ShutdownInv
<1>q. QED BY <1>1, InitInv, NextKeepsInv, PTL DEF Spec

\* For any number of contexts, workers and requests, and in every order of their
\* steps, the destructor of the daemon destroys the contexts only when no loop,
\* no completion queue and no worker is left that uses them.
THEOREM Shutdown == Spec => []DestroyedUnused
<1>1. ShutdownInv => DestroyedUnused
  BY DEF ShutdownInv, DestroyedUnused, Quiet
<1>q. QED BY <1>1, InitInv, NextKeepsInv, PTL DEF Spec
=============================================================================
