------------------------------- MODULE Daemon -------------------------------
(***************************************************************************)
(* The life of the daemon (daemon.cpp), its context pool (concurrency/     *)
(* context_pool.cpp) and the bridge between the worker threads and the     *)
(* contexts (core/evm_executor.cpp, core/remote_state.cpp).                *)
(*                                                                         *)
(* The main thread checks the services of the node, starts the daemon,     *)
(* waits for a signal, stops, joins and destroys.  A context runs its      *)
(* io_context on one thread and, in blocking mode, its completion queue on *)
(* another.  A request that needs the EVM is posted to the worker pool;    *)
(* the worker asks the context for each read and blocks until it is there, *)
(* and posts the result back.  An exception that no one catches, in a      *)
(* connection or in a tracer, ends the process wherever it is.             *)
(***************************************************************************)
EXTENDS Naturals, FiniteSets

CONSTANTS NumContexts,   \* num_contexts
          Workers,       \* threads of worker_pool_
          Requests,      \* requests that need the EVM
          MaxReads       \* bound on the reads of a request

ASSUME DaemonAssumption == NumContexts \in Nat \ {0} /\ MaxReads \in Nat

Contexts == 0..(NumContexts - 1)

NoWorker == "no worker"

VARIABLES main,         \* where the main thread is
          wait_mode,    \* "blocking": two threads per context; "single": one
          next_index,   \* next_index_ of the pool
          index,        \* loop variable of the main thread
          services,     \* per context, how many pairs of servers use it
          accepting,    \* per context, its acceptors are open
          connected,    \* per context, clients are connected
          streaming,    \* "idle", "open", "closed": the state-changes stream
          io_stopped,   \* per context, io_context_->stopped()
          loop,         \* per context, its thread: "none", "run", "stop_grpc", "join_grpc", "ended"
          grpc,         \* per context, the other thread: "none", "run", "stopping", "ended"
          pool_stopped, \* stopped_ of the context pool
          request,      \* per request, where it is
          context,      \* per request, its context
          worker,       \* per request, the thread that runs it
          reads,        \* per request, reads done
          destroyed     \* members of the daemon that are destroyed

mainVars    == <<main, wait_mode, next_index, index, streaming, pool_stopped, destroyed>>
contextVars == <<services, accepting, connected, io_stopped, loop, grpc>>
requestVars == <<request, context, worker, reads>>
vars        == <<mainVars, contextVars, requestVars>>

WaitModes == {"blocking", "single"}

\* The constructor takes one context for the stream.
Init ==
  /\ main = "checking" /\ wait_mode \in WaitModes
  /\ next_index = 1 % NumContexts /\ index = 0
  /\ streaming = "idle" /\ pool_stopped = FALSE /\ destroyed = {}
  /\ services = [c \in Contexts |-> 0] /\ accepting = [c \in Contexts |-> FALSE]
  /\ connected = [c \in Contexts |-> FALSE]
  /\ io_stopped = [c \in Contexts |-> FALSE]
  /\ loop = [c \in Contexts |-> "none"] /\ grpc = [c \in Contexts |-> "none"]
  /\ request = [r \in Requests |-> "none"] /\ context = [r \in Requests |-> 0]
  /\ worker = [r \in Requests |-> NoWorker] /\ reads = [r \in Requests |-> 0]

-----------------------------------------------------------------------------
(* Main thread: start.                                                     *)

\* run_checklist: each service has the same major and minor version, or the
\* daemon is destroyed without a start.
run_checklist ==
  /\ main = "checking" /\ main' \in {"creating", "destroying"}
  /\ UNCHANGED <<wait_mode, next_index, index, streaming, pool_stopped, destroyed>>
  /\ UNCHANGED <<contextVars, requestVars>>

\* start: an eth server and an engine server on the next context.
CreateServices ==
  /\ main = "creating"
  /\ services' = [services EXCEPT ![next_index] = @ + 1]
  /\ next_index' = (next_index + 1) % NumContexts
  /\ index' = (index + 1) % NumContexts
  /\ main' = IF index' = 0 THEN "starting" ELSE main
  /\ UNCHANGED <<wait_mode, streaming, pool_stopped, destroyed>>
  /\ UNCHANGED <<accepting, connected, io_stopped, loop, grpc, requestVars>>

\* start: the servers are started, and the stream opened.
StartServices ==
  /\ main = "starting" /\ main' = "starting_pool"
  /\ accepting' = [c \in Contexts |-> services[c] > 0]
  /\ streaming' = "open"
  /\ UNCHANGED <<wait_mode, next_index, index, pool_stopped, destroyed>>
  /\ UNCHANGED <<services, connected, io_stopped, loop, grpc, requestVars>>

\* ContextPool::start, one thread after the other; a stopped pool is refused.
StartContext ==
  /\ main = "starting_pool" /\ ~pool_stopped
  /\ loop' = [loop EXCEPT ![index] = "run"]
  /\ grpc' = IF wait_mode = "blocking" THEN [grpc EXCEPT ![index] = "run"] ELSE grpc
  /\ index' = (index + 1) % NumContexts
  /\ main' = IF index' = 0 THEN "running" ELSE main
  /\ UNCHANGED <<wait_mode, next_index, streaming, pool_stopped, destroyed>>
  /\ UNCHANGED <<services, accepting, connected, io_stopped, requestVars>>

-----------------------------------------------------------------------------
(* Main thread: stop, join, and the end of the scope.                      *)

\* A signal: stop() closes the stream and then stops the pool.
Signal ==
  /\ main = "running" /\ main' = "stopping"
  /\ streaming' = "closed" /\ pool_stopped' = TRUE
  /\ UNCHANGED <<wait_mode, next_index, index, destroyed>>
  /\ UNCHANGED <<contextVars, requestVars>>

StopContext ==
  /\ main = "stopping"
  /\ io_stopped' = [io_stopped EXCEPT ![index] = TRUE]
  /\ index' = (index + 1) % NumContexts
  /\ main' = IF index' = 0 THEN "stopping_services" ELSE main
  /\ UNCHANGED <<wait_mode, next_index, streaming, pool_stopped, destroyed>>
  /\ UNCHANGED <<services, accepting, connected, loop, grpc, requestVars>>

StopServices ==
  /\ main = "stopping_services" /\ main' = "joining"
  /\ accepting' = [c \in Contexts |-> FALSE]
  /\ UNCHANGED <<wait_mode, next_index, index, streaming, pool_stopped, destroyed>>
  /\ UNCHANGED <<services, connected, io_stopped, loop, grpc, requestVars>>

join ==
  /\ main = "joining" /\ main' = "destroying"
  /\ \A c \in Contexts : loop[c] = "ended"
  /\ UNCHANGED <<wait_mode, next_index, index, streaming, pool_stopped, destroyed>>
  /\ UNCHANGED <<contextVars, requestVars>>

\* Members are destroyed in the reverse of their order: stream and servers first.
DestroyServices ==
  /\ main = "destroying" /\ "services" \notin destroyed
  /\ destroyed' = destroyed \cup {"services"}
  /\ UNCHANGED <<main, wait_mode, next_index, index, streaming, pool_stopped>>
  /\ UNCHANGED <<contextVars, requestVars>>

\* ~thread_pool stops the pool, which drops its queue ...
StopWorkers ==
  /\ main = "destroying" /\ "services" \in destroyed /\ "queue" \notin destroyed
  /\ destroyed' = destroyed \cup {"queue"}
  /\ UNCHANGED <<main, wait_mode, next_index, index, streaming, pool_stopped>>
  /\ UNCHANGED <<contextVars, requestVars>>

\* ... and joins its threads.
DestroyWorkers ==
  /\ main = "destroying" /\ "queue" \in destroyed /\ "workers" \notin destroyed
  /\ \A r \in Requests : worker[r] = NoWorker
  /\ destroyed' = destroyed \cup {"workers"}
  /\ UNCHANGED <<main, wait_mode, next_index, index, streaming, pool_stopped>>
  /\ UNCHANGED <<contextVars, requestVars>>

\* ~ContextPool stops the pool again; what the contexts still hold is destroyed.
DestroyContexts ==
  /\ main = "destroying" /\ "workers" \in destroyed
  /\ destroyed' = destroyed \cup {"contexts"} /\ pool_stopped' = TRUE /\ main' = "exited"
  /\ io_stopped' = [c \in Contexts |-> TRUE]
  /\ UNCHANGED <<wait_mode, next_index, index, streaming>>
  /\ UNCHANGED <<services, accepting, connected, loop, grpc, requestVars>>

-----------------------------------------------------------------------------
(* The threads of a context.                                               *)

\* execute_loop_multi_threaded goes on to stop and join the other thread; a
\* single-threaded loop ends.
LoopStops(c) ==
  /\ loop[c] = "run" /\ io_stopped[c]
  /\ loop' = [loop EXCEPT ![c] = IF wait_mode = "blocking" THEN "stop_grpc" ELSE "ended"]
  /\ UNCHANGED <<services, accepting, connected, io_stopped, grpc, mainVars, requestVars>>

\* Faulty variant: the completion queue is not stopped.
StopGrpcForgotten(c) ==
  /\ loop[c] = "stop_grpc"
  /\ loop' = [loop EXCEPT ![c] = "join_grpc"]
  /\ UNCHANGED <<services, accepting, connected, io_stopped, grpc, mainVars, requestVars>>

StopGrpc(c) ==
  /\ loop[c] = "stop_grpc"
  /\ loop' = [loop EXCEPT ![c] = "join_grpc"] /\ grpc' = [grpc EXCEPT ![c] = "stopping"]
  /\ UNCHANGED <<services, accepting, connected, io_stopped, mainVars, requestVars>>

GrpcEnds(c) ==
  /\ grpc[c] = "stopping" /\ grpc' = [grpc EXCEPT ![c] = "ended"]
  /\ UNCHANGED <<services, accepting, connected, io_stopped, loop, mainVars, requestVars>>

\* Faulty variant: the thread of the completion queue is not joined.
JoinGrpcNot(c) ==
  /\ loop[c] = "join_grpc" /\ loop' = [loop EXCEPT ![c] = "ended"]
  /\ UNCHANGED <<services, accepting, connected, io_stopped, grpc, mainVars, requestVars>>

JoinGrpc(c) ==
  /\ loop[c] = "join_grpc" /\ grpc[c] = "ended" /\ loop' = [loop EXCEPT ![c] = "ended"]
  /\ UNCHANGED <<services, accepting, connected, io_stopped, grpc, mainVars, requestVars>>

\* A handler of the io_context may run.
IoRuns(c) == loop[c] = "run" /\ ~io_stopped[c]

\* Faulty variant: only a thread of its own polls the completion queue.
GrpcRunsAlone(c) == grpc[c] = "run"

\* The completion queue is polled by its own thread, or by the one of the loop.
GrpcRuns(c) == IF wait_mode = "blocking" THEN grpc[c] = "run" ELSE loop[c] = "run"

-----------------------------------------------------------------------------
(* A request through the EVM.                                              *)

Moves(r, from, to) == request[r] = from /\ request' = [request EXCEPT ![r] = to]

\* Server::run of context c: a client is accepted.
Connect(c) ==
  /\ accepting[c] /\ IoRuns(c) /\ ~connected[c]
  /\ connected' = [connected EXCEPT ![c] = TRUE]
  /\ UNCHANGED <<services, accepting, io_stopped, loop, grpc, mainVars, requestVars>>

\* A connection of context c ends in an exception: do_read and the handler of
\* co_spawn throw it again, out of io_context_->run() and out of a thread that
\* catches nothing, and the process ends.
ConnectionThrows(c) ==
  /\ connected[c] /\ IoRuns(c) /\ main' = "terminated"
  /\ UNCHANGED <<wait_mode, next_index, index, streaming, pool_stopped, destroyed>>
  /\ UNCHANGED <<contextVars, requestVars>>

\* A connection of context c takes the request up to EVMExecutor::call.
Accept(r, c) ==
  /\ Moves(r, "none", "queued") /\ IoRuns(c) /\ connected[c]
  /\ context' = [context EXCEPT ![r] = c]
  /\ UNCHANGED <<worker, reads, mainVars, contextVars>>

\* post to the workers: a free one takes it.
Take(r, w) ==
  /\ Moves(r, "queued", "executing")
  /\ "queue" \notin destroyed /\ \A q \in Requests : worker[q] # w
  /\ worker' = [worker EXCEPT ![r] = w]
  /\ UNCHANGED <<context, reads, mainVars, contextVars>>

\* RemoteState: co_spawn on the context, and wait for the future.
Ask(r) ==
  /\ Moves(r, "executing", "read_posted") /\ reads[r] < MaxReads
  /\ UNCHANGED <<context, worker, reads, mainVars, contextVars>>

\* AsyncRemoteState on the context, up to its call of the node.
SendRead(r) ==
  /\ Moves(r, "read_posted", "read_sent") /\ IoRuns(context[r])
  /\ UNCHANGED <<context, worker, reads, mainVars, contextVars>>

CompleteRead(r) ==
  /\ Moves(r, "read_sent", "read_ready") /\ GrpcRuns(context[r])
  /\ UNCHANGED <<context, worker, reads, mainVars, contextVars>>

\* The future has its value; an exception is caught and gives an empty one.
ReturnRead(r) ==
  /\ Moves(r, "read_ready", "executing") /\ IoRuns(context[r])
  /\ reads' = [reads EXCEPT ![r] = @ + 1]
  /\ UNCHANGED <<context, worker, mainVars, contextVars>>

\* A tracer that writes to a client who left throws in a callback of the EVM,
\* which is noexcept: the process ends.
TracerThrows(r) ==
  /\ request[r] = "executing" /\ main' = "terminated"
  /\ UNCHANGED <<wait_mode, next_index, index, streaming, pool_stopped, destroyed>>
  /\ UNCHANGED <<contextVars, requestVars>>

\* The result, or the error of a check before, is posted to the context.
Executed(r) ==
  /\ Moves(r, "executing", "executed")
  /\ worker' = [worker EXCEPT ![r] = NoWorker]
  /\ UNCHANGED <<context, reads, mainVars, contextVars>>

Complete(r) ==
  /\ Moves(r, "executed", "answered") /\ IoRuns(context[r])
  /\ UNCHANGED <<context, worker, reads, mainVars, contextVars>>

-----------------------------------------------------------------------------
MainStep ==
  \/ run_checklist \/ CreateServices \/ StartServices \/ StartContext
  \/ StopContext \/ StopServices \/ join
  \/ DestroyServices \/ StopWorkers \/ DestroyWorkers \/ DestroyContexts

\* std::terminate ends every thread.
Alive == main # "terminated"

ContextStep(c) == Alive /\ (LoopStops(c) \/ StopGrpc(c) \/ GrpcEnds(c) \/ JoinGrpc(c))

ClientStep(c) == Alive /\ (Connect(c) \/ ConnectionThrows(c))

RequestStep(r) ==
  /\ Alive
  /\ \/ \E w \in Workers : Take(r, w)
     \/ SendRead(r) \/ CompleteRead(r) \/ ReturnRead(r) \/ Executed(r) \/ Complete(r)

\* What a client or a contract may do, and need not.
FreeStep(r) == Alive /\ (Ask(r) \/ TracerThrows(r) \/ \E c \in Contexts : Accept(r, c))

Next ==
  \/ MainStep \/ Signal
  \/ \E c \in Contexts : ContextStep(c) \/ ClientStep(c)
  \/ \E r \in Requests : RequestStep(r) \/ FreeStep(r)

\* Threads run, and the node answers.  Signals and requests are not owed, and
\* the EVM may read or end.
Fairness ==
  /\ WF_vars(MainStep)
  /\ \A c \in Contexts : WF_vars(ContextStep(c))
  /\ \A r \in Requests : WF_vars(RequestStep(r))

Spec == Init /\ [][Next]_vars /\ Fairness

-----------------------------------------------------------------------------
(* Properties.                                                             *)

MainStates == {"checking", "creating", "starting", "starting_pool", "running", "stopping",
               "stopping_services", "joining", "destroying", "exited", "terminated"}

RequestStates == {"none", "queued", "executing", "read_posted", "read_sent", "read_ready",
                  "executed", "answered"}

TypeOK ==
  /\ main \in MainStates /\ wait_mode \in WaitModes
  /\ next_index \in Contexts /\ index \in Contexts
  /\ streaming \in {"idle", "open", "closed"} /\ pool_stopped \in BOOLEAN
  /\ destroyed \subseteq {"services", "queue", "workers", "contexts"}
  /\ services \in [Contexts -> Nat] /\ accepting \in [Contexts -> BOOLEAN]
  /\ connected \in [Contexts -> BOOLEAN] /\ io_stopped \in [Contexts -> BOOLEAN]
  /\ loop \in [Contexts -> {"none", "run", "stop_grpc", "join_grpc", "ended"}]
  /\ grpc \in [Contexts -> {"none", "run", "stopping", "ended"}]
  /\ request \in [Requests -> RequestStates] /\ context \in [Requests -> Contexts]
  /\ worker \in [Requests -> Workers \cup {NoWorker}] /\ reads \in [Requests -> Nat]

\* When the contexts are destroyed no thread uses them any more: the loops and
\* the threads of their completion queues have ended, and no worker executes a
\* request or waits for a read.  This rests on the joins of stop, and on the
\* order of the members context_pool_ and worker_pool_ in the daemon.
DestroyedUnused ==
  "contexts" \in destroyed =>
     /\ \A c \in Contexts : loop[c] \in {"none", "ended"} /\ grpc[c] \in {"none", "ended"}
     /\ \A r \in Requests : worker[r] = NoWorker

\* A worker waits for a read that a stopped context will not serve.
StuckWorker ==
  \E r \in Requests : /\ request[r] \in {"read_posted", "read_sent", "read_ready"}
                      /\ io_stopped[context[r]]

\* After a signal the daemon exits: every loop and thread is stopped and joined.
\* The exception is a worker that waits for a read when its context is stopped:
\* nothing completes its future before the pool is joined.  A daemon that an
\* uncaught exception ended before that has ended without the joins.
StopEnds == pool_stopped ~> main \in {"exited", "terminated"} \/ StuckWorker

\* An execution that was posted ends in an answer, unless the daemon is stopped
\* or an uncaught exception ends it: workers block on the contexts, and never the
\* other way round.
ExecutionsEnd ==
  \A r \in Requests :
     request[r] = "queued" ~> request[r] = "answered" \/ pool_stopped \/ ~Alive
=============================================================================
