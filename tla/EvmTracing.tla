----------------------------- MODULE EvmTracing -----------------------------
(***************************************************************************)
(* The tracers that watch an execution: TraceTracer, VmTraceTracer,        *)
(* DebugTracer, StateDiffTracer and IntraBlockStateTracer                  *)
(* (core/evm_trace.cpp, core/evm_debug.cpp).                               *)
(*                                                                         *)
(* The EVM (external) is a stack of frames.  Every step of it calls back   *)
(* all tracers; each keeps its own picture of where the execution is.      *)
(* Instructions cost one unit of gas, a call gets half of what is left.    *)
(* Stack contents, memory and output are left out.                         *)
(***************************************************************************)
EXTENDS Integers, Sequences

CONSTANTS
    Contract,     \* an address that exists before the block
    Addresses,    \* addresses at which contracts may be created
    Nothing,      \* an empty side of a difference
    MaxGas,       \* the gas of a transaction
    MaxEvents,    \* bound: steps of the EVM in a block
    MaxTxs        \* bound: transactions in a block

ASSUME GasAssumption == MaxGas \in Nat

VARIABLES
    \* the EVM
    phase,     \* "idle", "starting", "running", "created" (a creation ends), "ended", "granted"
    frames,    \* [id, kind, address, start, gas, at], innermost last
    calls,     \* history: all calls in the order of their start
    ops,       \* history: of each call, its instructions
    status,    \* of the frame that ended last
    existing,  \* the addresses that exist before the block
    alive,     \* contracts that earlier transactions of the block created
    events, txs,
    followed,  \* the block is one of which the calls are followed, or the account
    \* TraceTracer
    traces, index_stack, start_gas, current_depth, created, initial_gas,
    \* VmTraceTracer: the operations of each trace, and the traces of the open frames
    vm, traces_stack,
    \* DebugTracer: its logs without a stream; with one, those kept and those written
    whole, logs, written, start_gas_d, gas_on_precompiled,
    \* StateDiffTracer, IntraBlockStateTracer
    world,     \* the state of one account
    first,     \* its state before the block
    before,    \* and before the transaction
    known,     \* what StateAddresses has of it
    diff,      \* its entry in the diff
    \* history: the cases in which the tracers go wrong
    confused,  \* a creation was taken for a call or a call for a creation
    dangling   \* a precompiled contract was called from an inner frame: the outermost trace's
               \* last operation got a new trace, the one being written was freed, and the
               \* next step writes to it; the behaviour ends

evm == <<phase, frames, calls, ops, status, existing, alive, events, txs, followed>>
trace == <<traces, index_stack, start_gas, current_depth, created, initial_gas>>
vmtrace == <<vm, traces_stack>>
debug == <<whole, logs, written, start_gas_d, gas_on_precompiled>>
statediff == <<world, first, before, known, diff>>
vars == <<evm, trace, vmtrace, debug, statediff, confused, dangling>>

Last(s) == s[Len(s)]
Front(s) == SubSeq(s, 1, Len(s) - 1)

(***************************************************************************)
(* TraceTracer                                                             *)
(***************************************************************************)
\* A message is taken for a creation if its recipient is not the address of the code, does not
\* exist before the block and was not created by this transaction.
Creates(address, kind) == kind # "call" /\ address \notin existing /\ address \notin created

NoResult == [present |-> FALSE, code |-> FALSE, gas_used |-> 0]

\* Faulty variant of TraceStart: the calling trace does not count its calls.
TraceStartUncounted(address, kind, gas, depth) ==
    LET create == Creates(address, kind)
        caller == Last(index_stack)
        nested == depth > 0 /\ index_stack # <<>>
        entry == [type |-> IF create THEN "create" ELSE "call", error |-> FALSE,
                  trace_address |-> IF nested THEN Append(traces[caller].trace_address,
                                                          traces[caller].sub_traces)
                                    ELSE <<>>,
                  sub_traces |-> 0,
                  result |-> [present |-> TRUE, code |-> create, gas_used |-> 0]]
    IN  /\ traces' = Append(traces, entry)
        /\ index_stack' = Append(index_stack, Len(traces) + 1)
        /\ start_gas' = Append(start_gas, gas)
        /\ current_depth' = depth
        /\ created' = IF create THEN created \cup {address} ELSE created
        /\ initial_gas' = IF depth = 0 THEN gas ELSE initial_gas

TraceStart(address, kind, gas, depth) ==
    LET create == Creates(address, kind)
        caller == Last(index_stack)
        nested == depth > 0 /\ index_stack # <<>>
        counted == IF nested THEN [traces EXCEPT ![caller].sub_traces = @ + 1] ELSE traces
        entry == [type |-> IF create THEN "create" ELSE "call", error |-> FALSE,
                  trace_address |-> IF nested THEN Append(traces[caller].trace_address,
                                                          traces[caller].sub_traces)
                                    ELSE <<>>,
                  sub_traces |-> 0,
                  result |-> [present |-> TRUE, code |-> create, gas_used |-> 0]]
    IN  /\ traces' = Append(counted, entry)
        /\ index_stack' = Append(index_stack, Len(traces) + 1)
        /\ start_gas' = Append(start_gas, gas)
        /\ current_depth' = depth
        /\ created' = IF create THEN created \cup {address} ELSE created
        /\ initial_gas' = IF depth = 0 THEN gas ELSE initial_gas

Kept(st) == st \in {"success", "revert"}

\* The result of a trace with a status, and the gas used if it is kept.
WithStatus(entry, st, used) ==
    [entry EXCEPT !.error = st # "success",
                  !.result = IF Kept(st) THEN [@ EXCEPT !.gas_used = used] ELSE NoResult]

\* Faulty variant of TraceEnd: a creation is taken off the stacks as well.
TraceEndPops(st, gas_left) ==
    LET index == Last(index_stack)
    IN  /\ index_stack # <<>>    \* top() of an empty stack is undefined: the behaviour ends
        /\ traces' = [traces EXCEPT ![index] = WithStatus(@, st, Last(start_gas) - gas_left)]
        /\ index_stack' = Front(index_stack)
        /\ start_gas' = Front(start_gas)
        /\ current_depth' = current_depth - 1
        /\ UNCHANGED <<created, initial_gas>>

\* A creation stays on the stacks for on_creation_completed.
TraceEnd(st, gas_left) ==
    LET index == Last(index_stack)
        is_code == traces[index].result.code
    IN  /\ index_stack # <<>>    \* top() of an empty stack is undefined: the behaviour ends
        /\ traces' = [traces EXCEPT ![index] = WithStatus(@, st, Last(start_gas) - gas_left)]
        /\ index_stack' = IF is_code THEN index_stack ELSE Front(index_stack)
        /\ start_gas' = IF is_code THEN start_gas ELSE Front(start_gas)
        /\ current_depth' = current_depth - 1
        /\ UNCHANGED <<created, initial_gas>>

\* The write to a result that was reset has no effect.
TraceCreationCompleted(gas_left) ==
    /\ IF index_stack = <<>> THEN UNCHANGED <<traces, index_stack, start_gas>>
       ELSE /\ traces' = [traces EXCEPT ![Last(index_stack)].result =
                  IF @.present THEN [@ EXCEPT !.gas_used = Last(start_gas) - gas_left] ELSE @]
            /\ index_stack' = Front(index_stack)
            /\ start_gas' = Front(start_gas)
    /\ UNCHANGED <<current_depth, created, initial_gas>>

\* The gas of the first trace is that of the transaction.
TraceRewardGranted(st, gas_left) ==
    /\ traces' = IF traces = <<>> THEN traces
                 ELSE [traces EXCEPT ![1] = WithStatus(@, st, initial_gas - gas_left)]
    /\ UNCHANGED <<index_stack, start_gas, current_depth, created, initial_gas>>

(***************************************************************************)
(* VmTraceTracer.  Trace 1 is vm_trace_.  An operation is [n, op, depth,   *)
(* gas_cost, used, sub, precompiled], n to tell it from others.            *)
(***************************************************************************)
VmStart(id, gas, depth) ==
    LET top == Last(traces_stack)
        nested == depth > 0 /\ vm[1] # <<>>
        calling == IF Last(vm[top]).op = "call"
                   THEN [Last(vm[top]) EXCEPT !.depth = depth, !.gas_cost = @ - gas, !.sub = id]
                   ELSE [Last(vm[top]) EXCEPT !.sub = id]
    IN  /\ traces_stack' = IF depth = 0 \/ nested THEN Append(traces_stack, id)
                           ELSE traces_stack
        /\ vm' = IF nested
                 THEN Append([vm EXCEPT ![top] = Append(Front(@), calling)], <<>>)
                 ELSE Append(vm, <<>>)

\* Faulty variant of Settled: a call of a precompiled contract costs what other calls cost.
SettledAsOthers(op, gas_left, depth) ==
    [op EXCEPT !.gas_cost = IF op.depth = depth THEN @ - gas_left ELSE @, !.used = gas_left]

\* The operation before, now that the gas it left is known.
Settled(op, gas_left, depth) ==
    [op EXCEPT !.gas_cost = IF op.precompiled # 0 THEN @ - op.precompiled
                            ELSE IF op.depth = depth THEN @ - gas_left ELSE @,
               !.used = gas_left]

VmInstruction(n, op, gas_left, depth) ==
    LET top == Last(traces_stack)
        settled == IF vm[top] = <<>> THEN <<>>
                   ELSE Append(Front(vm[top]), Settled(Last(vm[top]), gas_left, depth))
        trace_op == [n |-> n, op |-> op, depth |-> depth, gas_cost |-> gas_left, used |-> 0,
                     sub |-> 0, precompiled |-> 0]
    IN  vm' = [vm EXCEPT ![top] = Append(settled, trace_op)] /\ UNCHANGED traces_stack

\* The last operation of the outermost trace gets an empty trace, whoever called.
VmPrecompiled(gas) ==
    /\ vm' = IF vm[1] = <<>> THEN vm
             ELSE [vm EXCEPT ![1][Len(vm[1])].precompiled = gas, ![1][Len(vm[1])].sub = 0]
    /\ UNCHANGED traces_stack

\* A trace that has nothing but a STOP is empty.
VmEnd(st, gas_left, start) ==
    LET top == Last(traces_stack)
        op == Last(vm[top])
        ended == CASE st = "bad_instruction" ->
                         [op EXCEPT !.gas_cost = start - @, !.used = 2 * op.gas_cost - start]
                   [] OTHER -> [op EXCEPT !.gas_cost = @ - gas_left, !.used = gas_left]
    IN  /\ vm' = IF vm[top] = <<>> THEN vm
                 ELSE IF op.op = "stop" /\ Len(vm[top]) = 1 THEN [vm EXCEPT ![top] = <<>>]
                 ELSE [vm EXCEPT ![top] = Append(Front(@), ended)]
        /\ traces_stack' = Front(traces_stack)

(***************************************************************************)
(* DebugTracer.  A log is [n, depth, gas, gas_cost, error].  Without a     *)
(* stream the logs are kept to the end; with one, all but the last two are *)
(* written out.                                                            *)
(***************************************************************************)
SettledLog(log, gas_left, depth) ==
    IF log.depth = depth + 1
    THEN [log EXCEPT !.gas_cost = log.gas - (IF gas_on_precompiled # 0 THEN gas_on_precompiled
                                             ELSE gas_left)]
    ELSE IF log.depth = depth THEN [log EXCEPT !.gas_cost = log.gas - gas_left]
    ELSE log

SettleLast(s, gas_left, depth) ==
    IF s = <<>> THEN s ELSE Append(Front(s), SettledLog(Last(s), gas_left, depth))

\* Faulty variant of WriteFront: the last log is written before its cost is known.
WriteFrontEarly(s) ==
    IF s # <<>> THEN [kept |-> Tail(s), written |-> Append(written, Head(s))]
    ELSE [kept |-> s, written |-> written]

\* With a stream: the first of several logs goes out.
WriteFront(s) ==
    IF Len(s) > 1 THEN [kept |-> Tail(s), written |-> Append(written, Head(s))]
    ELSE [kept |-> s, written |-> written]

DebugInstruction(n, gas_left, depth) ==
    LET log == [n |-> n, depth |-> depth + 1, gas |-> gas_left, gas_cost |-> 0, error |-> FALSE]
        streamed == WriteFront(SettleLast(logs, gas_left, depth))
    IN  /\ whole' = Append(SettleLast(whole, gas_left, depth), log)
        /\ logs' = Append(streamed.kept, log)
        /\ written' = streamed.written
        /\ gas_on_precompiled' = IF logs # <<>> /\ Last(logs).depth = depth + 1 THEN 0
                                 ELSE gas_on_precompiled
        /\ UNCHANGED start_gas_d

EndedLog(log, st, gas_left) ==
    [log EXCEPT !.error = st \in {"out_of_gas", "bad_instruction"},
                !.gas_cost = IF st = "bad_instruction" THEN start_gas_d - log.gas
                             ELSE log.gas - gas_left]

DebugEnd(st, gas_left) ==
    LET Ended(s) == IF s = <<>> THEN s ELSE Append(Front(s), EndedLog(Last(s), st, gas_left))
        streamed == WriteFront(Ended(logs))
    IN  /\ whole' = Ended(whole)
        /\ logs' = streamed.kept
        /\ written' = streamed.written
        /\ UNCHANGED <<start_gas_d, gas_on_precompiled>>

(***************************************************************************)
(* StateDiffTracer and IntraBlockStateTracer, for one account of the       *)
(* touched ones: [exists, fields, slot], with balance, code and nonce as   *)
(* one value and one location.  A side of an entry is Nothing or a value.  *)
(***************************************************************************)
Unchanged == <<Nothing, Nothing>>
NoEntry == [present |-> FALSE, fields |-> Unchanged, slot |-> Unchanged]
NoAccount == [exists |-> FALSE, fields |-> 0, slot |-> 0]
Accounts == {NoAccount} \cup [exists : {TRUE}, fields : 0 .. 2, slot : 0 .. 1]

Changed(from, to) == IF from = to THEN Unchanged ELSE <<from, to>>

Entry(fields, slot) == [present |-> TRUE, fields |-> fields, slot |-> slot]

\* The entry of an account with all its parts equal is erased.
EntryIfChanged(fields, slot) ==
    IF fields = Unchanged /\ slot = Unchanged THEN NoEntry ELSE Entry(fields, slot)

\* Faulty variant of StateDiff: the state before the block instead of the transaction.
StateDiffOfBlock(account, stored) ==
    IF first.exists
    THEN IF account.exists
         THEN EntryIfChanged(Changed(first.fields, account.fields),
                             IF stored THEN Changed(before.slot, account.slot) ELSE Unchanged)
         ELSE Entry(<<first.fields, Nothing>>, IF stored THEN <<before.slot, Nothing>> ELSE Unchanged)
    ELSE IF account.exists
    THEN IF account.fields = 0 /\ ~stored THEN NoEntry
         ELSE Entry(<<Nothing, account.fields>>,
                    IF stored /\ account.slot # 0 THEN <<Nothing, account.slot>> ELSE Unchanged)
    ELSE Entry(Unchanged, Unchanged)

\* Existence is that before the block, the fields are those before the transaction as far as
\* they are known.  `stored`: the location was written with SSTORE.  The entry of an account
\* that exists on neither side stays, without a change.
StateDiff(account, stored) ==
    IF first.exists
    THEN IF account.exists
         THEN EntryIfChanged(Changed(known, account.fields),
                             IF stored THEN Changed(before.slot, account.slot) ELSE Unchanged)
         ELSE Entry(<<known, Nothing>>, IF stored THEN <<before.slot, Nothing>> ELSE Unchanged)
    ELSE IF account.exists
    THEN IF account.fields = 0 /\ ~stored THEN NoEntry
         ELSE Entry(<<Nothing, account.fields>>,
                    IF stored /\ account.slot # 0 THEN <<Nothing, account.slot>> ELSE Unchanged)
    ELSE Entry(Unchanged, Unchanged)

(***************************************************************************)
(* The EVM (external) with its callbacks.                                  *)
(***************************************************************************)
NoTracing ==
    /\ frames = <<>> /\ calls = <<>> /\ ops = <<>> /\ status = "none"
    /\ traces = <<>> /\ index_stack = <<>> /\ start_gas = <<>> /\ current_depth = -1
    /\ created = {} /\ initial_gas = 0
    /\ vm = <<>> /\ traces_stack = <<>>
    /\ whole = <<>> /\ logs = <<>> /\ written = <<>>
    /\ start_gas_d = 0 /\ gas_on_precompiled = 0
    /\ diff = NoEntry /\ confused = FALSE /\ dangling = FALSE

Init ==
    /\ phase = "idle" /\ NoTracing
    /\ existing \in {{Contract} \cup S : S \in SUBSET Addresses}
    /\ alive \in SUBSET (Addresses \ existing)
    /\ events = 0 /\ txs = 0 /\ followed \in BOOLEAN
    /\ first \in IF followed THEN {NoAccount} ELSE Accounts
    /\ ~followed => existing = {Contract} /\ alive = {}
    /\ world = first /\ before = first /\ known = first.fields

NewTracers ==
    /\ frames' = <<>> /\ calls' = <<>> /\ ops' = <<>> /\ status' = "none"
    /\ traces' = <<>> /\ index_stack' = <<>> /\ start_gas' = <<>> /\ current_depth' = -1
    /\ created' = {} /\ initial_gas' = 0
    /\ vm' = <<>> /\ traces_stack' = <<>>
    /\ whole' = <<>> /\ logs' = <<>> /\ written' = <<>>
    /\ start_gas_d' = 0 /\ gas_on_precompiled' = 0
    /\ diff' = NoEntry /\ confused' = FALSE /\ dangling' = FALSE

\* trace_block_transactions: every transaction has tracers of its own; StateAddresses and the
\* tracer that fills it stay.
NewTransaction ==
    /\ phase \in {"idle", "granted"} /\ txs < MaxTxs
    /\ phase' = "starting" /\ txs' = txs + 1
    /\ NewTracers
    /\ before' = world
    /\ UNCHANGED <<existing, alive, events, followed, world, first, known>>

Event == events < MaxEvents /\ events' = events + 1

Depth == Len(frames) - 1

\* A frame begins; callers is the stack of its callers.
Enter(kind, address, gas, callers) ==
    LET id == Len(calls) + 1
        depth == Len(callers)
        path == IF callers = <<>> THEN <<>>
                ELSE Append(calls[Last(callers).id].path, calls[Last(callers).id].children)
        counted == IF callers = <<>> THEN calls
                   ELSE [calls EXCEPT ![Last(callers).id].children = @ + 1]
        noted == IF callers = <<>> \/ Last(callers).at # "call" THEN ops
                 ELSE [ops EXCEPT ![Last(callers).id] =
                          Append(Front(@), [Last(@) EXCEPT !.callee = gas])]
    IN  /\ phase' = "running"
        /\ frames' = Append(callers, [id |-> id, kind |-> kind, address |-> address,
                                      start |-> gas, gas |-> gas, at |-> "begin"])
        /\ calls' = Append(counted, [path |-> path, children |-> 0, kind |-> kind,
                                     status |-> "open", used |-> 0])
        /\ ops' = Append(noted, <<>>)
        /\ TraceStart(address, kind, gas, depth)
        /\ VmStart(id, gas, depth)
        /\ start_gas_d' = gas
        /\ confused' = (confused \/ (Creates(address, kind) # (kind = "create")))
        /\ UNCHANGED <<status, existing, alive, txs, followed, whole, logs, written, gas_on_precompiled,
                       statediff, dangling>>

Start ==
    /\ phase = "starting" /\ followed /\ Event
    /\ \/ Enter("call", Contract, MaxGas, <<>>)
       \/ \E address \in Addresses : Enter("create", address, MaxGas, <<>>)

Half == Last(frames).gas \div 2

\* The instruction before asks for a call: of another contract, with its code in the context of
\* the caller, or of new code.  "call" stands for CALL, STATICCALL and DELEGATECALL, which
\* VmTraceTracer treats alike; CALLCODE it does not know.
Call ==
    /\ phase = "running" /\ ~dangling /\ Event
    /\ LET top == Last(frames)
       IN  /\ Half > 0
           /\ \/ /\ top.at = "call"
                 /\ \E address \in existing \cup alive :
                       Enter("call", address, Half, frames)
              \/ /\ top.at \in {"call", "callcode"}
                 /\ Enter("delegate", top.address, Half, frames)
              \/ /\ top.at = "create"
                 /\ \E address \in Addresses :
                       Enter("create", address, Half, frames)

Instruction ==
    /\ phase = "running" /\ ~dangling /\ Event
    /\ LET top == Last(frames)
       IN  /\ top.at # "stop" /\ top.gas > 0
           /\ \E op \in {"plain", "call", "callcode", "create", "stop"} :
                 /\ op \in {"call", "callcode", "create"} => ops[top.id] # <<>>
                 /\ frames' = Append(Front(frames), [top EXCEPT !.gas = @ - 1, !.at = op])
                 /\ ops' = [ops EXCEPT ![top.id] = Append(@, [n |-> events, op |-> op,
                                                     gas |-> top.gas, callee |-> 0])]
                 /\ VmInstruction(events, op, top.gas, Depth)
           /\ DebugInstruction(events, top.gas, Depth)
    /\ UNCHANGED <<phase, calls, status, existing, alive, txs, followed, trace, statediff, confused,
                   dangling>>

\* The call is of a precompiled contract, which runs outside the EVM.
Precompiled ==
    /\ phase = "running" /\ ~dangling /\ Event
    /\ LET top == Last(frames)
       IN  /\ top.at \in {"call", "callcode"} /\ Half > 0
           /\ frames' = Append(Front(frames), [top EXCEPT !.gas = @ - 1, !.at = "called"])
           /\ ops' = [ops EXCEPT ![top.id] =
                         Append(Front(@), [Last(@) EXCEPT !.callee = Half])]
           /\ VmPrecompiled(Half)
           /\ gas_on_precompiled' = Half
           /\ dangling' = (Depth > 0)
    /\ UNCHANGED <<phase, calls, status, existing, alive, txs, followed, trace, whole, logs, written,
                   start_gas_d, statediff, confused>>

\* The caller pays for the frame that ended.
Return(used) ==
    IF Len(frames) = 1 THEN frames' = <<>> /\ phase' = "ended"
    ELSE LET caller == frames[Len(frames) - 1]
         IN  /\ frames' = Append(Front(Front(frames)),
                                 [caller EXCEPT !.gas = @ - used, !.at = "called"])
             /\ phase' = "running"

End ==
    /\ phase = "running" /\ ~dangling
    /\ LET top == Last(frames)
       IN  /\ top.at # "begin"
           /\ \E st \in {"success", "revert", "out_of_gas", "bad_instruction"} :
                 LET gas_left == IF Kept(st) THEN top.gas ELSE 0
                     used == top.start - gas_left
                 IN  /\ top.at = "stop" => st = "success"
                     /\ status' = st
                     /\ calls' = [calls EXCEPT ![top.id].status = st, ![top.id].used = used]
                     /\ TraceEnd(st, gas_left)
                     /\ VmEnd(st, gas_left, top.start)
                     /\ DebugEnd(st, gas_left)
                     /\ IF top.kind = "create" THEN phase' = "created" /\ UNCHANGED frames
                        ELSE Return(used)
    /\ UNCHANGED <<ops, existing, alive, events, txs, followed, statediff, confused, dangling>>

\* The code of a new contract is paid for.
CreationCompleted ==
    /\ phase = "created"
    /\ LET top == Last(frames)
           left == top.start - calls[top.id].used
       IN  \E deposit \in {0, 1} :
              /\ deposit <= IF status = "success" THEN left ELSE 0
              /\ calls' = [calls EXCEPT ![top.id].used = @ + deposit]
              /\ TraceCreationCompleted(left - deposit)
              /\ Return(calls[top.id].used + deposit)
    /\ UNCHANGED <<ops, status, existing, alive, events, txs, followed, vmtrace, debug, statediff,
                   confused, dangling>>

\* on_reward_granted: the state that the transaction leaves the account in.
Grant(account, stored) ==
    /\ phase' = "granted"
    /\ world' = account
    /\ diff' = StateDiff(account, stored)
    /\ known' = account.fields
    /\ UNCHANGED <<first, before>>

RewardGranted ==
    /\ phase = "ended"
    /\ TraceRewardGranted(status, MaxGas - calls[1].used)
    /\ Grant(world, FALSE)
    /\ UNCHANGED <<frames, calls, ops, status, existing, alive, events, txs, followed, vmtrace, debug,
                   confused, dangling>>

\* A transaction of which the calls are not followed: what counts is what it leaves.
Transaction ==
    /\ phase = "starting" /\ ~followed
    /\ \E account \in Accounts, stored \in BOOLEAN :
          /\ account.exists /\ world.exists /\ account.slot # world.slot => stored
          /\ ~world.exists /\ account.slot # 0 => stored
          /\ Grant(account, stored)
    /\ UNCHANGED <<frames, calls, ops, status, existing, alive, events, txs, followed, trace, vmtrace,
                   debug, confused, dangling>>

Next ==
    \/ NewTransaction \/ Start \/ Call \/ Instruction \/ Precompiled \/ End
    \/ CreationCompleted \/ RewardGranted \/ Transaction

Spec == Init /\ [][Next]_vars

(***************************************************************************)
(* Properties                                                              *)
(***************************************************************************)
\* The stacks of the tracers have an entry for each open frame, the innermost on top, whichever
\* callbacks have opened and closed frames before.
StacksFollowFrames ==
    /\ phase \in {"idle", "starting", "running", "created", "ended", "granted"}
    /\ confused \/ (/\ Len(index_stack) = Len(frames) /\ Len(start_gas) = Len(frames)
                    /\ \A i \in DOMAIN frames : /\ index_stack[i] = frames[i].id
                                                /\ start_gas[i] = frames[i].start)
    /\ Len(traces_stack) = Len(frames) - (IF phase = "created" THEN 1 ELSE 0)
    /\ \A i \in DOMAIN traces_stack : traces_stack[i] = frames[i].id
    /\ phase \in {"starting", "granted", "idle", "ended"} => frames = <<>>

\* The traces of a finished transaction are its calls in the order of their start, each with
\* its place in the tree of calls, the number of calls it made, whether it succeeded, and the
\* gas it used, unless a call was taken for a creation or a creation for a call.
TracesFollowCalls ==
    phase = "granted" /\ ~confused =>
        /\ Len(traces) = Len(calls)
        /\ \A i \in DOMAIN traces :
              /\ traces[i].trace_address = calls[i].path
              /\ traces[i].sub_traces = calls[i].children
              /\ (traces[i].type = "create") <=> (calls[i].kind = "create")
              /\ traces[i].error <=> (calls[i].status # "success")
              /\ traces[i].result.present <=> Kept(calls[i].status)
              /\ traces[i].result.present => traces[i].result.gas_used = calls[i].used

\* What an instruction cost: for a CALL, STATICCALL or DELEGATECALL that opened a frame, and for
\* any call of a precompiled contract, the gas it had less what it gave away (callee); for all
\* others the gas that was gone when the next instruction of the frame began.  For a CALLCODE or
\* a creation that includes what its frame used.
Cost(s, i) == IF s[i].callee # 0 THEN s[i].gas - s[i].callee ELSE s[i].gas - s[i + 1].gas

\* The operations of a VM trace are the instructions of its own frame, in order, with the gas
\* that each cost and left for the next.  (Behaviours end where on_precompiled_run replaces a
\* trace that is still being written: see dangling.)
OperationsOfOwnFrame ==
    phase \in {"ended", "granted"} =>
        \A id \in DOMAIN ops :
            LET s == ops[id]
                stop == Len(s) = 1 /\ s[1].op = "stop"
            IN  IF stop THEN vm[id] = <<>>
                ELSE /\ Len(vm[id]) = Len(s)
                     /\ \A i \in DOMAIN s : vm[id][i].n = s[i].n
                     /\ \A i \in 1 .. Len(s) - 1 :
                           /\ vm[id][i].used = s[i + 1].gas
                           /\ vm[id][i].gas_cost = Cost(s, i)

\* A debug trace is the same whether it is streamed or kept: no log is written while it may
\* still change, none is lost, and they keep their order.
StreamedLogsAreWhole == written \o logs = whole

\* A state diff says what a transaction changed, if the account existed before the block as
\* it does before the transaction (existence is that of the block's start): it lists an account
\* that stays only if it changed, and one that exists on neither side without a change.
StateDiffExact ==
    phase = "granted" /\ before.exists = first.exists =>
        CASE before.exists /\ world.exists ->
                /\ diff.fields = Changed(before.fields, world.fields)
                /\ diff.slot = Changed(before.slot, world.slot)
                /\ diff.present <=> before # world
          [] before.exists /\ ~world.exists -> diff.fields = <<before.fields, Nothing>>
          [] ~before.exists /\ world.exists ->
                /\ diff.fields = <<Nothing, world.fields>>
                   \/ (diff = NoEntry /\ world.fields = 0 /\ world.slot = 0)
                /\ world.slot # 0 => diff.slot = <<Nothing, world.slot>>
          [] OTHER -> diff = Entry(Unchanged, Unchanged)
=============================================================================
