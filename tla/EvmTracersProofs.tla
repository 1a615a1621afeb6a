-------------------------- MODULE EvmTracersProofs --------------------------
(***************************************************************************)
(* Proofs about the other tracers of EvmTracing: the traces of TraceTracer *)
(* are the calls of the transaction, its stack and that of VmTraceTracer   *)
(* follow the frames of the EVM, a streamed debug trace is the trace that  *)
(* is kept, and a state diff says what the transaction changed.            *)
(***************************************************************************)
EXTENDS EvmVmTraceProofs

\* Time for the larger leaves.
USE SMTT(30), ZenonT(60)

(***************************************************************************)
(* TraceTracer                                                             *)
(***************************************************************************)
Trace == [type : {"create", "call"}, error : BOOLEAN, trace_address : Seq(Nat),
          sub_traces : Nat, result : [present : BOOLEAN, code : BOOLEAN, gas_used : Int]]

TraceStackInv ==
  /\ index_stack \in Seq(Nat) /\ start_gas \in Seq(Int)
  /\ Len(index_stack) = Len(frames) /\ Len(start_gas) = Len(frames)
  /\ \A i \in 1 .. Len(frames) :
        /\ index_stack[i] = frames[i].id /\ start_gas[i] = frames[i].start
        /\ Open(i) => /\ traces[frames[i].id].result.present
                      /\ traces[frames[i].id].result.code <=> frames[i].kind = "create"

TraceOfCall(entry, call) ==
  /\ entry.trace_address = call.path /\ entry.sub_traces = call.children
  /\ (entry.type = "create") <=> (call.kind = "create")
  /\ call.status # "open" =>
        /\ entry.error <=> (call.status # "success")
        /\ entry.result.present <=> Kept(call.status)
        /\ entry.result.present => entry.result.gas_used = call.used

TraceListInv ==
  /\ traces \in Seq(Trace) /\ Len(traces) = Len(calls)
  /\ \A c \in 1 .. Len(calls) : TraceOfCall(traces[c], calls[c])
  /\ phase \in {"running", "created", "ended"} => initial_gas = MaxGas

TraceInv == ~confused => TraceStackInv /\ TraceListInv

\* TraceStart of a nested call: the calling trace counts it, and both stacks grow.
LEMMA TraceStartNested ==
  ASSUME EvmInv, TraceInv, phase = "running", phase' = "running",
         NEW kind \in Kinds, NEW address, NEW gas \in Int,
         NewFrame(kind, gas), NewCall(kind, Last(frames).id),
         TraceStart(address, kind, gas, Len(frames)),
         confused' = (confused \/ (Creates(address, kind) # (kind = "create")))
  PROVE  TraceInv'
<1> SUFFICES ASSUME ~confused' PROVE TraceStackInv' /\ TraceListInv'
  BY DEF TraceInv
<1> DEFINE create == Creates(address, kind)
           top == Last(frames).id
           n == Len(calls) + 1
           k == Len(frames)
           path == Append(traces[top].trace_address, traces[top].sub_traces)
           counted == [traces EXCEPT ![top].sub_traces = @ + 1]
           entry == [type |-> IF create THEN "create" ELSE "call", error |-> FALSE,
                     trace_address |-> path, sub_traces |-> 0,
                     result |-> [present |-> TRUE, code |-> create, gas_used |-> 0]]
<1>1. ~confused /\ create \in BOOLEAN /\ (create <=> kind = "create")
  BY ZenonT(60) DEF Creates
<1>2. TraceStackInv /\ TraceListInv
  BY <1>1 DEF TraceInv
<1>3. frames # <<>>
  BY DEF EvmInv, FramesInv
<1>4. /\ k \in Nat \ {0} /\ Last(frames) = frames[k] /\ top \in 1 .. Len(calls)
      /\ Len(calls) \in Nat /\ calls[top] \in CallRecord /\ frames \in Seq(Frame)
  BY <1>3, TopFrame
<1>5. index_stack # <<>> /\ Last(index_stack) = top
  BY <1>2, <1>4 DEF TraceStackInv, Last
<1>6. traces \in Seq(Trace) /\ Len(traces) = Len(calls) /\ traces[top] \in Trace
  BY <1>2, <1>4 DEF TraceListInv
<1>7. /\ traces' = Append(counted, entry) /\ index_stack' = Append(index_stack, n)
      /\ start_gas' = Append(start_gas, gas) /\ initial_gas' = initial_gas
  <2>1. (k > 0 /\ index_stack # <<>>) /\ k # 0 /\ Len(traces) + 1 = n
    BY <1>4, <1>5, <1>6
  <2>2. QED
    BY <1>5, <2>1, ZenonT(60) DEF TraceStart
<1>8. TraceOfCall(traces[top], calls[top])
  BY <1>2, <1>4 DEF TraceListInv
<1>9. path \in Seq(Nat) /\ path = Append(calls[top].path, calls[top].children)
  <2>1. traces[top].trace_address \in Seq(Nat) /\ traces[top].sub_traces \in Nat
    BY <1>6 DEF Trace
  <2>2. QED
    BY <1>8, <2>1 DEF TraceOfCall
<1> HIDE DEF create, path
<1>10. /\ entry \in Trace /\ entry.result.present /\ (entry.result.code <=> kind = "create")
       /\ TraceOfCall(entry, calls'[n])
  <2>1. calls'[n] = [path |-> path, children |-> 0, kind |-> kind, status |-> "open",
                     used |-> 0]
    BY <1>9 DEF NewCall
  <2>2. entry \in Trace /\ entry.result.present /\ (entry.result.code <=> kind = "create")
    BY <1>1, <1>9 DEF Trace
  <2>3. QED
    BY <1>1, <2>1, <2>2 DEF TraceOfCall
<1> DEFINE more == [traces[top] EXCEPT !.sub_traces = @ + 1]
<1>11. /\ more \in Trace /\ more.result = traces[top].result
       /\ TraceOfCall(more, calls'[top])
  <2>1. more \in Trace /\ more.result = traces[top].result
    <3>1. traces[top].sub_traces + 1 \in Nat
      BY <1>6 DEF Trace
    <3>2. QED
      BY <1>6, <3>1, ZenonT(60) DEF Trace
  <2>2. calls'[top] = [calls[top] EXCEPT !.children = @ + 1]
    BY DEF NewCall
  <2>3. /\ more.trace_address = traces[top].trace_address
        /\ more.sub_traces = traces[top].sub_traces + 1
        /\ more.type = traces[top].type /\ more.error = traces[top].error
    BY <1>6 DEF Trace
  <2>4. LET call == [calls[top] EXCEPT !.children = @ + 1]
        IN  /\ call.path = calls[top].path /\ call.children = calls[top].children + 1
            /\ call.kind = calls[top].kind /\ call.status = calls[top].status
            /\ call.used = calls[top].used
    BY <1>4 DEF CallRecord
  <2> HIDE DEF more
  <2>5. QED
    BY <1>8, <2>1, <2>2, <2>3, <2>4 DEF TraceOfCall
<1>12. counted = [traces EXCEPT ![top] = more]
  OBVIOUS
<1> HIDE DEF entry, more, counted
<1>13. /\ counted \in Seq(Trace) /\ Len(counted) = Len(calls) /\ counted[top] = more
       /\ \A c \in 1 .. Len(calls) : c # top => counted[c] = traces[c]
  BY <1>4, <1>6, <1>11, <1>12, UpdateAt
<1>14. /\ traces' \in Seq(Trace) /\ Len(traces') = n /\ traces'[n] = entry
       /\ \A c \in 1 .. Len(calls) : traces'[c] = counted[c]
  BY <1>7, <1>10, <1>13, AppendLast
<1>15. TraceListInv'
  <2>1. Len(calls') = n /\ \A c \in 1 .. Len(calls) : c # top => calls'[c] = calls[c]
    BY DEF NewCall
  <2>2. ASSUME NEW c \in 1 .. Len(calls') PROVE TraceOfCall(traces'[c], calls'[c])
    <3>1. CASE c = n
      BY <1>10, <1>14, <3>1
    <3>2. CASE c = top
      BY <1>4, <1>11, <1>13, <1>14, <3>2
    <3>3. CASE c \in 1 .. Len(calls) /\ c # top
      <4>1. traces'[c] = traces[c] /\ calls'[c] = calls[c]
        BY <1>13, <1>14, <2>1, <3>3
      <4>2. TraceOfCall(traces[c], calls[c])
        BY <1>2, <3>3 DEF TraceListInv
      <4>3. QED
        BY <4>1, <4>2
    <3>4. QED
      BY <1>4, <2>1, <3>1, <3>2, <3>3
  <2>3. initial_gas' = MaxGas
    BY <1>2, <1>7 DEF TraceListInv
  <2>4. QED
    BY <1>14, <2>1, <2>2, <2>3 DEF TraceListInv, TraceOfCall
<1>16. TraceStackInv'
  <2>1. /\ index_stack \in Seq(Nat) /\ start_gas \in Seq(Int)
        /\ Len(index_stack) = k /\ Len(start_gas) = k
    BY <1>2 DEF TraceStackInv
  <2>2. /\ index_stack' \in Seq(Nat) /\ Len(index_stack') = k + 1 /\ index_stack'[k + 1] = n
        /\ \A i \in 1 .. k : index_stack'[i] = index_stack[i]
    BY <1>4, <1>7, <2>1, AppendLast
  <2>3. /\ start_gas' \in Seq(Int) /\ Len(start_gas') = k + 1 /\ start_gas'[k + 1] = gas
        /\ \A i \in 1 .. k : start_gas'[i] = start_gas[i]
    BY <1>4, <1>7, <2>1, AppendLast
  <2>4. /\ Len(frames') = k + 1 /\ \A i \in 1 .. k : frames'[i] = frames[i]
        /\ frames'[k + 1].id = n /\ frames'[k + 1].kind = kind /\ frames'[k + 1].start = gas
    BY DEF NewFrame
  <2>5. ASSUME NEW i \in 1 .. k
        PROVE  /\ index_stack'[i] = frames'[i].id /\ start_gas'[i] = frames'[i].start
               /\ traces'[frames'[i].id].result.present
               /\ traces'[frames'[i].id].result.code <=> frames'[i].kind = "create"
    <3>1. /\ index_stack[i] = frames[i].id /\ start_gas[i] = frames[i].start
          /\ traces[frames[i].id].result.present
          /\ traces[frames[i].id].result.code <=> frames[i].kind = "create"
      BY <1>2 DEF TraceStackInv, Open
    <3>2. frames[i].id \in 1 .. Len(calls)
      BY DEF EvmInv, FramesInv
    <3>3. traces'[frames[i].id].result = traces[frames[i].id].result
      BY <1>11, <1>13, <1>14, <3>2, ZenonT(60)
    <3>4. QED
      BY <2>2, <2>3, <2>4, <3>1, <3>3, ZenonT(60)
  <2>6. /\ index_stack'[k + 1] = frames'[k + 1].id /\ start_gas'[k + 1] = frames'[k + 1].start
        /\ traces'[frames'[k + 1].id].result.present
        /\ traces'[frames'[k + 1].id].result.code <=> frames'[k + 1].kind = "create"
    BY <1>10, <1>14, <2>2, <2>3, <2>4
  <2>7. \A i \in 1 .. Len(frames') : i = k + 1 \/ i \in 1 .. k
    BY <1>4, <2>4
  <2>8. QED
    BY <2>2, <2>3, <2>4, <2>5, <2>6, <2>7, ZenonT(60) DEF TraceStackInv
<1>17. QED
  BY <1>15, <1>16

\* TraceStart of the outermost call.
LEMMA TraceStartOutermost ==
  ASSUME EvmInv, TraceInv, phase = "starting",
         NEW kind \in Kinds, NEW address, Enter(kind, address, MaxGas, <<>>)
  PROVE  TraceInv'
<1> SUFFICES ASSUME ~confused' PROVE TraceStackInv' /\ TraceListInv'
  BY DEF TraceInv
<1> DEFINE create == Creates(address, kind)
           entry == [type |-> IF create THEN "create" ELSE "call", error |-> FALSE,
                     trace_address |-> <<>>, sub_traces |-> 0,
                     result |-> [present |-> TRUE, code |-> create, gas_used |-> 0]]
           frame == [id |-> 1, kind |-> kind, address |-> address, start |-> MaxGas,
                     gas |-> MaxGas, at |-> "begin"]
           call == [path |-> <<>>, children |-> 0, kind |-> kind, status |-> "open", used |-> 0]
<1>1. ~confused /\ create \in BOOLEAN /\ (create <=> kind = "create")
  BY ZenonT(60) DEF Creates, Enter
<1>2. TraceStackInv /\ TraceListInv
  BY <1>1 DEF TraceInv
<1>3. calls = <<>> /\ frames = <<>>
  BY DEF EvmInv, FramesInv
<1>4. traces = <<>> /\ index_stack = <<>> /\ start_gas = <<>>
  <2>1. /\ traces \in Seq(Trace) /\ Len(traces) = Len(calls)
        /\ index_stack \in Seq(Nat) /\ Len(index_stack) = Len(frames)
        /\ start_gas \in Seq(Int) /\ Len(start_gas) = Len(frames)
    BY <1>2 DEF TraceListInv, TraceStackInv
  <2>2. QED
    BY <1>3, <2>1
<1>5. /\ frames' = <<frame>> /\ calls' = <<call>> /\ phase' = "running"
      /\ TraceStart(address, kind, MaxGas, 0)
  BY <1>3 DEF Enter
<1>6. /\ traces' = <<entry>> /\ index_stack' = <<1>> /\ start_gas' = <<MaxGas>>
      /\ initial_gas' = MaxGas
  BY <1>4, <1>5 DEF TraceStart
<1> HIDE DEF create
<1>7. /\ entry \in Trace /\ entry.result.present /\ (entry.result.code <=> kind = "create")
      /\ TraceOfCall(entry, call)
  <2>1. <<>> \in Seq(Nat)
    OBVIOUS
  <2>2. entry \in Trace /\ entry.result.present /\ (entry.result.code <=> kind = "create")
    BY <1>1, <2>1 DEF Trace
  <2>3. QED
    BY <1>1, <2>2 DEF TraceOfCall
<1>8. /\ frame.id = 1 /\ frame.kind = kind /\ frame.start = MaxGas
  OBVIOUS
<1> HIDE DEF entry, call, frame
<1>9. TraceListInv'
  BY <1>5, <1>6, <1>7 DEF TraceListInv, TraceOfCall
<1>10. TraceStackInv'
  BY <1>5, <1>6, <1>7, <1>8, GasAssumption DEF TraceStackInv
<1>11. QED
  BY <1>9, <1>10

\* A step in the innermost frame leaves the traces as they are.
LEMMA TraceKept ==
  ASSUME TraceInv, UNCHANGED <<phase, calls, trace, confused>>, Len(frames') = Len(frames),
         \A i \in 1 .. Len(frames) : /\ frames'[i].id = frames[i].id
                                     /\ frames'[i].kind = frames[i].kind
                                     /\ frames'[i].start = frames[i].start
  PROVE  TraceInv'
<1> SUFFICES ASSUME ~confused' PROVE TraceStackInv' /\ TraceListInv'
  BY DEF TraceInv
<1>1. TraceStackInv /\ TraceListInv
  BY DEF TraceInv
<1>2. TraceListInv'
  BY <1>1 DEF TraceListInv, TraceOfCall, trace
<1>3. TraceStackInv'
  BY <1>1, ZenonT(60) DEF TraceStackInv, Open, trace
<1>4. QED
  BY <1>2, <1>3

\* What a status makes of a trace.
LEMMA StatusOfTrace ==
  ASSUME NEW entry \in Trace, NEW st \in Statuses, NEW used \in Int,
         Kept(st) => entry.result.present
  PROVE  LET new == WithStatus(entry, st, used)
         IN  /\ new \in Trace /\ new.type = entry.type /\ new.sub_traces = entry.sub_traces
             /\ new.trace_address = entry.trace_address
             /\ new.error <=> (st # "success")
             /\ new.result.present <=> Kept(st)
             /\ new.result.present => new.result.gas_used = used
<1> DEFINE result == IF Kept(st) THEN [entry.result EXCEPT !.gas_used = used] ELSE NoResult
<1>1. /\ result \in [present : BOOLEAN, code : BOOLEAN, gas_used : Int]
      /\ (result.present <=> Kept(st)) /\ (result.present => result.gas_used = used)
  <2>1. entry.result \in [present : BOOLEAN, code : BOOLEAN, gas_used : Int]
    BY DEF Trace
  <2>2. QED
    BY <2>1 DEF NoResult
<1>2. WithStatus(entry, st, used) =
        [entry EXCEPT !.error = st # "success", !.result = result]
  BY DEF WithStatus
<1> HIDE DEF result
<1>3. QED
  BY <1>1, <1>2, ZenonT(60) DEF Trace

\* The trace of one call changes as the call does.
LEMMA TraceUpdated ==
  ASSUME EvmInv, TraceListInv, NEW id \in 1 .. Len(calls),
         NEW entry \in Trace, NEW call \in CallRecord, TraceOfCall(entry, call),
         traces' = [traces EXCEPT ![id] = entry], calls' = [calls EXCEPT ![id] = call],
         phase' \in {"running", "created", "ended"} => phase \in {"running", "created", "ended"},
         initial_gas' = initial_gas
  PROVE  /\ TraceListInv' /\ traces'[id] = entry
         /\ \A c \in 1 .. Len(calls) : c # id => traces'[c] = traces[c]
<1>1. traces \in Seq(Trace) /\ Len(traces) = Len(calls) /\ calls \in Seq(CallRecord)
  BY DEF EvmInv, FramesInv, TraceListInv
<1>2. /\ traces' \in Seq(Trace) /\ Len(traces') = Len(calls) /\ traces'[id] = entry
      /\ \A c \in 1 .. Len(calls) : c # id => traces'[c] = traces[c]
  BY <1>1, UpdateAt
<1>3. /\ Len(calls') = Len(calls) /\ calls'[id] = call
      /\ \A c \in 1 .. Len(calls) : c # id => calls'[c] = calls[c]
  BY <1>1, UpdateAt
<1>4. \A c \in 1 .. Len(calls) : TraceOfCall(traces[c], calls[c])
  BY DEF TraceListInv
<1>5. \A c \in 1 .. Len(calls) : TraceOfCall(traces'[c], calls'[c])
  BY <1>2, <1>3, <1>4, ZenonT(60)
<1>6. phase' \in {"running", "created", "ended"} => initial_gas' = MaxGas
  BY DEF TraceListInv
<1>7. QED
  BY <1>2, <1>3, <1>5, <1>6 DEF TraceListInv, TraceOfCall

\* The innermost frame ends and leaves the stacks.
LEMMA TraceStackPop ==
  ASSUME EvmInv, TraceStackInv, frames # <<>>, NEW used \in Int, Return(used),
         index_stack' = Front(index_stack), start_gas' = Front(start_gas),
         \A c \in 1 .. Len(calls) : c # Last(frames).id => traces'[c] = traces[c]
  PROVE  TraceStackInv'
<1> DEFINE k == Len(frames)
<1>1. frames \in Seq(Frame) /\ k \in Nat \ {0}
  BY TopFrame
<1>2. /\ Len(frames') = k - 1
      /\ \A i \in 1 .. k - 1 : /\ frames'[i].id = frames[i].id
                               /\ frames'[i].kind = frames[i].kind
                               /\ frames'[i].start = frames[i].start
  BY <1>1, ReturnFrames
<1>3. /\ index_stack \in Seq(Nat) /\ Len(index_stack) = k /\ index_stack # <<>>
      /\ start_gas \in Seq(Int) /\ Len(start_gas) = k /\ start_gas # <<>>
  BY <1>1 DEF TraceStackInv
<1>4. /\ index_stack' \in Seq(Nat) /\ Len(index_stack') = k - 1
      /\ \A i \in 1 .. k - 1 : index_stack'[i] = index_stack[i]
  BY <1>3, LastFront, ZenonT(60)
<1>5. /\ start_gas' \in Seq(Int) /\ Len(start_gas') = k - 1
      /\ \A i \in 1 .. k - 1 : start_gas'[i] = start_gas[i]
  BY <1>3, LastFront, ZenonT(60)
<1>6. ASSUME NEW i \in 1 .. k - 1
      PROVE  /\ index_stack'[i] = frames'[i].id /\ start_gas'[i] = frames'[i].start
             /\ traces'[frames'[i].id].result.present
             /\ traces'[frames'[i].id].result.code <=> frames'[i].kind = "create"
  <2>1. i \in 1 .. Len(frames) /\ i # Len(frames)
    BY <1>1
  <2>2. frames[i].id \in 1 .. Len(calls) /\ frames[i].id # Last(frames).id
    BY <2>1, OuterCalls
  <2>3. traces'[frames[i].id] = traces[frames[i].id]
    BY <2>2
  <2>4. /\ index_stack[i] = frames[i].id /\ start_gas[i] = frames[i].start
        /\ traces[frames[i].id].result.present
        /\ traces[frames[i].id].result.code <=> frames[i].kind = "create"
    BY <2>1 DEF TraceStackInv, Open
  <2>5. QED
    BY <1>2, <1>4, <1>5, <2>3, <2>4
<1> HIDE DEF k
<1>7. QED
  BY <1>2, <1>4, <1>5, <1>6 DEF TraceStackInv

\* The tops of the stacks are the innermost call and the gas it was given.
LEMMA TraceTop ==
  ASSUME EvmInv, TraceStackInv, TraceListInv, frames # <<>>
  PROVE  /\ index_stack # <<>> /\ Last(index_stack) = Last(frames).id
         /\ Last(start_gas) = Last(frames).start
         /\ traces[Last(frames).id] \in Trace
         /\ TraceOfCall(traces[Last(frames).id], calls[Last(frames).id])
<1>1. /\ Len(frames) \in Nat \ {0} /\ Last(frames) = frames[Len(frames)]
      /\ Last(frames).id \in 1 .. Len(calls)
  BY TopFrame
<1>2. Len(frames) \in 1 .. Len(frames)
  BY <1>1
<1>3. index_stack # <<>> /\ Last(index_stack) = Last(frames).id
  BY <1>1, <1>2 DEF TraceStackInv, Last
<1>4. Last(start_gas) = Last(frames).start
  BY <1>1, <1>2 DEF TraceStackInv, Last
<1>5. QED
  BY <1>1, <1>3, <1>4 DEF TraceListInv

\* on_execution_end gives the trace of the frame its outcome and its gas.
LEMMA TraceEndStep ==
  ASSUME EvmInv, TraceInv, End
  PROVE  TraceInv'
<1> SUFFICES ASSUME ~confused PROVE TraceStackInv' /\ TraceListInv'
  BY DEF TraceInv, End
<1> DEFINE top == Last(frames)
           id == top.id
           k == Len(frames)
<1>1. phase = "running" /\ frames # <<>> /\ TraceStackInv /\ TraceListInv
  BY DEF End, EvmInv, FramesInv, TraceInv
<1>2. /\ top \in Frame /\ top = frames[k] /\ k \in Nat \ {0} /\ id \in 1 .. Len(calls)
      /\ calls \in Seq(CallRecord) /\ calls[id] \in CallRecord
  BY <1>1, TopFrame
<1>3. /\ index_stack # <<>> /\ Last(index_stack) = id /\ Last(start_gas) = top.start
      /\ traces[id] \in Trace /\ TraceOfCall(traces[id], calls[id])
  BY <1>1, TraceTop
<1>4. traces[id].result.present /\ (traces[id].result.code <=> top.kind = "create")
  <2>1. k \in 1 .. Len(frames) /\ Open(k)
    BY <1>1, <1>2 DEF Open
  <2>2. QED
    BY <1>1, <1>2, <2>1 DEF TraceStackInv
<1>5. PICK st \in Statuses, gas_left \in Int :
        /\ calls' = [calls EXCEPT ![id].status = st, ![id].used = top.start - gas_left]
        /\ TraceEnd(st, gas_left)
        /\ IF top.kind = "create" THEN phase' = "created" /\ UNCHANGED frames
           ELSE Return(top.start - gas_left)
  <2>1. top.gas \in Int
    BY <1>2 DEF Frame
  <2>2. PICK st \in Statuses :
          LET gas_left == IF Kept(st) THEN top.gas ELSE 0
          IN  /\ calls' = [calls EXCEPT ![id].status = st, ![id].used = top.start - gas_left]
              /\ TraceEnd(st, gas_left)
              /\ IF top.kind = "create" THEN phase' = "created" /\ UNCHANGED frames
                 ELSE Return(top.start - gas_left)
    BY ZenonT(60) DEF End, Statuses
  <2>3. (IF Kept(st) THEN top.gas ELSE 0) \in Int
    BY <2>1
  <2>4. QED
    BY <2>2, <2>3, ZenonT(60)
<1> DEFINE used == top.start - gas_left
           call == [calls[id] EXCEPT !.status = st, !.used = used]
           entry == WithStatus(traces[id], st, used)
<1>6. used \in Int
  BY <1>2 DEF Frame
<1>7. calls' = [calls EXCEPT ![id] = call]
  BY <1>2, <1>5, ZenonT(60)
<1>8. /\ traces' = [traces EXCEPT ![id] = entry] /\ initial_gas' = initial_gas
      /\ (top.kind = "create" => UNCHANGED <<index_stack, start_gas>>)
      /\ (top.kind # "create" =>
            index_stack' = Front(index_stack) /\ start_gas' = Front(start_gas))
  BY <1>3, <1>4, <1>5 DEF TraceEnd
<1> HIDE DEF used
<1>9. /\ call \in CallRecord /\ call.status = st /\ call.used = used /\ call.path = calls[id].path
      /\ call.children = calls[id].children /\ call.kind = calls[id].kind
  BY <1>2, <1>6, ZenonT(60) DEF CallRecord
<1>10. /\ entry \in Trace /\ entry.type = traces[id].type
       /\ entry.sub_traces = traces[id].sub_traces
       /\ entry.trace_address = traces[id].trace_address
       /\ entry.error <=> (st # "success")
       /\ entry.result.present <=> Kept(st)
       /\ entry.result.present => entry.result.gas_used = used
  <2>1. traces[id] \in Trace /\ traces[id].result.present
    BY <1>3, <1>4, ZenonT(60)
  <2> HIDE DEF id
  <2>2. QED
    BY <1>6, <2>1, StatusOfTrace
<1> HIDE DEF entry, call
<1>11. TraceOfCall(entry, call)
  BY <1>3, <1>9, <1>10 DEF TraceOfCall
<1>12. TraceListInv' /\ \A c \in 1 .. Len(calls) : c # id => traces'[c] = traces[c]
  BY <1>1, <1>2, <1>7, <1>8, <1>9, <1>10, <1>11, TraceUpdated, ZenonT(60)
<1>13. TraceStackInv'
  <2>1. CASE top.kind # "create"
    <3>1. Return(used)
      BY <1>5, <2>1 DEF used
    <3>2. QED
      BY <1>1, <1>6, <1>8, <1>12, <2>1, <3>1, TraceStackPop
  <2>2. CASE top.kind = "create"
    <3>1. phase' = "created" /\ frames' = frames /\ UNCHANGED <<index_stack, start_gas>>
      BY <1>5, <1>8, <2>2
    <3>2. \A i \in 1 .. Len(frames) : i # Len(frames) =>
             traces'[frames[i].id] = traces[frames[i].id]
      BY <1>12, OuterCalls
    <3>3. \A i \in 1 .. Len(frames) : Open(i)
      BY <1>1 DEF Open
    <3>4. QED
      BY <1>1, <3>1, <3>2, <3>3, ZenonT(60) DEF TraceStackInv, Open
  <2>3. QED
    BY <2>1, <2>2
<1>14. QED
  BY <1>12, <1>13

\* on_creation_completed pops the frame of the new contract.
LEMMA TraceCreationStep ==
  ASSUME EvmInv, TraceInv, CreationCompleted
  PROVE  TraceInv'
<1> SUFFICES ASSUME ~confused PROVE TraceStackInv' /\ TraceListInv'
  BY DEF TraceInv, CreationCompleted
<1> DEFINE top == Last(frames)
           id == top.id
<1>1. phase = "created" /\ frames # <<>> /\ TraceStackInv /\ TraceListInv
  BY DEF CreationCompleted, EvmInv, FramesInv, TraceInv
<1>2. /\ top \in Frame /\ id \in 1 .. Len(calls) /\ calls \in Seq(CallRecord)
      /\ calls[id] \in CallRecord
  BY <1>1, TopFrame
<1>3. /\ index_stack # <<>> /\ Last(index_stack) = id /\ Last(start_gas) = top.start
      /\ traces[id] \in Trace /\ TraceOfCall(traces[id], calls[id])
  BY <1>1, TraceTop
<1>4. PICK deposit \in {0, 1} :
        /\ calls' = [calls EXCEPT ![id].used = @ + deposit]
        /\ TraceCreationCompleted(top.start - calls[id].used - deposit)
        /\ Return(calls[id].used + deposit)
  BY ZenonT(60) DEF CreationCompleted
<1> DEFINE used == calls[id].used + deposit
           call == [calls[id] EXCEPT !.used = used]
           result == IF traces[id].result.present
                     THEN [traces[id].result EXCEPT !.gas_used = used] ELSE traces[id].result
           entry == [traces[id] EXCEPT !.result = result]
<1>5. used \in Int /\ top.start - (top.start - calls[id].used - deposit) = used
  <2>1. top.start \in Int /\ calls[id].used \in Int /\ deposit \in Int
    BY <1>2 DEF Frame, CallRecord
  <2>2. QED
    BY <2>1
<1>6. calls' = [calls EXCEPT ![id] = call]
  BY <1>4
<1>7. /\ traces' = [traces EXCEPT ![id] = entry] /\ initial_gas' = initial_gas
      /\ index_stack' = Front(index_stack) /\ start_gas' = Front(start_gas)
  BY <1>3, <1>4, <1>5 DEF TraceCreationCompleted
<1>8. Return(used)
  BY <1>4
<1> HIDE DEF used
<1>9. /\ call \in CallRecord /\ call.status = calls[id].status /\ call.used = used
      /\ call.path = calls[id].path /\ call.children = calls[id].children
      /\ call.kind = calls[id].kind
  BY <1>2, <1>5, ZenonT(60) DEF CallRecord
<1>10. /\ result \in [present : BOOLEAN, code : BOOLEAN, gas_used : Int]
       /\ result.present <=> traces[id].result.present
       /\ result.present => result.gas_used = used
  <2>1. traces[id].result \in [present : BOOLEAN, code : BOOLEAN, gas_used : Int]
    BY <1>3 DEF Trace
  <2>2. QED
    BY <1>5, <2>1
<1> HIDE DEF result
<1>11. /\ entry \in Trace /\ entry.type = traces[id].type /\ entry.error = traces[id].error
       /\ entry.sub_traces = traces[id].sub_traces
       /\ entry.trace_address = traces[id].trace_address /\ entry.result = result
  BY <1>3, <1>10, ZenonT(60) DEF Trace
<1> HIDE DEF entry, call
<1>12. TraceOfCall(entry, call)
  BY <1>3, <1>9, <1>10, <1>11 DEF TraceOfCall
<1>13. TraceListInv' /\ \A c \in 1 .. Len(calls) : c # id => traces'[c] = traces[c]
  BY <1>1, <1>2, <1>6, <1>7, <1>9, <1>11, <1>12, TraceUpdated, ZenonT(60)
<1>14. TraceStackInv'
  BY <1>1, <1>5, <1>7, <1>8, <1>13, TraceStackPop
<1>15. QED
  BY <1>13, <1>14

\* on_reward_granted gives the outermost trace the gas of the transaction.
LEMMA TraceRewardStep ==
  ASSUME EvmInv, TraceInv, RewardGranted
  PROVE  TraceInv'
<1> SUFFICES ASSUME ~confused PROVE TraceStackInv' /\ TraceListInv'
  BY DEF TraceInv, RewardGranted
<1>1. TraceStackInv /\ TraceListInv
  BY DEF TraceInv
<1>2. /\ phase = "ended" /\ phase' = "granted"
      /\ UNCHANGED <<frames, calls, index_stack, start_gas, initial_gas>>
      /\ TraceRewardGranted(status, MaxGas - calls[1].used)
  BY DEF RewardGranted, Grant, TraceRewardGranted
<1>3. /\ frames = <<>> /\ calls # <<>> /\ calls \in Seq(CallRecord)
      /\ status = calls[1].status
      /\ \A c \in 1 .. Len(calls) : calls[c].status # "open"
  BY <1>2 DEF EvmInv, FramesInv, CallsInv
<1>4. /\ 1 \in 1 .. Len(calls) /\ calls[1] \in CallRecord /\ calls[1].used \in Int
      /\ status \in Statuses
  <2>1. 1 \in 1 .. Len(calls) /\ calls[1] \in CallRecord
    BY <1>3
  <2>2. QED
    BY <1>3, <2>1 DEF CallRecord
<1>5. /\ traces # <<>> /\ traces[1] \in Trace /\ TraceOfCall(traces[1], calls[1])
      /\ initial_gas = MaxGas
  BY <1>1, <1>2, <1>4 DEF TraceListInv
<1> DEFINE entry == WithStatus(traces[1], status, calls[1].used)
<1>6. traces' = [traces EXCEPT ![1] = entry]
  <2>1. initial_gas - (MaxGas - calls[1].used) = calls[1].used
    BY <1>4, <1>5, GasAssumption
  <2>2. QED
    BY <1>2, <1>5, <2>1, ZenonT(60) DEF TraceRewardGranted
<1>7. /\ entry \in Trace /\ entry.type = traces[1].type
      /\ entry.sub_traces = traces[1].sub_traces
      /\ entry.trace_address = traces[1].trace_address
      /\ entry.error <=> (status # "success")
      /\ entry.result.present <=> Kept(status)
      /\ entry.result.present => entry.result.gas_used = calls[1].used
  <2>1. Kept(status) => traces[1].result.present
    BY <1>3, <1>4, <1>5 DEF TraceOfCall
  <2>2. traces[1] \in Trace /\ status \in Statuses /\ calls[1].used \in Int
    BY <1>4, <1>5, ZenonT(60)
  <2>3. QED
    BY ONLY <2>1, <2>2, StatusOfTrace DEF entry
<1> HIDE DEF entry
<1>8. TraceOfCall(entry, calls[1])
  BY <1>3, <1>5, <1>7 DEF TraceOfCall
<1>9. calls' = [calls EXCEPT ![1] = calls[1]]
  BY <1>2, <1>3
<1>10. TraceListInv'
  BY <1>1, <1>2, <1>4, <1>6, <1>7, <1>8, <1>9, TraceUpdated, ZenonT(60)
<1>11. TraceStackInv'
  BY <1>1, <1>2, <1>3 DEF TraceStackInv
<1>12. QED
  BY <1>10, <1>11

\* on_execution_start of a nested call adds its trace at its place in the tree.
LEMMA TraceCall ==
  ASSUME EvmInv, TraceInv, Call
  PROVE  TraceInv'
<1>1. phase = "running" /\ frames # <<>>
  BY DEF Call, EvmInv, FramesInv
<1>2. Last(frames) \in Frame
  BY <1>1, TopFrame
<1>3. Half \in Int /\ Last(frames).address \in Addresses \cup {Contract}
  BY <1>2 DEF Half, Frame
<1>4. ASSUME NEW kind \in Kinds, NEW address \in Addresses \cup {Contract},
             Last(frames).at \in {"call", "callcode", "create"}, Enter(kind, address, Half, frames)
      PROVE  TraceInv'
  <2>1. NewFrame(kind, Half) /\ NewCall(kind, Last(frames).id) /\ phase' = "running"
    BY <1>1, <1>3, <1>4, NestedEffect DEF EvmInv
  <2>2. /\ TraceStart(address, kind, Half, Len(frames))
        /\ confused' = (confused \/ (Creates(address, kind) # (kind = "create")))
    BY <1>4, ZenonT(60) DEF Enter
  <2>3. QED
    BY <1>1, <1>3, <2>1, <2>2, TraceStartNested
<1>5. existing \cup alive \subseteq Addresses \cup {Contract}
  BY DEF EvmInv, FramesInv
<1>6. QED
  BY <1>3, <1>4, <1>5 DEF Call, Kinds

\* Every step keeps the stacks and the list of traces.
LEMMA TraceStep ==
  ASSUME EvmInv, TraceInv, [Next]_vars
  PROVE  TraceInv'
<1>1. CASE NewTransaction
  <2>1. /\ frames' = <<>> /\ calls' = <<>> /\ traces' = <<>> /\ index_stack' = <<>>
        /\ start_gas' = <<>> /\ phase' = "starting"
    BY <1>1 DEF NewTransaction, NewTracers
  <2>2. QED
    BY <2>1, NoIndex, ZenonT(60) DEF TraceInv, TraceStackInv, TraceListInv
<1>2. CASE Start
  <2>1. phase = "starting" /\ "call" \in Kinds /\ "create" \in Kinds
    BY <1>2 DEF Start, Kinds
  <2>2. \E kind \in Kinds, address \in Addresses \cup {Contract} :
           Enter(kind, address, MaxGas, <<>>)
    BY <1>2, <2>1, ZenonT(60) DEF Start
  <2>3. QED
    BY <2>1, <2>2, TraceStartOutermost
<1>3. CASE Instruction \/ Precompiled
  <2>1. UNCHANGED <<phase, calls, trace, confused>>
    BY <1>3 DEF Instruction, Precompiled
  <2>2. QED
    BY <1>3, <2>1, StepFrames, TraceKept
<1>4. CASE Transaction
  <2>1. phase' = "granted" /\ UNCHANGED <<frames, calls, trace, confused>> /\ phase = "starting"
    BY <1>4 DEF Transaction, Grant
  <2>2. frames = <<>>
    BY <2>1 DEF EvmInv, FramesInv
  <2>3. QED
    BY <2>1, <2>2, NoIndex, ZenonT(60)
       DEF TraceInv, TraceStackInv, TraceListInv, TraceOfCall, trace
<1>5. CASE UNCHANGED vars
  BY <1>5, TraceKept DEF vars, evm
<1>6. QED
  BY <1>1, <1>2, <1>3, <1>4, <1>5, TraceCall, TraceEndStep, TraceCreationStep,
     TraceRewardStep DEF Next

\* Unless a creation was mistaken, the stacks of TraceTracer hold the open frames and its list
\* the calls so far, each with its place, its calls and, once it ended, its outcome.
THEOREM TraceInvariant == Spec => []TraceInv
<1>1. Init => TraceInv
  <2>1. SUFFICES ASSUME Init PROVE TraceInv
    OBVIOUS
  <2>2. /\ frames = <<>> /\ calls = <<>> /\ traces = <<>> /\ index_stack = <<>>
        /\ start_gas = <<>> /\ phase = "idle"
    BY <2>1 DEF Init, NoTracing
  <2>3. QED
    BY <2>2 DEF TraceInv, TraceStackInv, TraceListInv
<1>2. QED
  BY <1>1, TraceStep, EvmInvariant, PTL DEF Spec

\* The traces of a finished transaction (on_execution_start to on_reward_granted) are its calls,
\* with their places, outcomes and gas, however calls and creations nest.
THEOREM TracesOfCalls == Spec => []TracesFollowCalls
<1>1. EvmInv /\ TraceInv => TracesFollowCalls
  <2>1. SUFFICES ASSUME EvmInv, TraceInv, phase = "granted", ~confused
                 PROVE  TracesFollowCalls
    BY DEF TracesFollowCalls
  <2>2. frames = <<>> /\ \A c \in 1 .. Len(calls) : calls[c].status # "open"
    BY <2>1 DEF EvmInv, FramesInv, CallsInv
  <2>3. /\ traces \in Seq(Trace) /\ Len(traces) = Len(calls)
        /\ \A c \in 1 .. Len(calls) : TraceOfCall(traces[c], calls[c])
    BY <2>1 DEF TraceInv, TraceListInv
  <2>4. DOMAIN traces = 1 .. Len(calls)
    BY <2>3
  <2>5. QED
    BY <2>2, <2>3, <2>4 DEF TracesFollowCalls, TraceOfCall
<1>2. QED
  BY <1>1, EvmInvariant, TraceInvariant, PTL

\* The stacks of TraceTracer and VmTraceTracer hold an entry for each open frame, the innermost
\* on top, through every nesting of calls and creations.
THEOREM StacksOfFrames == Spec => []StacksFollowFrames
<1>1. EvmInv /\ VmInv /\ TraceInv => StacksFollowFrames
  <2>1. SUFFICES ASSUME EvmInv, VmInv, TraceInv PROVE StacksFollowFrames
    OBVIOUS
  <2>2. /\ phase \in Phases /\ frames \in Seq(Frame)
        /\ phase \in {"starting", "granted", "idle", "ended"} => frames = <<>>
    BY <2>1 DEF EvmInv, FramesInv
  <2>3. /\ traces_stack \in Seq(Nat)
        /\ Len(traces_stack) = Len(frames) - (IF phase = "created" THEN 1 ELSE 0)
        /\ \A i \in 1 .. Len(traces_stack) : traces_stack[i] = frames[i].id
    BY <2>1 DEF VmInv, VmStackInv
  <2>4. confused \/ TraceStackInv
    BY <2>1 DEF TraceInv
  <2>5. DOMAIN frames = 1 .. Len(frames) /\ DOMAIN traces_stack = 1 .. Len(traces_stack)
    BY <2>2, <2>3
  <2>6. QED
    BY <2>2, <2>3, <2>4, <2>5, ZenonT(60) DEF StacksFollowFrames, TraceStackInv, Phases
<1>2. QED
  BY <1>1, EvmInvariant, VmInvariant, TraceInvariant, PTL

(***************************************************************************)
(* DebugTracer                                                             *)
(***************************************************************************)
LEMMA ConcatReplaceLast ==
  ASSUME NEW S, NEW s \in Seq(S), NEW t \in Seq(S), t # <<>>, NEW e \in S
  PROVE  s \o Append(Front(t), e) = Append(Front(s \o t), e)
BY DEF Last, Front

\* The last element of a concatenation is that of its second part.
LEMMA ConcatLast ==
  ASSUME NEW S, NEW s \in Seq(S), NEW t \in Seq(S), t # <<>>
  PROVE  s \o t # <<>> /\ Last(s \o t) = Last(t)
BY DEF Last

\* Appending to the second part appends to the whole.
LEMMA ConcatAppend ==
  ASSUME NEW S, NEW s \in Seq(S), NEW t \in Seq(S), NEW e \in S
  PROVE  s \o Append(t, e) = Append(s \o t, e)
OBVIOUS

\* Moving the head of the second part to the first changes nothing.
LEMMA ConcatTail ==
  ASSUME NEW S, NEW s \in Seq(S), NEW t \in Seq(S), t # <<>>
  PROVE  Append(s, Head(t)) \o Tail(t) = s \o t
OBVIOUS

\* A concatenation has the elements of its parts.
LEMMA ConcatType ==
  ASSUME NEW S, NEW s \in Seq(S), NEW t \in Seq(S)
  PROVE  s \o t \in Seq(S)
OBVIOUS

\* Nothing written and nothing held is nothing at all.
LEMMA ConcatEmpty == <<>> \o <<>> = <<>> /\ \A S : <<>> \in Seq(S)
OBVIOUS

\* A sequence of more than one element has a tail that is not empty.
LEMMA TailNonempty ==
  ASSUME NEW S, NEW s \in Seq(S), Len(s) > 1
  PROVE  Tail(s) \in Seq(S) /\ Tail(s) # <<>> /\ Head(s) \in S
<1>1. Len(Tail(s)) = Len(s) - 1 /\ Tail(s) \in Seq(S) /\ Head(s) \in S
  OBVIOUS
<1>2. Len(s) \in Nat /\ Len(<<>>) = 0
  OBVIOUS
<1> DEFINE n == Len(s)
           t == Tail(s)
<1> HIDE DEF n, t
<1>3. n \in Nat /\ n > 1 /\ Len(t) = n - 1
  BY <1>1, <1>2 DEF n, t
<1>4. t # <<>>
  BY <1>2, <1>3
<1>5. QED
  BY <1>1, <1>4 DEF t

Log == [n : Nat, depth : Int, gas : Int, gas_cost : Int, error : BOOLEAN]

DebugInv ==
  /\ whole \in Seq(Log) /\ logs \in Seq(Log) /\ written \in Seq(Log)
  /\ start_gas_d \in Int /\ gas_on_precompiled \in Int
  /\ written \o logs = whole
  /\ logs = <<>> => whole = <<>>

\* The settled and the ended last entry of a debug trace are entries again.
LEMMA LogTypes ==
  ASSUME gas_on_precompiled \in Int, start_gas_d \in Int, NEW log \in Log, NEW st \in Statuses,
         NEW gas_left \in Int, NEW depth \in Int
  PROVE  SettledLog(log, gas_left, depth) \in Log /\ EndedLog(log, st, gas_left) \in Log
<1>1. \A c \in Int : [log EXCEPT !.gas_cost = c] \in Log
  BY DEF Log
<1>2. log.gas \in Int /\ log.depth \in Int
  BY DEF Log
<1>3. SettledLog(log, gas_left, depth) \in Log
  BY <1>1, <1>2 DEF SettledLog
<1>4. \A c \in Int, e \in BOOLEAN : [log EXCEPT !.error = e, !.gas_cost = c] \in Log
  BY ZenonT(60) DEF Log
<1>5. EndedLog(log, st, gas_left) \in Log
  <2> DEFINE e == st \in {"out_of_gas", "bad_instruction"}
             c == IF st = "bad_instruction" THEN start_gas_d - log.gas ELSE log.gas - gas_left
  <2>1. e \in BOOLEAN /\ c \in Int
    BY <1>2
  <2> HIDE DEF e, c
  <2>2. [log EXCEPT !.error = e, !.gas_cost = c] \in Log
    BY <1>4, <2>1, ZenonT(60)
  <2>3. QED
    BY <2>2 DEF EndedLog, e, c
<1>6. QED
  BY <1>3, <1>5

\* The last entry changes in the stream's logs as in the kept ones, and the first of several
\* is written: the two traces stay the same.
LEMMA StreamLast ==
  ASSUME written \in Seq(Log), logs \in Seq(Log), logs # <<>>, NEW log \in Log
  PROVE  LET streamed == WriteFront(Append(Front(logs), log))
         IN  /\ streamed.kept \in Seq(Log) /\ streamed.kept # <<>>
             /\ streamed.written \in Seq(Log)
             /\ streamed.written \o streamed.kept = Append(Front(written \o logs), log)
<1> DEFINE s == Append(Front(logs), log)
           streamed == WriteFront(s)
<1>1. s \in Seq(Log) /\ s # <<>>
  BY ReplaceLast
<1>2. written \o s = Append(Front(written \o logs), log)
  BY ConcatReplaceLast
<1> HIDE DEF s
<1>3. /\ streamed.kept \in Seq(Log) /\ streamed.kept # <<>>
      /\ streamed.written \in Seq(Log)
      /\ streamed.written \o streamed.kept = written \o s
  <2>1. CASE Len(s) > 1
    <3>1. streamed.kept = Tail(s) /\ streamed.written = Append(written, Head(s))
      BY <2>1 DEF WriteFront
    <3>2. Tail(s) \in Seq(Log) /\ Tail(s) # <<>> /\ Head(s) \in Log
      BY <1>1, <2>1, TailNonempty
    <3>3. Append(written, Head(s)) \in Seq(Log)
      BY <3>2
    <3>4. Append(written, Head(s)) \o Tail(s) = written \o s
      BY <1>1, ConcatTail
    <3>5. QED
      BY <3>1, <3>2, <3>3, <3>4, ZenonT(60)
  <2>2. CASE ~(Len(s) > 1)
    <3>1. streamed.kept = s /\ streamed.written = written
      BY <2>2 DEF WriteFront
    <3>2. QED
      BY <1>1, <3>1, ZenonT(60)
  <2>3. QED
    BY <2>1, <2>2, ZenonT(60)
<1>4. QED
  BY <1>2, <1>3 DEF s

\* The last log changes, and is now `log`.
LEMMA DebugLast ==
  ASSUME DebugInv, logs # <<>>
  PROVE  whole # <<>> /\ Last(whole) = Last(logs) /\ Last(logs) \in Log
<1>1. written \in Seq(Log) /\ logs \in Seq(Log) /\ written \o logs = whole
  BY DEF DebugInv
<1>2. written \o logs # <<>> /\ Last(written \o logs) = Last(logs)
  BY <1>1, ConcatLast, ZenonT(60)
<1>3. Last(logs) \in Log
  BY <1>1, LastFront
<1>4. QED
  BY <1>1, <1>2, <1>3, ZenonT(60)

\* If no log is held, none was made.
LEMMA DebugEmpty ==
  ASSUME DebugInv, logs = <<>>
  PROVE  whole = <<>> /\ written = <<>>
<1>1. written \in Seq(Log) /\ written \o <<>> = <<>> /\ whole = <<>>
  BY DEF DebugInv
<1>2. QED
  BY <1>1

\* on_instruction_start settles the last log, writes the one before and holds a new one.
LEMMA DebugInstructionStep ==
  ASSUME DebugInv, NEW n \in Nat, NEW gas_left \in Int, NEW depth \in Int,
         DebugInstruction(n, gas_left, depth)
  PROVE  DebugInv'
<1> DEFINE log == [n |-> n, depth |-> depth + 1, gas |-> gas_left, gas_cost |-> 0,
                   error |-> FALSE]
           streamed == WriteFront(SettleLast(logs, gas_left, depth))
<1>1. /\ whole' = Append(SettleLast(whole, gas_left, depth), log)
      /\ logs' = Append(streamed.kept, log) /\ written' = streamed.written
      /\ start_gas_d' = start_gas_d
      /\ gas_on_precompiled' \in {0, gas_on_precompiled}
  BY DEF DebugInstruction
<1>2. log \in Log
  BY DEF Log
<1>3. start_gas_d' \in Int /\ gas_on_precompiled' \in Int
  BY <1>1 DEF DebugInv
<1>4. /\ streamed.kept \in Seq(Log) /\ streamed.written \in Seq(Log)
      /\ streamed.written \o streamed.kept = SettleLast(whole, gas_left, depth)
  <2>1. CASE logs = <<>>
    <3>1. whole = <<>> /\ written = <<>>
      BY <2>1, DebugEmpty
    <3>2. SettleLast(logs, gas_left, depth) = <<>> /\ SettleLast(whole, gas_left, depth) = <<>>
      BY <2>1, <3>1 DEF SettleLast
    <3>3. streamed.kept = <<>> /\ streamed.written = <<>>
      <4>1. WriteFront(<<>>) = [kept |-> <<>>, written |-> written]
        BY DEF WriteFront
      <4>2. streamed = [kept |-> <<>>, written |-> written]
        BY <3>2, <4>1, ZenonT(60)
      <4> HIDE DEF streamed
      <4>3. QED
        BY <3>1, <4>2
    <3>4. QED
      BY <3>2, <3>3, ConcatEmpty, ZenonT(60)
  <2>2. CASE logs # <<>>
    <3> DEFINE settled == SettledLog(Last(logs), gas_left, depth)
    <3>1. whole # <<>> /\ Last(whole) = Last(logs) /\ Last(logs) \in Log
      BY <2>2, DebugLast
    <3>2. settled \in Log
      BY <3>1, LogTypes DEF DebugInv, Statuses
    <3>3. /\ SettleLast(logs, gas_left, depth) = Append(Front(logs), settled)
          /\ SettleLast(whole, gas_left, depth) = Append(Front(whole), settled)
      BY <2>2, <3>1 DEF SettleLast
    <3> HIDE DEF settled
    <3>4. written \in Seq(Log) /\ logs \in Seq(Log) /\ written \o logs = whole
      BY DEF DebugInv
    <3>5. LET w == WriteFront(Append(Front(logs), settled))
          IN  /\ w.kept \in Seq(Log) /\ w.written \in Seq(Log)
              /\ w.written \o w.kept = Append(Front(written \o logs), settled)
      BY <2>2, <3>2, <3>4, StreamLast, ZenonT(60)
    <3>6. QED
      BY <3>3, <3>4, <3>5, ZenonT(60)
  <2>3. QED
    BY <2>1, <2>2, ZenonT(60)
<1> HIDE DEF log, streamed
<1>5. logs' \in Seq(Log) /\ logs' # <<>>
  BY <1>1, <1>2, <1>4
<1>6. written' \o logs' = whole'
  <2>1. streamed.written \o Append(streamed.kept, log) =
           Append(streamed.written \o streamed.kept, log)
    <3> DEFINE kept == streamed.kept
               out == streamed.written
    <3>1. kept \in Seq(Log) /\ out \in Seq(Log)
      BY <1>4
    <3> HIDE DEF kept, out
    <3>2. out \o Append(kept, log) = Append(out \o kept, log)
      BY <1>2, <3>1, ConcatAppend
    <3>3. QED
      BY <3>2 DEF kept, out
  <2>2. QED
    BY <1>1, <1>4, <2>1, ZenonT(60)
<1>7. written' \in Seq(Log)
  BY <1>1, <1>4
<1>8. whole' \in Seq(Log)
  BY <1>5, <1>6, <1>7, ConcatType, ZenonT(60)
<1>9. QED
  BY <1>3, <1>5, <1>6, <1>7, <1>8 DEF DebugInv

\* on_execution_end changes the last log only, which is still held.
LEMMA DebugEndStep ==
  ASSUME DebugInv, NEW st \in Statuses, NEW gas_left \in Int, DebugEnd(st, gas_left)
  PROVE  DebugInv'
<1> DEFINE Ended(s) == IF s = <<>> THEN s ELSE Append(Front(s), EndedLog(Last(s), st, gas_left))
           streamed == WriteFront(Ended(logs))
<1>1. /\ whole' = Ended(whole) /\ logs' = streamed.kept /\ written' = streamed.written
      /\ start_gas_d' = start_gas_d /\ gas_on_precompiled' = gas_on_precompiled
  BY DEF DebugEnd
<1>2. CASE logs = <<>>
  <2>1. whole = <<>> /\ written = <<>>
    BY <1>2, DebugEmpty
  <2>2. whole' = <<>> /\ logs' = <<>> /\ written' = <<>>
    BY <1>1, <1>2, <2>1 DEF WriteFront
  <2>3. QED
    BY <1>1, <2>2, ConcatEmpty, ZenonT(60) DEF DebugInv
<1>3. CASE logs # <<>>
  <2> DEFINE log == EndedLog(Last(logs), st, gas_left)
  <2>1. whole # <<>> /\ Last(whole) = Last(logs) /\ Last(logs) \in Log
    BY <1>3, DebugLast
  <2>2. log \in Log
    BY <2>1, LogTypes, ZenonT(60) DEF DebugInv
  <2>3. Ended(logs) = Append(Front(logs), log) /\ Ended(whole) = Append(Front(whole), log)
    BY <1>3, <2>1
  <2> HIDE DEF log, Ended
  <2>4. written \in Seq(Log) /\ logs \in Seq(Log) /\ written \o logs = whole
    BY DEF DebugInv
  <2>5. LET w == WriteFront(Append(Front(logs), log))
        IN  /\ w.kept \in Seq(Log) /\ w.kept # <<>> /\ w.written \in Seq(Log)
            /\ w.written \o w.kept = Append(Front(written \o logs), log)
    BY <1>3, <2>2, <2>4, StreamLast, ZenonT(60)
  <2>6. /\ logs' \in Seq(Log) /\ logs' # <<>> /\ written' \in Seq(Log)
        /\ written' \o logs' = whole'
    BY <1>1, <2>3, <2>4, <2>5, ZenonT(60)
  <2>7. whole' \in Seq(Log)
    BY <2>6, ConcatType, ZenonT(60)
  <2>8. QED
    BY <1>1, <2>6, <2>7 DEF DebugInv
<1>4. QED
  BY <1>2, <1>3

\* Every step of the EVM keeps the streamed debug trace equal to the whole one.
LEMMA DebugStep ==
  ASSUME EvmInv, DebugInv, Next
  PROVE  DebugInv'
<1>1. CASE NewTransaction
  <2>1. /\ whole' = <<>> /\ logs' = <<>> /\ written' = <<>>
        /\ start_gas_d' = 0 /\ gas_on_precompiled' = 0
    BY <1>1 DEF NewTransaction, NewTracers
  <2>2. QED
    BY <2>1, ConcatEmpty DEF DebugInv
<1>2. ASSUME start_gas_d' \in Int, gas_on_precompiled' \in Int,
             UNCHANGED <<whole, logs, written>>
      PROVE  DebugInv'
  BY <1>2 DEF DebugInv
<1>3. CASE Start
  <2>1. start_gas_d' = MaxGas /\ UNCHANGED <<whole, logs, written, gas_on_precompiled>>
    BY <1>3, ZenonT(60) DEF Start, Enter
  <2>2. QED
    BY <1>2, <2>1, GasAssumption DEF DebugInv
<1>4. CASE Call
  <2>1. start_gas_d' = Half /\ UNCHANGED <<whole, logs, written, gas_on_precompiled>>
    BY <1>4, ZenonT(60) DEF Call, Enter
  <2>2. frames # <<>>
    BY <1>4 DEF Call, EvmInv, FramesInv
  <2>3. Half \in Int
    BY <2>2, TopFrame DEF Half, Frame
  <2>4. QED
    BY <1>2, <2>1, <2>3 DEF DebugInv
<1>5. CASE Instruction
  <2>1. frames # <<>> /\ events \in Nat
    BY <1>5, ZenonT(60) DEF Instruction, EvmInv, FramesInv
  <2>2. Last(frames).gas \in Int /\ Depth \in Int
    BY <2>1, TopFrame DEF Frame, Depth
  <2>3. DebugInstruction(events, Last(frames).gas, Depth)
    BY <1>5 DEF Instruction
  <2>4. QED
    BY <2>1, <2>2, <2>3, DebugInstructionStep, ZenonT(60)
<1>6. CASE Precompiled
  <2>1. gas_on_precompiled' = Half /\ UNCHANGED <<whole, logs, written, start_gas_d>>
    BY <1>6 DEF Precompiled
  <2>2. frames # <<>>
    BY <1>6 DEF Precompiled, EvmInv, FramesInv
  <2>3. Half \in Int
    BY <2>2, TopFrame DEF Half, Frame
  <2>4. QED
    BY <1>2, <2>1, <2>3 DEF DebugInv
<1>7. CASE End
  <2>1. frames # <<>>
    BY <1>7 DEF End, EvmInv, FramesInv
  <2>2. Last(frames).gas \in Int
    BY <2>1, TopFrame DEF Frame
  <2>3. PICK st \in Statuses : DebugEnd(st, IF Kept(st) THEN Last(frames).gas ELSE 0)
    BY <1>7 DEF End, Statuses
  <2>4. (IF Kept(st) THEN Last(frames).gas ELSE 0) \in Int
    BY <2>2
  <2>5. QED
    BY <2>3, <2>4, DebugEndStep
<1>8. CASE CreationCompleted \/ RewardGranted \/ Transaction
  <2>1. UNCHANGED debug
    BY <1>8, ZenonT(60) DEF CreationCompleted, RewardGranted, Transaction
  <2>2. QED
    BY <1>2, <2>1 DEF debug, DebugInv
<1>9. QED
  BY <1>1, <1>3, <1>4, <1>5, <1>6, <1>7, <1>8 DEF Next

\* What DebugTracer has written and what it still holds are together the whole trace, and it
\* writes a log only when a later one has come (write_log, flush_logs).
THEOREM DebugInvariant == Spec => []DebugInv
<1>1. Init => DebugInv
  BY ConcatEmpty DEF Init, NoTracing, DebugInv
<1>2. EvmInv /\ DebugInv /\ [Next]_vars => DebugInv'
  <2>1. ASSUME DebugInv, UNCHANGED vars PROVE DebugInv'
    BY <2>1 DEF vars, debug, DebugInv
  <2>2. QED
    BY <2>1, DebugStep
<1>3. QED
  BY <1>1, <1>2, EvmInvariant, PTL DEF Spec

\* A debug trace is the same whether it is streamed or kept, for transactions of any length:
\* no log is written while it may still change, and none is lost.
THEOREM StreamedLogs == Spec => []StreamedLogsAreWhole
<1>1. DebugInv => StreamedLogsAreWhole
  BY DEF DebugInv, StreamedLogsAreWhole
<1>2. QED
  BY <1>1, DebugInvariant, PTL

(***************************************************************************)
(* StateDiffTracer and IntraBlockStateTracer                               *)
(***************************************************************************)
DiffInv ==
  /\ world \in Accounts /\ known = world.fields
  /\ phase \in {"starting", "running", "created", "ended"} => before = world
  /\ StateDiffExact


\* Before the first transaction there is no diff.
LEMMA DiffInit == Init => DiffInv
BY ZenonT(60) DEF Init, DiffInv, StateDiffExact, Accounts, NoAccount

\* What a transaction leaves is what its diff says.
LEMMA GrantStep ==
  ASSUME DiffInv, before = world, NEW account \in Accounts, NEW stored \in BOOLEAN,
         Grant(account, stored),
         account.exists /\ world.exists /\ account.slot # world.slot => stored,
         ~world.exists /\ account.slot # 0 => stored
  PROVE  DiffInv'
<1>1. /\ phase' = "granted" /\ world' = account /\ known' = account.fields
      /\ diff' = StateDiff(account, stored) /\ first' = first /\ before' = before
  BY DEF Grant
<1>2. known = before.fields
  BY DEF DiffInv
<1>3. before # account <=> \/ before.exists # account.exists
                           \/ before.fields # account.fields \/ before.slot # account.slot
  <2>1. Accounts \subseteq [exists : BOOLEAN, fields : Int, slot : Int]
    <3>1. NoAccount \in [exists : BOOLEAN, fields : Int, slot : Int]
      BY DEF NoAccount
    <3>2. {TRUE} \subseteq BOOLEAN /\ 0 .. 2 \subseteq Int /\ 0 .. 1 \subseteq Int
      OBVIOUS
    <3>3. [exists : {TRUE}, fields : 0 .. 2, slot : 0 .. 1]
            \subseteq [exists : BOOLEAN, fields : Int, slot : Int]
      BY <3>2, ZenonT(60)
    <3>4. QED
      BY <3>1, <3>3, ZenonT(60) DEF Accounts
  <2>2. /\ before \in [exists : BOOLEAN, fields : Int, slot : Int]
        /\ account \in [exists : BOOLEAN, fields : Int, slot : Int]
    BY <2>1 DEF DiffInv
  <2>3. QED
    BY <2>2
<1>4. StateDiffExact'
  BY <1>1, <1>2, <1>3
     DEF StateDiffExact, StateDiff, Changed, Entry, EntryIfChanged, Unchanged, NoEntry
<1>5. QED
  BY <1>1, <1>4 DEF DiffInv

\* Every step keeps what the tracers know of the account.
LEMMA DiffStep ==
  ASSUME EvmInv, DiffInv, Next
  PROVE  DiffInv'
<1>1. CASE NewTransaction
  <2>1. phase' = "starting" /\ before' = world /\ UNCHANGED <<world, first, known>>
    BY <1>1 DEF NewTransaction
  <2>2. QED
    BY <2>1 DEF DiffInv, StateDiffExact
<1>2. CASE Start \/ Call \/ Instruction \/ Precompiled \/ End \/ CreationCompleted
  <2>1. /\ phase \in {"starting", "running", "created"} /\ UNCHANGED statediff
        /\ phase' \in {"running", "created", "ended"}
    BY <1>2, ZenonT(60)
    DEF Start, Call, Enter, Instruction, Precompiled, End, CreationCompleted, Return
  <2>2. QED
    BY <2>1 DEF DiffInv, StateDiffExact, statediff
<1>3. CASE RewardGranted
  <2>1. before = world /\ world \in Accounts /\ Grant(world, FALSE)
    BY <1>3, ZenonT(60) DEF RewardGranted, DiffInv
  <2>2. QED
    <3>1. ~world.exists => world.slot = 0
      <4>1. CASE world = NoAccount
        BY <4>1 DEF NoAccount
      <4>2. CASE world \in [exists : {TRUE}, fields : 0 .. 2, slot : 0 .. 1]
        <5>1. world.exists = TRUE
          BY <4>2, ZenonT(60)
        <5>2. QED
          BY <5>1
      <4>3. QED
        BY <2>1, <4>1, <4>2, ZenonT(60) DEF Accounts
    <3>2. QED
      BY <2>1, <3>1, GrantStep, ZenonT(60)
<1>4. CASE Transaction
  <2>1. before = world
    BY <1>4 DEF Transaction, DiffInv
  <2>2. PICK account \in Accounts, stored \in BOOLEAN :
          /\ account.exists /\ world.exists /\ account.slot # world.slot => stored
          /\ ~world.exists /\ account.slot # 0 => stored
          /\ Grant(account, stored)
    BY <1>4 DEF Transaction
  <2>3. QED
    BY <2>1, <2>2, GrantStep
<1>5. QED
  BY <1>1, <1>2, <1>3, <1>4 DEF Next

\* IntraBlockStateTracer knows the account as the block has left it so far, and a running
\* transaction compares with the account as it found it.
THEOREM DiffInvariant == Spec => []DiffInv
<1>1. EvmInv /\ DiffInv /\ [Next]_vars => DiffInv'
  <2>1. ASSUME DiffInv, UNCHANGED vars PROVE DiffInv'
    BY <2>1 DEF vars, evm, statediff, DiffInv, StateDiffExact
  <2>2. QED
    BY <2>1, DiffStep
<1>2. QED
  BY <1>1, DiffInit, EvmInvariant, PTL DEF Spec

\* A state diff says exactly what its transaction changed, if the account exists before the
\* transaction as it does before the block, after any number of transactions.
THEOREM StateDiffs == Spec => []StateDiffExact
<1>1. DiffInv => StateDiffExact
  BY DEF DiffInv
<1>2. QED
  BY <1>1, DiffInvariant, PTL
=============================================================================
