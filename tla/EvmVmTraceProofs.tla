-------------------------- MODULE EvmVmTraceProofs --------------------------
(***************************************************************************)
(* Proofs about VmTraceTracer of EvmTracing: the operations of a VM trace  *)
(* are the instructions of its frame.                                      *)
(***************************************************************************)
EXTENDS EvmTracingProofs

\* Time for the larger leaves.
USE SMTT(30), ZenonT(60)

(***************************************************************************)
(* VmTraceTracer                                                           *)
(***************************************************************************)
VmOp == [n : Nat, op : Ops, depth : Int, gas_cost : Int, used : Int, sub : Nat,
         precompiled : Int]

\* All operations but the last have their cost and the gas they left.
SettledOps(v, s) ==
  /\ Len(v) = Len(s)
  /\ \A i \in 1 .. Len(s) : v[i].n = s[i].n
  /\ \A i \in 1 .. Len(s) - 1 : v[i].used = s[i + 1].gas /\ v[i].gas_cost = Cost(s, i)

\* The last operation of a frame at this depth: a call of a precompiled contract, a call, or
\* another instruction.
LastOp(v, s, depth) ==
  /\ Last(v).op = Last(s).op
  /\ \/ /\ Last(s).callee # 0 /\ Last(v).precompiled = Last(s).callee
        /\ Last(v).gas_cost = Last(s).gas
     \/ /\ Last(s).callee # 0 /\ Last(v).precompiled = 0 /\ Last(v).depth # depth
        /\ Last(v).gas_cost = Last(s).gas - Last(s).callee
     \/ /\ Last(s).callee = 0 /\ Last(v).precompiled = 0 /\ Last(v).depth = depth
        /\ Last(v).gas_cost = Last(s).gas

EndedOps(v, s) ==
  IF Len(s) = 1 /\ s[1].op = "stop" THEN v = <<>> ELSE SettledOps(v, s)

VmStackInv ==
  /\ Len(traces_stack) = Len(frames) - (IF phase = "created" THEN 1 ELSE 0)
  /\ \A i \in 1 .. Len(traces_stack) : traces_stack[i] = frames[i].id

\* The operations follow the instructions: those of the open frames up to the last, those of
\* the calls that ended to the end.
VmOpsInv ==
  /\ vm \in Seq(Seq(VmOp)) /\ Len(vm) = Len(calls)
  /\ \A i \in 1 .. Len(frames) :
        LET id == frames[i].id
        IN  Open(i) => /\ SettledOps(vm[id], ops[id])
                       /\ ops[id] # <<>> => LastOp(vm[id], ops[id], i - 1)
  /\ \A c \in 1 .. Len(calls) : calls[c].status # "open" => EndedOps(vm[c], ops[c])

VmInv == traces_stack \in Seq(Nat) /\ VmStackInv /\ (dangling \/ VmOpsInv)

\* The indices of a sequence that is not empty, and of one with a single element.
LEMMA Indices ==
  /\ \A k \in Nat \ {0} : k \in 1 .. k /\ 1 \in 1 .. k /\ (k = 1 \/ 1 < k)
  /\ \A i \in 1 .. 1 : i = 1
  /\ \A e : Len(Append(<<>>, e)) = 1 /\ Append(<<>>, e)[1] = e
OBVIOUS

\* Gas that is passed on is not zero.
LEMMA GasPassed == \A gas \in Int : gas > 0 => gas # 0
OBVIOUS

\* A frame with an instruction has an operation for each.
LEMMA SettledLength ==
  ASSUME NEW v, NEW s \in Seq(Op), s # <<>>, SettledOps(v, s)
  PROVE  /\ Len(s) \in Nat \ {0} /\ Len(v) = Len(s) /\ v # <<>>
         /\ \A i \in 1 .. Len(s) : v[i].n = s[i].n
BY DEF SettledOps

\* Only the last instruction and its operation change, as far as the others do not depend on.
LEMMA ReplacedOp ==
  ASSUME NEW w \in Seq(VmOp), NEW o \in Seq(Op), SettledOps(w, o), o # <<>>,
         NEW v \in Seq(VmOp), NEW s \in Seq(Op), Len(v) = Len(w), Len(s) = Len(o),
         \A i \in 1 .. Len(o) - 1 : v[i] = w[i] /\ s[i] = o[i],
         v[Len(o)].n = s[Len(o)].n, s[Len(o)].gas = o[Len(o)].gas
  PROVE  SettledOps(v, s)
<1> DEFINE L == Len(o)
<1>1. /\ L \in Nat \ {0} /\ Len(w) = L /\ \A i \in 1 .. L : w[i].n = o[i].n
      /\ \A i \in 1 .. L - 1 : w[i].used = o[i + 1].gas /\ w[i].gas_cost = Cost(o, i)
  BY DEF SettledOps
<1>2. \A i \in 1 .. L : s[i].gas = o[i].gas /\ v[i].n = s[i].n
  BY <1>1
<1>3. \A i \in 1 .. L - 1 : /\ v[i].used = s[i + 1].gas /\ Cost(s, i) = Cost(o, i)
                            /\ v[i].gas_cost = Cost(s, i)
  <2> SUFFICES ASSUME NEW i \in 1 .. L - 1
               PROVE  /\ v[i].used = s[i + 1].gas /\ Cost(s, i) = Cost(o, i)
                      /\ v[i].gas_cost = Cost(s, i)
    OBVIOUS
  <2>1. i \in 1 .. L /\ i + 1 \in 1 .. L
    BY <1>1
  <2>2. s[i + 1].gas = o[i + 1].gas /\ s[i] = o[i] /\ v[i] = w[i]
    BY <1>2, <2>1
  <2>3. Cost(s, i) = Cost(o, i)
    BY <2>2 DEF Cost
  <2>4. QED
    BY <1>1, <2>2, <2>3
<1>4. QED
  BY <1>1, <1>2, <1>3 DEF SettledOps

\* on_instruction_start: the operation before gets what it cost and left, and a new one is added.
Extended(w, gas, depth, x) ==
  Append(IF w = <<>> THEN <<>> ELSE Append(Front(w), Settled(Last(w), gas, depth)), x)

\* A new operation after a settled one keeps the operations those of the instructions.
LEMMA AppendedOp ==
  ASSUME NEW w \in Seq(VmOp), NEW o \in Seq(Op), SettledOps(w, o),
         NEW gas \in Int, NEW depth \in Int, o # <<>> => LastOp(w, o, depth),
         NEW x \in VmOp, NEW y \in Op, x.n = y.n, x.op = y.op, x.depth = depth,
         x.gas_cost = gas, x.precompiled = 0, y.gas = gas, y.callee = 0
  PROVE  /\ Extended(w, gas, depth, x) \in Seq(VmOp) /\ Append(o, y) \in Seq(Op)
         /\ SettledOps(Extended(w, gas, depth, x), Append(o, y))
         /\ LastOp(Extended(w, gas, depth, x), Append(o, y), depth)
<1> DEFINE L == Len(o)
           v == Extended(w, gas, depth, x)
           s == Append(o, y)
           settled == IF w = <<>> THEN <<>>
                      ELSE Append(Front(w), Settled(Last(w), gas, depth))
           last == Settled(Last(w), gas, depth)
<1>1. /\ L \in Nat /\ Len(w) = L /\ \A i \in 1 .. L : w[i].n = o[i].n
      /\ \A i \in 1 .. L - 1 : w[i].used = o[i + 1].gas /\ w[i].gas_cost = Cost(o, i)
  BY DEF SettledOps
<1>2. /\ s \in Seq(Op) /\ s # <<>> /\ Len(s) = L + 1 /\ s[L + 1] = y /\ Last(s) = y
      /\ \A i \in 1 .. L : s[i] = o[i]
  BY AppendLast
<1>3. ASSUME L # 0
      PROVE  /\ last \in VmOp /\ last.n = o[L].n /\ last.used = gas
             /\ last.gas_cost = IF o[L].callee # 0 THEN o[L].gas - o[L].callee
                                ELSE o[L].gas - gas
  <2>1. w # <<>> /\ o # <<>>
    BY <1>1, <1>3
  <2>2. Last(w) \in VmOp /\ Last(w) = w[L] /\ Last(o) \in Op /\ Last(o) = o[L]
    BY <1>1, <2>1, LastFront
  <2>3. /\ Last(w).gas_cost \in Int /\ Last(w).precompiled \in Int /\ Last(w).depth \in Int
        /\ Last(o).callee \in Int /\ Last(o).gas \in Int /\ Last(w).n = o[L].n
    <3>1. L \in 1 .. L
      BY <1>1, <1>3
    <3>2. Last(w).n = o[L].n
      BY <1>1, <2>2, <3>1
    <3>3. QED
      BY <2>2, <3>2, ZenonT(60) DEF VmOp, Op
  <2> DEFINE cost == IF Last(w).precompiled # 0 THEN Last(w).gas_cost - Last(w).precompiled
                     ELSE IF Last(w).depth = depth THEN Last(w).gas_cost - gas
                     ELSE Last(w).gas_cost
  <2>4. cost \in Int /\ last = [Last(w) EXCEPT !.gas_cost = cost, !.used = gas]
    BY <2>3 DEF Settled
  <2>5. cost = IF o[L].callee # 0 THEN o[L].gas - o[L].callee ELSE o[L].gas - gas
    BY <2>1, <2>2, <2>3, ZenonT(60) DEF LastOp
  <2> HIDE DEF cost, last
  <2>6. last \in VmOp /\ last.n = Last(w).n /\ last.used = gas /\ last.gas_cost = cost
    BY <2>2, <2>4, ZenonT(60) DEF VmOp
  <2>7. QED
    BY <2>3, <2>5, <2>6
<1>4. /\ settled \in Seq(VmOp) /\ Len(settled) = L
      /\ L # 0 => settled[L] = last
      /\ \A i \in 1 .. L - 1 : settled[i] = w[i]
  <2>1. CASE L = 0
    <3>1. w = <<>>
      BY <1>1, <2>1
    <3>2. QED
      BY <2>1, <3>1
  <2>2. CASE L # 0
    <3>1. w # <<>> /\ last \in VmOp /\ settled = Append(Front(w), last)
      BY <1>1, <1>3, <2>2
    <3> HIDE DEF last, settled
    <3>2. QED
      BY <1>1, <3>1, ReplaceLast
  <2>3. QED
    BY <2>1, <2>2
<1>5. v = Append(settled, x)
  BY DEF Extended
<1> HIDE DEF settled, last, v, s
<1>6. /\ v \in Seq(VmOp) /\ Len(v) = L + 1 /\ v[L + 1] = x /\ Last(v) = x
      /\ \A i \in 1 .. L : v[i] = settled[i]
  <2>1. settled \in Seq(VmOp) /\ x \in VmOp /\ Len(settled) = L
    BY <1>4
  <2>2. /\ Append(settled, x) \in Seq(VmOp) /\ Len(Append(settled, x)) = L + 1
        /\ Append(settled, x)[L + 1] = x /\ Last(Append(settled, x)) = x
        /\ \A i \in 1 .. L : Append(settled, x)[i] = settled[i]
    BY <2>1, AppendLast
  <2>3. QED
    BY <1>5, <2>2, ZenonT(60)
<1>7. LastOp(v, s, depth)
  BY <1>2, <1>6 DEF LastOp
<1>8. \A i \in 1 .. L + 1 : v[i].n = s[i].n
  <2> SUFFICES ASSUME NEW i \in 1 .. L + 1 PROVE v[i].n = s[i].n
    OBVIOUS
  <2>1. CASE i = L + 1
    BY <1>2, <1>6, <2>1
  <2>2. CASE i = L /\ L # 0
    BY <1>2, <1>3, <1>4, <1>6, <2>2
  <2>3. CASE i \in 1 .. L - 1
    <3>1. i \in 1 .. L
      BY <1>1, <2>3
    <3>2. v[i] = w[i] /\ s[i] = o[i]
      BY <1>2, <1>4, <1>6, <2>3, <3>1
    <3>3. QED
      BY <1>1, <3>1, <3>2
  <2>4. i = L + 1 \/ (i = L /\ L # 0) \/ i \in 1 .. L - 1
    <3>1. L \in Nat
      BY <1>1
    <3> HIDE DEF L
    <3>2. QED
      BY <3>1
  <2>5. QED
    BY <2>1, <2>2, <2>3, <2>4
<1>9. \A i \in 1 .. L : v[i].used = s[i + 1].gas /\ v[i].gas_cost = Cost(s, i)
  <2> SUFFICES ASSUME NEW i \in 1 .. L
               PROVE  v[i].used = s[i + 1].gas /\ v[i].gas_cost = Cost(s, i)
    OBVIOUS
  <2>1. CASE i = L
    BY <1>1, <1>2, <1>3, <1>4, <1>6, <2>1 DEF Cost
  <2>2. CASE i # L
    <3>1. i \in 1 .. L - 1 /\ i + 1 \in 1 .. L
      BY <1>1, <2>2
    <3>2. v[i] = w[i] /\ s[i] = o[i] /\ s[i + 1] = o[i + 1]
      BY <1>2, <1>4, <1>6, <3>1
    <3>3. QED
      BY <1>1, <3>1, <3>2 DEF Cost
  <2>3. QED
    BY <2>1, <2>2
<1>10. SettledOps(v, s)
  BY <1>1, <1>2, <1>6, <1>8, <1>9 DEF SettledOps
<1>11. QED
  BY <1>2, <1>6, <1>7, <1>10 DEF v, s

\* The top of traces_stack is the trace of the innermost frame, with its instructions.
LEMMA VmTop ==
  ASSUME EvmInv, VmInv, ~dangling, phase = "running"
  PROVE  /\ traces_stack # <<>> /\ Len(traces_stack) = Len(frames)
         /\ Last(traces_stack) = Last(frames).id
         /\ vm \in Seq(Seq(VmOp)) /\ Len(vm) = Len(calls) /\ vm[Last(frames).id] \in Seq(VmOp)
         /\ SettledOps(vm[Last(frames).id], ops[Last(frames).id])
         /\ ops[Last(frames).id] # <<>> =>
               LastOp(vm[Last(frames).id], ops[Last(frames).id], Len(frames) - 1)
<1>1. frames # <<>>
  BY DEF EvmInv, FramesInv
<1>2. /\ Len(frames) \in Nat \ {0} /\ Last(frames) = frames[Len(frames)]
      /\ Last(frames).id \in 1 .. Len(calls)
  BY <1>1, TopFrame
<1>3. Len(frames) \in 1 .. Len(frames) /\ Open(Len(frames))
  BY <1>2 DEF Open
<1>4. /\ traces_stack \in Seq(Nat) /\ Len(traces_stack) = Len(frames)
      /\ \A i \in 1 .. Len(frames) : traces_stack[i] = frames[i].id
  BY <1>2 DEF VmInv, VmStackInv
<1>5. traces_stack # <<>> /\ Last(traces_stack) = Last(frames).id
  BY <1>2, <1>3, <1>4 DEF Last
<1>6. vm \in Seq(Seq(VmOp)) /\ Len(vm) = Len(calls) /\ VmOpsInv
  BY DEF VmInv, VmOpsInv
<1>7. vm[Last(frames).id] \in Seq(VmOp)
  BY <1>2, <1>6
<1>8. /\ SettledOps(vm[Last(frames).id], ops[Last(frames).id])
      /\ ops[Last(frames).id] # <<>> =>
            LastOp(vm[Last(frames).id], ops[Last(frames).id], Len(frames) - 1)
  BY <1>2, <1>3, <1>6 DEF VmOpsInv
<1>9. QED
  BY <1>4, <1>5, <1>6, <1>7, <1>8

\* The innermost frame goes on: its instructions and the operations of its trace change.
LEMMA VmUpdated ==
  ASSUME EvmInv, VmInv, ~dangling, phase = "running", UNCHANGED <<phase, calls, traces_stack>>,
         Len(frames') = Len(frames),
         \A i \in 1 .. Len(frames) : frames'[i].id = frames[i].id,
         NEW v \in Seq(VmOp), NEW s \in Seq(Op), SettledOps(v, s),
         LastOp(v, s, Len(frames) - 1),
         vm' = [vm EXCEPT ![Last(frames).id] = v], ops' = [ops EXCEPT ![Last(frames).id] = s]
  PROVE  VmInv'
<1> DEFINE top == Last(frames).id
           k == Len(frames)
<1>1. frames # <<>>
  BY DEF EvmInv, FramesInv
<1>2. /\ k \in Nat \ {0} /\ Last(frames) = frames[k] /\ top \in 1 .. Len(calls)
      /\ ops \in Seq(Seq(Op)) /\ Len(ops) = Len(calls)
  BY <1>1, TopFrame
<1>3. vm \in Seq(Seq(VmOp)) /\ Len(vm) = Len(calls)
  BY VmTop
<1>4. /\ vm' \in Seq(Seq(VmOp)) /\ Len(vm') = Len(calls) /\ vm'[top] = v
      /\ \A c \in 1 .. Len(calls) : c # top => vm'[c] = vm[c]
  BY <1>2, <1>3, UpdateAt
<1>5. ops'[top] = s /\ \A c \in 1 .. Len(calls) : c # top => ops'[c] = ops[c]
  BY <1>2, UpdateAt
<1>6. ASSUME NEW i \in 1 .. Len(frames)
      PROVE  LET id == frames[i].id
             IN  /\ SettledOps(vm'[id], ops'[id])
                 /\ ops'[id] # <<>> => LastOp(vm'[id], ops'[id], i - 1)
  <2>1. CASE i = k
    BY <1>2, <1>4, <1>5, <2>1
  <2>2. CASE i # k
    <3>1. frames[i].id \in 1 .. Len(calls) /\ frames[i].id # top
      BY <2>2, OuterCalls
    <3>2. /\ SettledOps(vm[frames[i].id], ops[frames[i].id])
          /\ ops[frames[i].id] # <<>> => LastOp(vm[frames[i].id], ops[frames[i].id], i - 1)
      BY DEF VmInv, VmOpsInv, Open
    <3>3. vm'[frames[i].id] = vm[frames[i].id] /\ ops'[frames[i].id] = ops[frames[i].id]
      BY <1>4, <1>5, <3>1
    <3>4. QED
      BY <3>2, <3>3
  <2>3. QED
    BY <2>1, <2>2
<1>7. ASSUME NEW c \in 1 .. Len(calls), calls[c].status # "open"
      PROVE  EndedOps(vm'[c], ops'[c])
  <2>1. k \in 1 .. Len(frames) /\ Open(k)
    BY <1>2 DEF Open
  <2>2. c # top
    BY <1>2, <1>7, <2>1 DEF EvmInv, CallsInv
  <2>3. EndedOps(vm[c], ops[c])
    BY <1>7 DEF VmInv, VmOpsInv
  <2>4. QED
    BY <1>4, <1>5, <2>2, <2>3
<1>8. VmOpsInv'
  <2>1. \A i \in 1 .. Len(frames') :
           LET id == frames'[i].id
           IN  /\ SettledOps(vm'[id], ops'[id])
               /\ ops'[id] # <<>> => LastOp(vm'[id], ops'[id], i - 1)
    BY <1>6
  <2>2. QED
    BY <1>4, <1>7, <2>1 DEF VmOpsInv
<1>9. traces_stack' \in Seq(Nat) /\ VmStackInv'
  BY <1>2 DEF VmInv, VmStackInv
<1>10. QED
  BY <1>8, <1>9 DEF VmInv

\* on_instruction_start adds the operation of the instruction to the trace on top.
LEMMA VmInstructionStep ==
  ASSUME EvmInv, VmInv, Instruction
  PROVE  VmInv'
<1> DEFINE top == Last(frames)
           id == top.id
           depth == Len(frames) - 1
<1>1. phase = "running" /\ ~dangling /\ frames # <<>> /\ events \in Nat
  BY DEF Instruction, EvmInv, FramesInv
<1>2. /\ top \in Frame /\ id \in 1 .. Len(calls) /\ Len(frames) \in Nat \ {0}
      /\ ops \in Seq(Seq(Op)) /\ ops[id] \in Seq(Op) /\ Len(ops) = Len(calls)
  BY <1>1, TopFrame
<1>3. /\ Last(traces_stack) = id /\ vm[id] \in Seq(VmOp) /\ SettledOps(vm[id], ops[id])
      /\ ops[id] # <<>> => LastOp(vm[id], ops[id], depth)
      /\ vm \in Seq(Seq(VmOp)) /\ Len(vm) = Len(calls)
  BY <1>1, VmTop
<1>4. PICK op \in Ops :
        /\ ops' = [ops EXCEPT ![id] = Append(@, [n |-> events, op |-> op, gas |-> top.gas,
                                                 callee |-> 0])]
        /\ VmInstruction(events, op, top.gas, Depth)
  BY ZenonT(60) DEF Instruction, Ops
<1> DEFINE x == [n |-> events, op |-> op, depth |-> depth, gas_cost |-> top.gas, used |-> 0,
                 sub |-> 0, precompiled |-> 0]
           y == [n |-> events, op |-> op, gas |-> top.gas, callee |-> 0]
           v == Append(IF vm[id] = <<>> THEN <<>>
                       ELSE Append(Front(vm[id]), Settled(Last(vm[id]), top.gas, depth)), x)
           s == Append(ops[id], y)
<1>5. ops' = [ops EXCEPT ![id] = s]
  BY <1>2, <1>4
<1>6. vm' = [vm EXCEPT ![id] = v] /\ UNCHANGED traces_stack
  BY <1>3, <1>4, ZenonT(60) DEF VmInstruction, Depth
<1>7. top.gas \in Int /\ depth \in Int
  BY <1>2 DEF Frame
<1>8. /\ x \in VmOp /\ y \in Op /\ x.n = y.n /\ x.op = y.op /\ x.depth = depth
      /\ x.gas_cost = top.gas /\ x.precompiled = 0 /\ y.gas = top.gas /\ y.callee = 0
  BY <1>1, <1>4, <1>7 DEF VmOp, Op
<1> DEFINE w == vm[id]
           o == ops[id]
           gas == top.gas
<1>9. v \in Seq(VmOp) /\ s \in Seq(Op) /\ SettledOps(v, s) /\ LastOp(v, s, depth)
  <2>1. /\ w \in Seq(VmOp) /\ o \in Seq(Op) /\ SettledOps(w, o)
        /\ (o # <<>> => LastOp(w, o, depth)) /\ gas \in Int /\ depth \in Int
    BY <1>2, <1>3, <1>7
  <2>2. v = Extended(w, gas, depth, x)
    BY DEF Extended
  <2>3. s = Append(o, y)
    OBVIOUS
  <2>4. x.gas_cost = gas /\ y.gas = gas
    BY <1>8
  <2> HIDE DEF v, s, w, o, gas, depth, x, y
  <2>5. QED
    BY <1>8, <2>1, <2>2, <2>3, <2>4, AppendedOp, ZenonT(60)
<1> HIDE DEF v, s
<1>10. /\ Len(frames') = Len(frames)
       /\ \A i \in 1 .. Len(frames) : frames'[i].id = frames[i].id
  BY StepFrames
<1>11. UNCHANGED <<phase, calls>>
  BY DEF Instruction
<1>12. QED
  BY <1>1, <1>5, <1>6, <1>9, <1>10, <1>11, VmUpdated, ZenonT(60)

\* on_precompiled_run in the outermost frame: its last operation is the call.
LEMMA VmPrecompiledStep ==
  ASSUME EvmInv, VmInv, Precompiled
  PROVE  VmInv'
<1> DEFINE top == Last(frames)
           id == top.id
           w == vm[id]
           o == ops[id]
           L == Len(o)
           k == Len(frames)
<1>1. /\ phase = "running" /\ ~dangling /\ frames # <<>> /\ Half > 0
      /\ top.at \in {"call", "callcode"}
      /\ UNCHANGED <<phase, calls, traces_stack>> /\ dangling' = (Depth > 0)
  BY DEF Precompiled, VmPrecompiled, EvmInv, FramesInv
<1>2. /\ top \in Frame /\ top = frames[k] /\ id \in 1 .. Len(calls) /\ k \in Nat \ {0}
      /\ ops \in Seq(Seq(Op)) /\ o \in Seq(Op) /\ Len(ops) = Len(calls)
  BY <1>1, TopFrame
<1>3. /\ w \in Seq(VmOp) /\ SettledOps(w, o) /\ (o # <<>> => LastOp(w, o, k - 1))
      /\ vm \in Seq(Seq(VmOp)) /\ Len(vm) = Len(calls)
  BY <1>1, VmTop
<1>4. /\ Len(frames') = Len(frames)
      /\ \A i \in 1 .. Len(frames) : frames'[i].id = frames[i].id
  BY StepFrames
<1>5. CASE Depth > 0
  <2>1. dangling'
    BY <1>1, <1>5, ZenonT(60)
  <2>2. traces_stack' \in Seq(Nat) /\ VmStackInv'
    BY <1>1, <1>2, <1>4 DEF VmInv, VmStackInv
  <2>3. QED
    BY <2>1, <2>2 DEF VmInv
<1>6. CASE ~(Depth > 0)
  <2>1. k = 1 /\ id = 1
    <3>1. k = 1
      <4>1. k \in Nat \ {0} /\ ~(k - 1 > 0)
        BY <1>2, <1>6 DEF Depth
      <4> HIDE DEF k
      <4>2. QED
        BY <4>1
    <3>2. QED
      BY <1>1, <1>2, <3>1 DEF EvmInv, FramesInv
  <2>2. o # <<>> /\ Last(o).callee = 0 /\ Half \in Int
    <3>1. k \in 1 .. Len(frames) /\ frames[k].at \in {"call", "callcode"}
      BY <1>1, <1>2
    <3>2. o # <<>> /\ Last(o).callee = 0
      BY <1>2, <3>1 DEF EvmInv, OpsInv, Ops
    <3>3. Half \in Int
      BY <1>2 DEF Half, Frame
    <3>4. QED
      BY <3>2, <3>3
  <2>3. L \in Nat \ {0} /\ Len(w) = L /\ w # <<>> /\ \A i \in 1 .. L : w[i].n = o[i].n
    BY <1>2, <1>3, <2>2, SettledLength, ZenonT(60)
  <2>4. Last(w) \in VmOp /\ Last(w) = w[L] /\ Last(o) \in Op /\ Last(o) = o[L]
    <3>1. /\ w \in Seq(VmOp) /\ w # <<>> /\ Len(w) = L
          /\ o \in Seq(Op) /\ o # <<>> /\ Len(o) = L
      BY <1>2, <1>3, <2>2, <2>3
    <3> HIDE DEF w, o, L
    <3>2. Last(w) \in VmOp /\ Last(w) = w[Len(w)]
      BY <3>1, LastFront
    <3>3. Last(o) \in Op /\ Last(o) = o[Len(o)]
      BY <3>1, LastFront
    <3>4. QED
      BY <3>1, <3>2, <3>3
  <2> DEFINE x == [w[L] EXCEPT !.precompiled = Half, !.sub = 0]
             y == [Last(o) EXCEPT !.callee = Half]
             v == [w EXCEPT ![L] = x]
             s == Append(Front(o), y)
  <2>5. ops' = [ops EXCEPT ![id] = s]
    BY <1>2, ZenonT(60) DEF Precompiled
  <2>6. vm' = [vm EXCEPT ![id] = v]
    <3>1. vm' = [vm EXCEPT ![1][L].precompiled = Half, ![1][L].sub = 0]
      BY <2>1, <2>3 DEF Precompiled, VmPrecompiled
    <3>2. QED
      BY <1>2, <1>3, <2>1, <2>3, <3>1, ZenonT(60)
  <2>7. /\ x \in VmOp /\ x.n = w[L].n /\ x.op = w[L].op /\ x.gas_cost = w[L].gas_cost
        /\ x.precompiled = Half
    BY <2>2, <2>4, ZenonT(60) DEF VmOp
  <2>8. /\ y \in Op /\ y.n = o[L].n /\ y.op = o[L].op /\ y.gas = o[L].gas /\ y.callee = Half
    BY <2>2, <2>4 DEF Op
  <2> HIDE DEF x, y
  <2>9. /\ s \in Seq(Op) /\ Len(s) = L /\ s[L] = y /\ Last(s) = y
        /\ \A i \in 1 .. L - 1 : s[i] = o[i]
    <3>1. o \in Seq(Op) /\ o # <<>> /\ Len(o) = L /\ y \in Op
      BY <1>2, <2>2, <2>8
    <3> HIDE DEF o, L
    <3>2. QED
      BY <3>1, ReplaceLast
  <2>10. /\ v \in Seq(VmOp) /\ Len(v) = L /\ v[L] = x
         /\ \A i \in 1 .. L - 1 : v[i] = w[i]
    <3>1. L \in 1 .. Len(w) /\ \A i \in 1 .. L - 1 : i \in 1 .. Len(w) /\ i # L
      BY <2>3
    <3> HIDE DEF w, L
    <3>2. QED
      BY <1>3, <2>3, <2>7, <3>1, UpdateAt
  <2> HIDE DEF v, s
  <2>11. L \in 1 .. L /\ Last(v) = x
    BY <2>3, <2>10, Indices, ZenonT(60) DEF Last
  <2>12. SettledOps(v, s)
    <3>1. /\ \A i \in 1 .. Len(o) - 1 : v[i] = w[i] /\ s[i] = o[i]
          /\ v[Len(o)].n = s[Len(o)].n /\ s[Len(o)].gas = o[Len(o)].gas
          /\ Len(v) = Len(w) /\ Len(s) = Len(o)
      BY <2>3, <2>7, <2>8, <2>9, <2>10, <2>11, ZenonT(60)
    <3> HIDE DEF w, o
    <3>2. QED
      BY <1>2, <1>3, <2>2, <2>9, <2>10, <3>1, ReplacedOp, ZenonT(60)
  <2>13. LastOp(v, s, k - 1)
    <3>1. Last(w).op = Last(o).op /\ Last(w).gas_cost = Last(o).gas /\ Half # 0
      <4>1. Half # 0
        BY <1>1, <2>2, GasPassed, ZenonT(60)
      <4>2. QED
        BY <1>3, <2>2, <4>1, ZenonT(60) DEF LastOp
    <3>2. /\ Last(s) = y /\ y.callee = Half /\ y.op = Last(o).op /\ y.gas = Last(o).gas
          /\ Last(v) = x /\ x.precompiled = Half /\ x.op = Last(w).op
          /\ x.gas_cost = Last(w).gas_cost
      BY <2>4, <2>7, <2>8, <2>9, <2>11, ZenonT(60)
    <3>3. QED
      BY <3>1, <3>2, ZenonT(60) DEF LastOp
  <2>14. QED
    BY <1>1, <1>4, <2>5, <2>6, <2>9, <2>10, <2>12, <2>13, VmUpdated, ZenonT(60)
<1>7. QED
  BY <1>5, <1>6

\* The outer frames stay as they are for VmTraceTracer while the innermost ends.
LEMMA VmOuter ==
  ASSUME EvmInv, VmOpsInv, UNCHANGED ops,
         vm' \in Seq(Seq(VmOp)), Len(vm') = Len(calls), Len(calls') = Len(calls),
         \A c \in 1 .. Len(calls) :
            c # Last(frames).id => vm'[c] = vm[c] /\ calls'[c] = calls[c],
         EndedOps(vm'[Last(frames).id], ops[Last(frames).id]),
         \A i \in 1 .. Len(frames') :
            Open(i)' => /\ i \in 1 .. Len(frames) /\ i # Len(frames)
                        /\ frames'[i].id = frames[i].id
  PROVE  VmOpsInv'
<1>1. ASSUME NEW i \in 1 .. Len(frames'), Open(i)'
      PROVE  LET id == frames'[i].id
             IN  /\ SettledOps(vm'[id], ops[id])
                 /\ ops[id] # <<>> => LastOp(vm'[id], ops[id], i - 1)
  <2>1. i \in 1 .. Len(frames) /\ i # Len(frames) /\ frames'[i].id = frames[i].id
    BY <1>1, ZenonT(60)
  <2>2. frames[i].id \in 1 .. Len(calls) /\ frames[i].id # Last(frames).id
    BY <2>1, OuterCalls, ZenonT(60)
  <2>3. vm'[frames[i].id] = vm[frames[i].id]
    BY <2>2
  <2>4. /\ SettledOps(vm[frames[i].id], ops[frames[i].id])
        /\ ops[frames[i].id] # <<>> => LastOp(vm[frames[i].id], ops[frames[i].id], i - 1)
    BY <2>1 DEF VmOpsInv, Open
  <2>5. QED
    BY <2>1, <2>3, <2>4
<1>2. ASSUME NEW c \in 1 .. Len(calls), calls'[c].status # "open"
      PROVE  EndedOps(vm'[c], ops[c])
  <2>1. CASE c = Last(frames).id
    BY <2>1
  <2>2. CASE c # Last(frames).id
    BY <1>2, <2>2 DEF VmOpsInv
  <2>3. QED
    BY <2>1, <2>2
<1>3. QED
  BY <1>1, <1>2 DEF VmOpsInv

\* on_execution_end completes the last operation and empties the trace of a mere STOP.
LEMMA EndedTrace ==
  ASSUME NEW w \in Seq(VmOp), NEW o \in Seq(Op), SettledOps(w, o), o # <<>>,
         Last(w).op = Last(o).op, NEW x \in VmOp, x.n = Last(w).n
  PROVE  LET v == IF Last(w).op = "stop" /\ Len(w) = 1 THEN <<>> ELSE Append(Front(w), x)
         IN  v \in Seq(VmOp) /\ EndedOps(v, o)
<1> DEFINE L == Len(o)
<1>1. L \in Nat \ {0} /\ Len(w) = L /\ w # <<>> /\ \A i \in 1 .. L : w[i].n = o[i].n
  BY DEF SettledOps
<1>2. L \in 1 .. L /\ Last(o) = o[L] /\ Last(w) = w[L]
  BY <1>1 DEF Last
<1>3. CASE Last(w).op = "stop" /\ Len(w) = 1
  BY <1>1, <1>2, <1>3 DEF EndedOps
<1>4. CASE ~(Last(w).op = "stop" /\ Len(w) = 1)
  <2> DEFINE v == Append(Front(w), x)
  <2>1. v \in Seq(VmOp) /\ Len(v) = L /\ v[L] = x /\ \A i \in 1 .. L - 1 : v[i] = w[i]
    BY <1>1, ReplaceLast
  <2> HIDE DEF v
  <2>2. v[L].n = o[L].n
    BY <1>1, <1>2, <2>1
  <2>3. SettledOps(v, o)
    BY <1>1, <2>1, <2>2, ReplacedOp
  <2>4. EndedOps(v, o)
    BY <1>1, <1>2, <1>4, <2>3 DEF EndedOps
  <2>5. QED
    BY <1>4, <2>1, <2>4 DEF v
<1>5. QED
  BY <1>3, <1>4

\* on_execution_end closes the trace on top and leaves it with its last operation.
LEMMA VmEndStep ==
  ASSUME EvmInv, VmInv, End
  PROVE  VmInv'
<1> DEFINE top == Last(frames)
           id == top.id
           k == Len(frames)
           w == vm[id]
           o == ops[id]
<1>1. /\ phase = "running" /\ ~dangling /\ frames # <<>> /\ top.at # "begin"
      /\ UNCHANGED <<ops, dangling>>
  BY DEF End, EvmInv, FramesInv
<1>2. /\ frames \in Seq(Frame) /\ top \in Frame /\ top = frames[k] /\ k \in Nat \ {0}
      /\ id \in 1 .. Len(calls) /\ calls \in Seq(CallRecord) /\ calls[id] \in CallRecord
      /\ o \in Seq(Op)
  BY <1>1, TopFrame
<1>3. /\ traces_stack # <<>> /\ Len(traces_stack) = k /\ Last(traces_stack) = id
      /\ vm \in Seq(Seq(VmOp)) /\ Len(vm) = Len(calls) /\ w \in Seq(VmOp)
      /\ SettledOps(w, o) /\ (o # <<>> => LastOp(w, o, k - 1))
  BY <1>1, VmTop
<1>4. o # <<>> /\ w # <<>> /\ Last(w).op = Last(o).op /\ Last(w) \in VmOp
  <2>1. k \in 1 .. Len(frames)
    BY <1>2
  <2>2. o # <<>>
    <3>1. (frames[k].at = "begin") <=> (ops[frames[k].id] = <<>>)
      BY <2>1, ZenonT(60) DEF EvmInv, OpsInv
    <3>2. QED
      BY <1>1, <1>2, <3>1, ZenonT(60)
  <2>3. w # <<>> /\ Last(w).op = Last(o).op
    BY <1>2, <1>3, <2>2, SettledLength, ZenonT(60) DEF LastOp
  <2>4. Last(w) \in VmOp
    BY <1>3, <2>3, LastFront
  <2>5. QED
    BY <2>2, <2>3, <2>4
<1>5. PICK st \in Statuses, gas_left \in Int :
        /\ calls' = [calls EXCEPT ![id].status = st, ![id].used = top.start - gas_left]
        /\ VmEnd(st, gas_left, top.start)
        /\ IF top.kind = "create" THEN phase' = "created" /\ UNCHANGED frames
           ELSE Return(top.start - gas_left)
  <2>1. top.gas \in Int
    BY <1>2 DEF Frame
  <2>2. PICK st \in Statuses :
          LET gas_left == IF Kept(st) THEN top.gas ELSE 0
          IN  /\ calls' = [calls EXCEPT ![id].status = st, ![id].used = top.start - gas_left]
              /\ VmEnd(st, gas_left, top.start)
              /\ IF top.kind = "create" THEN phase' = "created" /\ UNCHANGED frames
                 ELSE Return(top.start - gas_left)
    BY ZenonT(60) DEF End, Statuses
  <2>3. (IF Kept(st) THEN top.gas ELSE 0) \in Int
    BY <2>1
  <2>4. QED
    BY <2>2, <2>3, ZenonT(60)
<1> DEFINE start == top.start
           x == CASE st = "bad_instruction" ->
                       [Last(w) EXCEPT !.gas_cost = start - @,
                                       !.used = 2 * Last(w).gas_cost - start]
                  [] OTHER -> [Last(w) EXCEPT !.gas_cost = @ - gas_left, !.used = gas_left]
           v == IF Last(w).op = "stop" /\ Len(w) = 1 THEN <<>> ELSE Append(Front(w), x)
<1>6. vm' = [vm EXCEPT ![id] = v] /\ traces_stack' = Front(traces_stack)
  BY <1>3, <1>4, <1>5, ZenonT(60) DEF VmEnd
<1>7. start \in Int
  BY <1>2 DEF Frame
<1>8. x \in VmOp /\ x.n = Last(w).n
  <2> HIDE DEF w, start
  <2>0. Last(w).gas_cost \in Int
    BY <1>4, ZenonT(60) DEF VmOp
  <2>1. /\ start - Last(w).gas_cost \in Int
        /\ 2 * Last(w).gas_cost - start \in Int /\ Last(w).gas_cost - gas_left \in Int
    BY <1>7, <2>0
  <2>2. CASE st = "bad_instruction"
    BY <1>4, <2>1, <2>2, ZenonT(60) DEF VmOp
  <2>3. CASE st # "bad_instruction"
    BY <1>4, <2>1, <2>3, ZenonT(60) DEF VmOp
  <2>4. QED
    BY <2>2, <2>3
<1> HIDE DEF x, start
<1>9. v \in Seq(VmOp) /\ EndedOps(v, o)
  <2> HIDE DEF w, o
  <2>1. QED
    BY <1>2, <1>3, <1>4, <1>8, EndedTrace
<1> HIDE DEF v
<1>10. /\ vm' \in Seq(Seq(VmOp)) /\ Len(vm') = Len(calls) /\ vm'[id] = v
       /\ \A c \in 1 .. Len(calls) : c # id => vm'[c] = vm[c]
  BY <1>2, <1>3, <1>6, <1>9, UpdateAt
<1>11. Len(calls') = Len(calls) /\ \A c \in 1 .. Len(calls) : c # id => calls'[c] = calls[c]
  BY <1>2, <1>5
<1>12. /\ Len(frames') = IF phase' = "created" THEN k ELSE k - 1
       /\ \A i \in 1 .. k - 1 : frames'[i].id = frames[i].id
  <2>1. CASE top.kind = "create"
    BY <1>5, <2>1
  <2>2. CASE top.kind # "create"
    <3>1. Return(top.start - gas_left) /\ top.start - gas_left \in Int
      BY <1>5, <1>7, <2>2 DEF start
    <3>2. /\ Len(frames') = k - 1 /\ phase' \in {"ended", "running"}
          /\ \A i \in 1 .. k - 1 : frames'[i].id = frames[i].id
      BY <1>1, <1>2, <3>1, ReturnFrames
    <3>3. QED
      BY <3>2
  <2>3. QED
    BY <2>1, <2>2
<1>13. VmOpsInv'
  <2>1. \A i \in 1 .. Len(frames') :
           Open(i)' => /\ i \in 1 .. Len(frames) /\ i # Len(frames)
                       /\ frames'[i].id = frames[i].id
    BY <1>2, <1>12 DEF Open
  <2>2. VmOpsInv /\ ops' = ops
    BY <1>1 DEF VmInv
  <2>3. EndedOps(vm'[id], ops[id])
    BY <1>9, <1>10
  <2>4. QED
    BY <1>10, <1>11, <2>1, <2>2, <2>3, VmOuter
<1>14. traces_stack' \in Seq(Nat) /\ VmStackInv'
  <2>1. /\ traces_stack \in Seq(Nat)
        /\ \A i \in 1 .. k - 1 : traces_stack[i] = frames[i].id
    BY <1>2, <1>3 DEF VmInv, VmStackInv
  <2>2. /\ traces_stack' \in Seq(Nat) /\ Len(traces_stack') = k - 1
        /\ \A i \in 1 .. k - 1 : traces_stack'[i] = traces_stack[i]
    BY <1>3, <1>6, <2>1, LastFront, ZenonT(60)
  <2>3. QED
    BY <1>2, <1>12, <2>1, <2>2 DEF VmStackInv
<1>15. QED
  BY <1>13, <1>14 DEF VmInv

\* on_creation_completed changes no trace.
LEMMA VmCreationStep ==
  ASSUME EvmInv, VmInv, CreationCompleted
  PROVE  VmInv'
<1> DEFINE id == Last(frames).id
           k == Len(frames)
<1>1. /\ phase = "created" /\ ~dangling /\ frames # <<>>
      /\ UNCHANGED <<ops, vm, traces_stack, dangling>>
  BY DEF CreationCompleted, EvmInv, FramesInv, vmtrace
<1>2. /\ frames \in Seq(Frame) /\ Last(frames) = frames[k] /\ k \in Nat \ {0}
      /\ id \in 1 .. Len(calls) /\ calls \in Seq(CallRecord) /\ calls[id] \in CallRecord
  BY <1>1, TopFrame
<1>3. PICK deposit \in {0, 1} :
        /\ calls' = [calls EXCEPT ![id].used = @ + deposit]
        /\ Return(calls[id].used + deposit)
  BY ZenonT(60) DEF CreationCompleted
<1>4. calls[id].used + deposit \in Int
  BY <1>2 DEF CallRecord
<1>5. /\ Len(frames') = k - 1 /\ phase' \in {"ended", "running"}
      /\ \A i \in 1 .. k - 1 : frames'[i].id = frames[i].id
  BY <1>1, <1>2, <1>3, <1>4, ReturnFrames
<1>6. VmOpsInv /\ vm \in Seq(Seq(VmOp)) /\ Len(vm) = Len(calls)
  BY <1>1 DEF VmInv, VmOpsInv
<1>7. EndedOps(vm[id], ops[id])
  <2>1. k \in 1 .. Len(frames) /\ ~Open(k)
    BY <1>1, <1>2 DEF Open
  <2>2. calls[id].status # "open"
    BY <1>2, <2>1 DEF EvmInv, CallsInv
  <2>3. QED
    BY <1>2, <1>6, <2>2 DEF VmOpsInv
<1>8. Len(calls') = Len(calls) /\ \A c \in 1 .. Len(calls) : c # id => calls'[c] = calls[c]
  BY <1>2, <1>3
<1>9. VmOpsInv'
  <2>1. \A i \in 1 .. Len(frames') :
           Open(i)' => /\ i \in 1 .. Len(frames) /\ i # Len(frames)
                       /\ frames'[i].id = frames[i].id
    BY <1>2, <1>5
  <2>2. QED
    BY <1>1, <1>6, <1>7, <1>8, <2>1, VmOuter
<1>10. traces_stack' \in Seq(Nat) /\ VmStackInv'
  <2>1. /\ traces_stack \in Seq(Nat) /\ Len(traces_stack) = k - 1
        /\ \A i \in 1 .. k - 1 : traces_stack[i] = frames[i].id
    BY <1>1, <1>2 DEF VmInv, VmStackInv
  <2>2. phase' # "created" /\ traces_stack' = traces_stack
    BY <1>1, <1>5
  <2>3. Len(traces_stack') = Len(frames')
    BY <1>5, <2>1, <2>2
  <2>4. \A i \in 1 .. Len(traces_stack') : traces_stack'[i] = frames'[i].id
    BY <1>5, <2>1, <2>2
  <2>5. QED
    BY <1>2, <1>5, <2>1, <2>2, <2>3, <2>4 DEF VmStackInv
<1>11. QED
  BY <1>9, <1>10 DEF VmInv

\* The operation that calls: on_execution_start notes the callee's depth and gas.
Calling(w, depth, gas, n) ==
  Append(Front(w), IF Last(w).op = "call"
                   THEN [Last(w) EXCEPT !.depth = depth, !.gas_cost = @ - gas, !.sub = n]
                   ELSE [Last(w) EXCEPT !.sub = n])

CallNoted(o, gas) ==
  IF Last(o).op # "call" THEN o ELSE Append(Front(o), [Last(o) EXCEPT !.callee = gas])

\* The operation that calls is settled with the gas it passes on, and points to its trace.
LEMMA CallingOp ==
  ASSUME NEW w \in Seq(VmOp), NEW o \in Seq(Op), SettledOps(w, o), o # <<>>,
         NEW k \in Nat, LastOp(w, o, k - 1), Last(o).callee = 0,
         NEW gas \in Int, gas # 0, NEW n \in Nat
  PROVE  /\ Calling(w, k, gas, n) \in Seq(VmOp)
         /\ SettledOps(Calling(w, k, gas, n), CallNoted(o, gas))
         /\ LastOp(Calling(w, k, gas, n), CallNoted(o, gas), k - 1)
<1> DEFINE L == Len(o)
           last == Last(w)
           inst == Last(o)
           x == IF last.op = "call" THEN [last EXCEPT !.depth = k, !.gas_cost = @ - gas, !.sub = n]
                ELSE [last EXCEPT !.sub = n]
           y == IF inst.op = "call" THEN [inst EXCEPT !.callee = gas] ELSE inst
           v == Calling(w, k, gas, n)
           s == CallNoted(o, gas)
<1>1. L \in Nat \ {0} /\ Len(w) = L /\ w # <<>> /\ \A i \in 1 .. L : w[i].n = o[i].n
  BY DEF SettledOps
<1>2. last \in VmOp /\ last = w[L] /\ inst \in Op /\ inst = o[L] /\ last.n = inst.n
  <2>1. last \in VmOp /\ last = w[L] /\ inst \in Op /\ inst = o[L]
    BY <1>1, LastFront
  <2>2. L \in 1 .. L
    BY <1>1
  <2>3. QED
    BY <1>1, <2>1, <2>2
<1>3. /\ last.op = inst.op /\ last.precompiled = 0 /\ last.depth = k - 1
      /\ last.gas_cost = inst.gas /\ inst.callee = 0
  BY DEF LastOp
<1>4. v = Append(Front(w), x) /\ s = IF inst.op # "call" THEN o ELSE Append(Front(o), y)
  BY DEF Calling, CallNoted
<1> HIDE DEF last, inst, v, s
<1>5. /\ x \in VmOp /\ x.n = last.n /\ x.op = last.op /\ x.precompiled = 0
      /\ x.depth = (IF inst.op = "call" THEN k ELSE k - 1)
      /\ x.gas_cost = (IF inst.op = "call" THEN inst.gas - gas ELSE inst.gas)
  <2>1. last.gas_cost - gas \in Int /\ k \in Int /\ n \in Nat
    BY <1>2 DEF VmOp
  <2>2. CASE last.op = "call"
    BY <1>2, <1>3, <2>1, <2>2, ZenonT(60) DEF VmOp
  <2>3. CASE last.op # "call"
    BY <1>2, <1>3, <2>1, <2>3, ZenonT(60) DEF VmOp
  <2>4. QED
    BY <2>2, <2>3
<1>6. /\ y \in Op /\ y.n = inst.n /\ y.op = inst.op /\ y.gas = inst.gas
      /\ y.callee = (IF inst.op = "call" THEN gas ELSE 0)
  BY <1>2, <1>3 DEF Op
<1> HIDE DEF x
<1>7. v \in Seq(VmOp) /\ Len(v) = L /\ v[L] = x /\ Last(v) = x /\ \A i \in 1 .. L - 1 : v[i] = w[i]
  BY <1>1, <1>4, <1>5, ReplaceLast
<1>8. s \in Seq(Op) /\ Len(s) = L /\ s[L] = y /\ Last(s) = y /\ \A i \in 1 .. L - 1 : s[i] = o[i]
  <2>1. CASE inst.op # "call"
    BY <1>2, <1>4, <2>1 DEF Last
  <2>2. CASE inst.op = "call"
    <3>1. s = Append(Front(o), y)
      BY <1>4, <2>2
    <3> HIDE DEF y
    <3>2. QED
      BY <1>6, <3>1, ReplaceLast
  <2>3. QED
    BY <2>1, <2>2
<1> HIDE DEF y
<1>9. SettledOps(v, s)
  <2>1. /\ \A i \in 1 .. Len(o) - 1 : v[i] = w[i] /\ s[i] = o[i]
        /\ v[Len(o)].n = s[Len(o)].n /\ s[Len(o)].gas = o[Len(o)].gas
        /\ Len(v) = Len(w) /\ Len(s) = Len(o)
    BY <1>1, <1>2, <1>5, <1>6, <1>7, <1>8
  <2>2. v \in Seq(VmOp) /\ s \in Seq(Op)
    BY <1>7, <1>8
  <2>3. QED
    BY <2>1, <2>2, ReplacedOp
<1>10. LastOp(v, s, k - 1)
  <2>0. k # k - 1
    OBVIOUS
  <2>1. CASE inst.op = "call"
    BY <1>3, <1>5, <1>6, <1>7, <1>8, <2>0, <2>1, ZenonT(60) DEF LastOp
  <2>2. CASE inst.op # "call"
    BY <1>3, <1>5, <1>6, <1>7, <1>8, <2>2, ZenonT(60) DEF LastOp
  <2>3. QED
    BY <2>1, <2>2
<1>11. QED
  BY <1>7, <1>9, <1>10 DEF v, s

\* VmStart of a nested call: the calling operation knows it, and its trace begins.
LEMMA VmStartNested ==
  ASSUME EvmInv, VmInv, ~dangling, UNCHANGED dangling, phase = "running", phase' = "running",
         Last(frames).at \in {"call", "callcode", "create"},
         NEW kind \in Kinds, NEW gas \in Int, gas # 0,
         NewFrame(kind, gas), NewCall(kind, Last(frames).id), NewOps(gas, Last(frames).id),
         VmStart(Len(calls) + 1, gas, Len(frames))
  PROVE  VmInv'
<1> DEFINE top == Last(frames).id
           k == Len(frames)
           n == Len(calls) + 1
           w == vm[top]
           o == ops[top]
           v == Calling(w, k, gas, n)
           called == [vm EXCEPT ![top] = v]
<1>1. frames # <<>>
  BY ZenonT(60) DEF EvmInv, FramesInv
<1>2. /\ k \in Nat \ {0} /\ Last(frames) = frames[k] /\ top \in 1 .. Len(calls)
      /\ o \in Seq(Op) /\ Len(calls) \in Nat /\ ops \in Seq(Seq(Op)) /\ Len(ops) = Len(calls)
  BY <1>1, TopFrame, ZenonT(60)
<1>3. /\ traces_stack # <<>> /\ Len(traces_stack) = k /\ Last(traces_stack) = top
      /\ vm \in Seq(Seq(VmOp)) /\ Len(vm) = Len(calls) /\ w \in Seq(VmOp)
      /\ SettledOps(w, o) /\ (o # <<>> => LastOp(w, o, k - 1))
  BY VmTop
<1>4. o # <<>> /\ Last(o).callee = 0 /\ Last(o).op = Last(frames).at
  <2>1. k \in 1 .. Len(frames)
    BY <1>2
  <2>2. QED
    BY <1>2, <2>1 DEF EvmInv, OpsInv, Ops
<1>5. vm[1] # <<>>
  <2>1. 1 \in 1 .. Len(frames) /\ frames[1].id = 1 /\ 1 \in 1 .. Len(calls)
    BY <1>1, <1>2, Indices, ZenonT(60) DEF EvmInv, FramesInv
  <2>2. frames[1].at # "begin"
    <3>1. CASE k = 1
      BY <1>2, <3>1, ZenonT(60)
    <3>2. CASE 1 < k
      BY <2>1, <3>2, ZenonT(60) DEF EvmInv, OpsInv
    <3>3. QED
      BY <1>2, <3>1, <3>2, Indices, ZenonT(60)
  <2>3. ops[1] # <<>> /\ ops[1] \in Seq(Op)
    <3>1. ops[1] # <<>>
      BY <2>1, <2>2, ZenonT(60) DEF EvmInv, OpsInv
    <3>2. ops \in Seq(Seq(Op)) /\ 1 \in 1 .. Len(ops)
      BY <1>2, <2>1, ZenonT(60)
    <3>3. QED
      BY <3>1, <3>2
  <2>4. SettledOps(vm[1], ops[1])
    BY <2>1 DEF VmInv, VmOpsInv, Open
  <2>5. QED
    BY <2>3, <2>4, SettledLength, ZenonT(60)
<1>6. vm' = Append(called, <<>>) /\ traces_stack' = Append(traces_stack, n)
  <2>1. k > 0 /\ vm[1] # <<>>
    BY <1>2, <1>5
  <2>2. QED
    BY <1>3, <2>1 DEF VmStart, Calling
<1>7. ops'[top] = CallNoted(o, gas)
  BY <1>4 DEF NewOps, CallNoted
<1> DEFINE s == CallNoted(o, gas)
<1>8. v \in Seq(VmOp) /\ SettledOps(v, s) /\ LastOp(v, s, k - 1)
  <2>1. n \in Nat /\ k \in Nat
    BY <1>2
  <2> HIDE DEF w, o, k, n
  <2>2. QED
    BY <1>2, <1>3, <1>4, <2>1, CallingOp
<1> HIDE DEF v, s
<1>9. /\ called \in Seq(Seq(VmOp)) /\ Len(called) = Len(calls) /\ called[top] = v
      /\ \A c \in 1 .. Len(calls) : c # top => called[c] = vm[c]
  <2>1. /\ vm \in Seq(Seq(VmOp)) /\ Len(vm) = Len(calls) /\ top \in 1 .. Len(vm)
        /\ v \in Seq(VmOp)
    BY <1>2, <1>3, <1>8, ZenonT(60)
  <2> HIDE DEF top
  <2>2. QED
    BY <2>1, UpdateAt
<1> HIDE DEF called
<1>10. /\ vm' \in Seq(Seq(VmOp)) /\ Len(vm') = n /\ vm'[n] = <<>>
       /\ \A c \in 1 .. Len(calls) : vm'[c] = called[c]
  <2>1. <<>> \in Seq(VmOp)
    OBVIOUS
  <2>2. QED
    BY <1>6, <1>9, <2>1, AppendLast
<1>11. /\ ops'[n] = <<>> /\ ops'[top] = s
       /\ \A c \in 1 .. Len(calls) : c # top => ops'[c] = ops[c]
  BY <1>7 DEF NewOps, s
<1>12. /\ Len(frames') = k + 1 /\ frames'[k + 1].id = n
       /\ \A i \in 1 .. k : frames'[i] = frames[i]
  BY DEF NewFrame
<1>13. ASSUME NEW i \in 1 .. k + 1
       PROVE  LET id == frames'[i].id
              IN  /\ SettledOps(vm'[id], ops'[id])
                  /\ ops'[id] # <<>> => LastOp(vm'[id], ops'[id], i - 1)
  <2>1. CASE i = k + 1
    <3>1. frames'[i].id = n /\ vm'[n] = <<>> /\ ops'[n] = <<>>
      BY <1>10, <1>11, <1>12, <2>1, ZenonT(60)
    <3>2. SettledOps(<<>>, <<>>)
      BY DEF SettledOps
    <3>3. QED
      BY <3>1, <3>2, ZenonT(60)
  <2>2. CASE i = k
    <3>1. k \in 1 .. k
      BY <1>2, Indices, ZenonT(60)
    <3>2. frames'[i].id = top
      BY <1>2, <1>12, <2>2, <3>1, ZenonT(60)
    <3>3. vm'[top] = v
      BY <1>2, <1>9, <1>10, ZenonT(60)
    <3>4. QED
      BY <1>8, <1>11, <2>2, <3>2, <3>3
  <2>3. CASE i \in 1 .. k /\ i # k
    <3>1. frames[i].id \in 1 .. Len(calls) /\ frames[i].id # top
      BY <2>3, OuterCalls
    <3>2. /\ SettledOps(vm[frames[i].id], ops[frames[i].id])
          /\ ops[frames[i].id] # <<>> => LastOp(vm[frames[i].id], ops[frames[i].id], i - 1)
      BY <2>3, ZenonT(60) DEF VmInv, VmOpsInv, Open
    <3>3. vm'[frames[i].id] = vm[frames[i].id] /\ ops'[frames[i].id] = ops[frames[i].id]
      BY <1>9, <1>10, <1>11, <3>1, ZenonT(60)
    <3>4. frames'[i] = frames[i]
      BY <1>12, <2>3
    <3>5. QED
      BY <3>2, <3>3, <3>4, ZenonT(60)
  <2>4. i = k + 1 \/ i = k \/ (i \in 1 .. k /\ i # k)
    <3>1. k \in Nat
      BY <1>2, ZenonT(60)
    <3>2. QED
      BY <3>1
  <2>5. QED
    BY <2>1, <2>2, <2>3, <2>4, ZenonT(60)
<1>14. ASSUME NEW c \in 1 .. Len(calls'), calls'[c].status # "open"
       PROVE  EndedOps(vm'[c], ops'[c])
  <2>1. /\ Len(calls') = n /\ calls'[n].status = "open"
        /\ \A d \in 1 .. Len(calls) : d # top => calls'[d] = calls[d]
    BY DEF NewCall
  <2>2. calls'[top].status = "open"
    <3>1. k \in 1 .. Len(frames) /\ Open(k)
      BY <1>2 DEF Open
    <3>2. calls[top].status = "open" /\ calls[top] \in CallRecord
      BY <1>1, <1>2, <3>1, TopFrame, ZenonT(60) DEF EvmInv, CallsInv
    <3>3. calls'[top] = [calls[top] EXCEPT !.children = @ + 1]
      BY DEF NewCall
    <3>4. QED
      BY <3>2, <3>3 DEF CallRecord
  <2>3. c \in 1 .. Len(calls) /\ c # top
    <3>1. c # n /\ c # top
      BY <1>14, <2>1, <2>2, ZenonT(60)
    <3>2. c \in 1 .. Len(calls) + 1 /\ c # Len(calls) + 1 /\ Len(calls) \in Nat
      BY <1>2, <1>14, <2>1, <3>1, ZenonT(60)
    <3>3. c \in 1 .. Len(calls)
      BY <3>2
    <3>4. QED
      BY <3>1, <3>3, ZenonT(60)
  <2>4. EndedOps(vm[c], ops[c])
    BY <1>14, <2>1, <2>3 DEF VmInv, VmOpsInv
  <2>5. vm'[c] = vm[c] /\ ops'[c] = ops[c]
    BY <1>9, <1>10, <1>11, <2>3, ZenonT(60)
  <2>6. QED
    BY <2>4, <2>5
<1>15. VmOpsInv'
  <2>1. Len(calls') = n
    BY DEF NewCall
  <2>2. QED
    BY <1>10, <1>12, <1>13, <1>14, <2>1, ZenonT(60) DEF VmOpsInv
<1>16. traces_stack' \in Seq(Nat) /\ VmStackInv'
  <2>1. traces_stack \in Seq(Nat) /\ \A i \in 1 .. k : traces_stack[i] = frames[i].id
    BY <1>3 DEF VmInv, VmStackInv
  <2>2. n \in Nat
    BY <1>2
  <2>3. /\ traces_stack' \in Seq(Nat) /\ Len(traces_stack') = k + 1 /\ traces_stack'[k + 1] = n
        /\ \A i \in 1 .. k : traces_stack'[i] = traces_stack[i]
    BY <1>3, <1>6, <2>1, <2>2, AppendLast
  <2>4. \A i \in 1 .. k + 1 : traces_stack'[i] = frames'[i].id
    <3>1. \A i \in 1 .. k + 1 : i = k + 1 \/ i \in 1 .. k
      BY <1>2
    <3>2. QED
      BY <1>12, <2>1, <2>3, <3>1, ZenonT(60)
  <2>5. QED
    <3>1. (k + 1) - 0 = k + 1
      BY <1>2
    <3>2. QED
      BY <1>12, <2>3, <2>4, <3>1, ZenonT(60) DEF VmStackInv
<1>17. QED
  BY <1>15, <1>16 DEF VmInv

\* Every step keeps the stack of the VM traces and their operations.
LEMMA VmStep ==
  ASSUME EvmInv, VmInv, [Next]_vars
  PROVE  VmInv'
<1>1. CASE NewTransaction
  <2>1. /\ frames' = <<>> /\ calls' = <<>> /\ vm' = <<>> /\ traces_stack' = <<>>
        /\ phase' = "starting"
    BY <1>1 DEF NewTransaction, NewTracers
  <2>2. QED
    <3>1. 0 - 0 = 0
      OBVIOUS
    <3>2. VmStackInv'
      BY <2>1, <3>1, NoIndex, ZenonT(60) DEF VmStackInv
    <3>3. VmOpsInv'
      BY <2>1, NoIndex, ZenonT(60) DEF VmOpsInv
    <3>4. QED
      BY <2>1, <3>2, <3>3, NoIndex, ZenonT(60) DEF VmInv
<1>2. CASE Start
  <2>1. phase = "starting" /\ calls = <<>> /\ frames = <<>> /\ ~dangling
    BY <1>2 DEF Start, EvmInv, FramesInv
  <2>2. vm = <<>> /\ traces_stack = <<>>
    <3>1. /\ vm \in Seq(Seq(VmOp)) /\ Len(vm) = 0
          /\ traces_stack \in Seq(Nat) /\ Len(traces_stack) = 0
      <4>1. 0 - 0 = 0
        OBVIOUS
      <4>2. QED
        BY <2>1, <4>1, NoIndex, ZenonT(60) DEF VmInv, VmOpsInv, VmStackInv
    <3>2. QED
      BY <3>1
  <2>3. PICK kind \in Kinds, address \in Addresses \cup {Contract} :
           Enter(kind, address, MaxGas, <<>>)
    BY <1>2, ZenonT(60) DEF Start, Kinds
  <2>4. /\ phase' = "running" /\ UNCHANGED dangling /\ VmStart(1, MaxGas, 0)
        /\ Len(frames') = 1 /\ frames'[1].id = 1 /\ Len(calls') = 1
        /\ calls'[1].status = "open" /\ ops' = Append(ops, <<>>)
    <3> DEFINE frame == [id |-> Len(calls) + 1, kind |-> kind, address |-> address,
                         start |-> MaxGas, gas |-> MaxGas, at |-> "begin"]
               call == [path |-> <<>>, children |-> 0, kind |-> kind,
                        status |-> "open", used |-> 0]
    <3>1. /\ phase' = "running" /\ UNCHANGED dangling
          /\ VmStart(Len(calls) + 1, MaxGas, Len(<<>>)) /\ ops' = Append(ops, <<>>)
          /\ frames' = Append(<<>>, frame) /\ calls' = Append(calls, call)
      BY <2>3, ZenonT(60) DEF Enter
    <3>2. Len(calls) + 1 = 1 /\ Len(<<>>) = 0
      BY <2>1
    <3>3. frame.id = Len(calls) + 1 /\ call.status = "open"
      OBVIOUS
    <3> HIDE DEF frame, call
    <3>4. QED
      BY <2>1, <3>1, <3>2, <3>3, Indices, ZenonT(60)
  <2>5. vm' = << <<>> >> /\ traces_stack' = <<1>>
    BY <2>2, <2>4 DEF VmStart
  <2>6. ops'[1] = <<>>
    <3>1. ops = <<>>
      BY <2>1 DEF EvmInv, FramesInv
    <3>2. QED
      BY <2>4, <3>1
  <2>7. VmOpsInv'
    <3>1. vm'[1] = <<>> /\ Len(vm') = 1 /\ vm' \in Seq(Seq(VmOp))
      BY <2>5
    <3>2. SettledOps(<<>>, <<>>)
      BY DEF SettledOps
    <3>3. QED
      BY <2>4, <2>6, <3>1, <3>2, Indices, ZenonT(60) DEF VmOpsInv
  <2>8. traces_stack' \in Seq(Nat) /\ VmStackInv'
    BY <2>4, <2>5 DEF VmStackInv
  <2>9. QED
    BY <2>7, <2>8 DEF VmInv
<1>3. CASE Call
  <2>1. phase = "running" /\ ~dangling /\ frames # <<>> /\ Half > 0
    BY <1>3 DEF Call, EvmInv, FramesInv
  <2>2. Last(frames) \in Frame
    BY <2>1, TopFrame
  <2>3. Half \in Int /\ Half # 0 /\ Last(frames).address \in Addresses \cup {Contract}
    BY <2>1, <2>2 DEF Half, Frame
  <2>4. ASSUME NEW kind \in Kinds, NEW address \in Addresses \cup {Contract},
               Last(frames).at \in {"call", "callcode", "create"}, Enter(kind, address, Half, frames)
        PROVE  VmInv'
    <3>1. /\ NewFrame(kind, Half) /\ NewCall(kind, Last(frames).id)
          /\ NewOps(Half, Last(frames).id) /\ phase' = "running" /\ UNCHANGED dangling
      BY <2>1, <2>3, <2>4, NestedEffect DEF EvmInv
    <3>2. VmStart(Len(calls) + 1, Half, Len(frames))
      BY <2>4, ZenonT(60) DEF Enter
    <3>3. QED
      BY <2>1, <2>3, <2>4, <3>1, <3>2, VmStartNested
  <2>5. existing \cup alive \subseteq Addresses \cup {Contract}
    BY DEF EvmInv, FramesInv
  <2>6. QED
    BY <1>3, <2>3, <2>4, <2>5 DEF Call, Kinds
<1>4. CASE RewardGranted \/ Transaction
  <2>1. /\ phase \in {"ended", "starting"} /\ phase' = "granted"
        /\ UNCHANGED <<frames, calls, ops, vm, traces_stack, dangling>>
    BY <1>4, ZenonT(60) DEF RewardGranted, Transaction, Grant, vmtrace
  <2>2. frames = <<>>
    BY <2>1, ZenonT(60) DEF EvmInv, FramesInv
  <2>3. traces_stack' \in Seq(Nat) /\ VmStackInv'
    BY <2>1, <2>2 DEF VmInv, VmStackInv
  <2>4. VmOpsInv => VmOpsInv'
    <3>1. \A i \in 1 .. Len(frames') : FALSE
      BY <2>1, <2>2
    <3>2. QED
      BY <2>1, <3>1, ZenonT(60) DEF VmOpsInv
  <2>5. QED
    BY <2>1, <2>3, <2>4 DEF VmInv
<1>5. CASE UNCHANGED vars
  BY <1>5, ZenonT(60) DEF VmInv, VmStackInv, VmOpsInv, Open, vars, evm, vmtrace
<1>6. QED
  BY <1>1, <1>2, <1>3, <1>4, <1>5, VmInstructionStep, VmPrecompiledStep, VmEndStep,
     VmCreationStep DEF Next

\* traces_stack holds the traces of the running frames, and the operations of every trace are
\* those of its frame, as long as on_precompiled_run has not replaced a trace being written.
THEOREM VmInvariant == Spec => []VmInv
<1>1. Init => VmInv
  <2>1. SUFFICES ASSUME Init PROVE VmInv
    OBVIOUS
  <2>2. /\ frames = <<>> /\ calls = <<>> /\ vm = <<>> /\ traces_stack = <<>>
        /\ phase = "idle"
    BY <2>1 DEF Init, NoTracing
  <2>3. /\ \A i \in 1 .. Len(frames) : FALSE
        /\ \A c \in 1 .. Len(calls) : FALSE
        /\ \A i \in 1 .. Len(traces_stack) : FALSE
    BY <2>2
  <2>4. traces_stack \in Seq(Nat) /\ vm \in Seq(Seq(VmOp)) /\ Len(vm) = Len(calls)
    BY <2>2
  <2>5. VmStackInv
    BY <2>2 DEF VmStackInv
  <2>6. VmOpsInv
    BY <2>3, <2>4, ZenonT(60) DEF VmOpsInv
  <2>7. QED
    BY <2>4, <2>5, <2>6 DEF VmInv
<1>2. QED
  BY <1>1, VmStep, EvmInvariant, PTL DEF Spec

\* The operations of a VM trace are the instructions of its own frame, in order and with the gas
\* each left and cost (Cost: with its callee for a CALLCODE or a creation, without it for other
\* calls), whatever calls and creations come between them.
THEOREM OperationsOfFrames == Spec => []OperationsOfOwnFrame
<1>1. EvmInv /\ VmInv => OperationsOfOwnFrame
  <2>1. SUFFICES ASSUME EvmInv, VmInv, phase \in {"ended", "granted"}
                 PROVE  OperationsOfOwnFrame
    BY DEF OperationsOfOwnFrame
  <2>2. /\ frames = <<>> /\ ~dangling /\ ops \in Seq(Seq(Op)) /\ Len(ops) = Len(calls)
        /\ \A c \in 1 .. Len(calls) : calls[c].status # "open"
    <3>1. frames = <<>> /\ ~dangling /\ ops \in Seq(Seq(Op)) /\ Len(ops) = Len(calls)
      BY <2>1 DEF EvmInv, FramesInv
    <3>2. \A c \in 1 .. Len(calls) : calls[c].status # "open"
      BY <2>1, <3>1 DEF EvmInv, CallsInv
    <3>3. QED
      BY <3>1, <3>2
  <2>3. \A c \in 1 .. Len(calls) : EndedOps(vm[c], ops[c])
    BY <2>1, <2>2 DEF VmInv, VmOpsInv
  <2>4. DOMAIN ops = 1 .. Len(calls) /\ \A c \in 1 .. Len(calls) : ops[c] \in Seq(Op)
    BY <2>2
  <2>5. \A c \in 1 .. Len(calls) : DOMAIN ops[c] = 1 .. Len(ops[c])
    BY <2>4
  <2>6. QED
    BY <2>3, <2>4, <2>5, ZenonT(60) DEF OperationsOfOwnFrame, EndedOps, SettledOps
<1>2. QED
  BY <1>1, EvmInvariant, VmInvariant, PTL
=============================================================================
