-------------------------- MODULE EvmTracingProofs --------------------------
(***************************************************************************)
(* Proofs about the EVM of EvmTracing, for every amount of gas, every set  *)
(* of addresses and blocks of any length: how its frames, calls and        *)
(* instructions fit together.  The proofs about the tracers rest on it.    *)
(***************************************************************************)
EXTENDS EvmTracing, TLAPS

\* Time for the larger leaves.
USE SMTT(30), ZenonT(60)

(***************************************************************************)
(* Sequences: the last entry and the rest.                                 *)
(***************************************************************************)
LEMMA SubSeqLen ==
  ASSUME NEW S, NEW s \in Seq(S), NEW n \in Nat, n <= Len(s)
  PROVE  Len(SubSeq(s, 1, n)) = n
OBVIOUS

\* What top() and pop() of a non-empty stack give.
LEMMA LastFront ==
  ASSUME NEW S, NEW s \in Seq(S), s # <<>>
  PROVE  /\ Len(s) \in Nat \ {0} /\ Last(s) \in S /\ Last(s) = s[Len(s)]
         /\ Front(s) \in Seq(S) /\ Len(Front(s)) = Len(s) - 1
         /\ \A i \in 1 .. Len(s) - 1 : Front(s)[i] = s[i]
<1>1. Len(s) \in Nat \ {0} /\ Last(s) \in S /\ Last(s) = s[Len(s)]
  BY DEF Last
<1>2. Front(s) \in Seq(S) /\ \A i \in 1 .. Len(s) - 1 : Front(s)[i] = s[i]
  BY <1>1 DEF Front
<1>3. Len(s) - 1 \in Nat /\ Len(s) - 1 <= Len(s)
  BY <1>1
<1>4. Len(Front(s)) = Len(s) - 1
  BY <1>3, SubSeqLen, ZenonT(60) DEF Front
<1>5. QED
  BY <1>1, <1>2, <1>4

\* Append adds one element at the end and keeps the others.
LEMMA AppendLast ==
  ASSUME NEW S, NEW s \in Seq(S), NEW e \in S
  PROVE  /\ Append(s, e) \in Seq(S) /\ Append(s, e) # <<>>
         /\ Len(Append(s, e)) = Len(s) + 1
         /\ Append(s, e)[Len(s) + 1] = e /\ Last(Append(s, e)) = e
         /\ \A i \in 1 .. Len(s) : Append(s, e)[i] = s[i]
BY DEF Last

\* An entry takes the place of the last one.
LEMMA ReplaceLast ==
  ASSUME NEW S, NEW s \in Seq(S), s # <<>>, NEW e \in S
  PROVE  /\ Append(Front(s), e) \in Seq(S) /\ Append(Front(s), e) # <<>>
         /\ Len(Append(Front(s), e)) = Len(s)
         /\ Append(Front(s), e)[Len(s)] = e /\ Last(Append(Front(s), e)) = e
         /\ \A i \in 1 .. Len(s) - 1 : Append(Front(s), e)[i] = s[i]
<1> DEFINE f == Front(s)
<1>1. /\ f \in Seq(S) /\ Len(f) = Len(s) - 1 /\ Len(s) \in Nat \ {0}
      /\ \A i \in 1 .. Len(s) - 1 : f[i] = s[i]
  BY LastFront
<1> HIDE DEF f
<1>2. /\ Append(f, e) \in Seq(S) /\ Append(f, e) # <<>>
      /\ Len(Append(f, e)) = Len(f) + 1
      /\ Append(f, e)[Len(f) + 1] = e /\ Last(Append(f, e)) = e
      /\ \A i \in 1 .. Len(f) : Append(f, e)[i] = f[i]
  BY <1>1, AppendLast
<1>3. QED
  BY <1>1, <1>2 DEF f

\* An entry takes the place of another.
LEMMA UpdateAt ==
  ASSUME NEW S, NEW s \in Seq(S), NEW k \in 1 .. Len(s), NEW e \in S
  PROVE  /\ [s EXCEPT ![k] = e] \in Seq(S) /\ Len([s EXCEPT ![k] = e]) = Len(s)
         /\ [s EXCEPT ![k] = e][k] = e
         /\ \A i \in 1 .. Len(s) : i # k => [s EXCEPT ![k] = e][i] = s[i]
OBVIOUS

(***************************************************************************)
(* The EVM                                                                 *)
(***************************************************************************)
Phases == {"idle", "starting", "running", "created", "ended", "granted"}
Kinds == {"call", "delegate", "create"}
Ops == {"plain", "call", "callcode", "create", "stop"}
Statuses == {"success", "revert", "out_of_gas", "bad_instruction"}

Frame == [id : Nat, kind : Kinds, address : Addresses \cup {Contract}, start : Int, gas : Int,
          at : Ops \cup {"begin", "called"}]
CallRecord == [path : Seq(Nat), children : Nat, kind : Kinds, status : Statuses \cup {"open"},
               used : Int]
Op == [n : Nat, op : Ops, gas : Int, callee : Int]

\* The call of frame i has not ended: all but the innermost, which may be a creation that has.
Open(i) == ~(phase = "created" /\ i = Len(frames))

FramesInv ==
  /\ phase \in Phases /\ events \in Nat
  /\ existing \subseteq Addresses \cup {Contract} /\ alive \subseteq Addresses \cup {Contract}
  /\ frames \in Seq(Frame) /\ calls \in Seq(CallRecord) /\ ops \in Seq(Seq(Op))
  /\ Len(ops) = Len(calls) /\ (phase \in {"idle", "starting"} => calls = <<>>)
  /\ (frames # <<>>) <=> (phase \in {"running", "created"})
  /\ \A i \in 1 .. Len(frames) : frames[i].id \in 1 .. Len(calls)
  /\ \A i, j \in 1 .. Len(frames) : i < j => frames[i].id < frames[j].id
  /\ frames # <<>> => frames[1].id = 1
  /\ dangling => phase = "running"

CallsInv ==
  /\ \A i \in 1 .. Len(frames) :
        /\ calls[frames[i].id].kind = frames[i].kind
        /\ (calls[frames[i].id].status = "open") <=> Open(i)
  /\ \A c \in 1 .. Len(calls) :
        calls[c].status = "open" => \E i \in 1 .. Len(frames) : frames[i].id = c
  /\ phase = "created" => status = calls[Last(frames).id].status
  /\ phase = "ended" => calls # <<>> /\ status = calls[1].status

\* The instructions of an open frame: the last is the one that the frame is at.
OpsInv ==
  \A i \in 1 .. Len(frames) :
    /\ (frames[i].at = "begin") <=> (ops[frames[i].id] = <<>>)
    /\ i < Len(frames) => frames[i].at # "begin"
    /\ frames[i].at \in Ops => Last(ops[frames[i].id]).op = frames[i].at
    /\ i = Len(frames) /\ frames[i].at \in Ops => Last(ops[frames[i].id]).callee = 0


\* An empty sequence has no index, and every type of elements.
LEMMA NoIndex ==
  /\ Len(<<>>) = 0 /\ 0 \in Nat
  /\ \A S : <<>> \in Seq(S)
  /\ \A i : i \notin 1 .. Len(<<>>)
OBVIOUS

\* The outermost frame begins.
LEMMA EnterOutermost ==
  ASSUME FramesInv, phase = "starting", events' \in Nat, ~dangling,
         NEW kind \in Kinds, NEW address \in Addresses \cup {Contract}, NEW gas \in Int,
         Enter(kind, address, gas, <<>>)
  PROVE  FramesInv' /\ CallsInv' /\ OpsInv'
<1> DEFINE frame == [id |-> 1, kind |-> kind, address |-> address, start |-> gas, gas |-> gas,
                     at |-> "begin"]
           call == [path |-> <<>>, children |-> 0, kind |-> kind, status |-> "open", used |-> 0]
<1>1. calls = <<>> /\ ops = <<>>
  <2>1. ops \in Seq(Seq(Op)) /\ Len(ops) = Len(calls) /\ calls = <<>>
    BY DEF FramesInv
  <2>2. QED
    BY <2>1
<1>2. frame \in Frame /\ call \in CallRecord /\ <<>> \in Seq(Op)
  BY DEF Frame, CallRecord
<1>3. /\ frames' = <<frame>> /\ calls' = <<call>> /\ ops' = << <<>> >> /\ phase' = "running"
      /\ UNCHANGED <<existing, alive, dangling>>
  BY <1>1 DEF Enter
<1> HIDE DEF frame, call
<1>4. FramesInv'
  BY <1>2, <1>3 DEF FramesInv, Phases, frame
<1>5. CallsInv' /\ OpsInv'
  BY <1>2, <1>3 DEF CallsInv, OpsInv, Open, Ops, frame, call
<1>6. QED
  BY <1>4, <1>5


\* What a nested call leaves: a new frame and a new call, one more call of the caller, and the
\* gas it gave away with the caller's last instruction.
NewFrame(kind, gas) ==
  /\ frames' \in Seq(Frame) /\ Len(frames') = Len(frames) + 1
  /\ \A i \in 1 .. Len(frames) : frames'[i] = frames[i]
  /\ LET frame == frames'[Len(frames) + 1]
     IN  /\ frame.id = Len(calls) + 1 /\ frame.kind = kind /\ frame.start = gas
         /\ frame.at = "begin"

NewCall(kind, top) ==
  /\ calls' \in Seq(CallRecord) /\ Len(calls') = Len(calls) + 1
  /\ \A c \in 1 .. Len(calls) : c # top => calls'[c] = calls[c]
  /\ calls'[top] = [calls[top] EXCEPT !.children = @ + 1]
  /\ calls'[Len(calls) + 1] =
        [path |-> Append(calls[top].path, calls[top].children), children |-> 0, kind |-> kind,
         status |-> "open", used |-> 0]

NewOps(gas, top) ==
  /\ ops' \in Seq(Seq(Op)) /\ Len(ops') = Len(calls) + 1 /\ ops'[Len(calls) + 1] = <<>>
  /\ \A c \in 1 .. Len(calls) : c # top => ops'[c] = ops[c]
  /\ ops'[top] = IF Last(frames).at # "call" THEN ops[top]
                 ELSE Append(Front(ops[top]), [Last(ops[top]) EXCEPT !.callee = gas])

\* Enter from a frame: a frame and a call more, counted by the caller, whose call instruction
\* notes the gas it passes on.
LEMMA NestedEffect ==
  ASSUME FramesInv, CallsInv, OpsInv, phase = "running",
         Last(frames).at \in {"call", "callcode", "create"},
         NEW kind \in Kinds, NEW address \in Addresses \cup {Contract}, NEW gas \in Int,
         Enter(kind, address, gas, frames)
  PROVE  /\ NewFrame(kind, gas) /\ NewCall(kind, Last(frames).id) /\ NewOps(gas, Last(frames).id)
         /\ phase' = "running" /\ UNCHANGED <<existing, alive, dangling>>
<1> DEFINE n == Len(calls) + 1
           top == Last(frames).id
           frame == [id |-> n, kind |-> kind, address |-> address, start |-> gas, gas |-> gas,
                     at |-> "begin"]
           call == [path |-> Append(calls[top].path, calls[top].children), children |-> 0,
                    kind |-> kind, status |-> "open", used |-> 0]
           counted == [calls EXCEPT ![top].children = @ + 1]
           noted == IF Last(frames).at # "call" THEN ops
                    ELSE [ops EXCEPT ![top] =
                             Append(Front(@), [Last(@) EXCEPT !.callee = gas])]
<1>1. /\ frames \in Seq(Frame) /\ calls \in Seq(CallRecord) /\ ops \in Seq(Seq(Op))
      /\ Len(ops) = Len(calls) /\ frames # <<>>
  BY DEF FramesInv
<1>2. /\ Last(frames) \in Frame /\ Last(frames) = frames[Len(frames)]
      /\ Len(frames) \in Nat \ {0}
  BY <1>1, LastFront, ZenonT(60)
<1>0. Len(calls) \in Nat /\ n \in Nat
  BY <1>1
<1>3. top \in 1 .. Len(calls) /\ ops[top] \in Seq(Op) /\ calls[top] \in CallRecord
  BY <1>1, <1>2 DEF FramesInv
<1>4. ops[top] # <<>>
  <2>1. Len(frames) \in 1 .. Len(frames)
    BY <1>2
  <2>2. QED
    BY <1>2, <2>1 DEF OpsInv
<1>5. /\ frames' = Append(frames, frame) /\ calls' = Append(counted, call)
      /\ ops' = Append(noted, <<>>) /\ phase' = "running"
      /\ UNCHANGED <<existing, alive, dangling>>
  BY <1>1 DEF Enter
<1>6. frame \in Frame /\ call \in CallRecord /\ <<>> \in Seq(Op)
  <2>1. frame \in Frame
    BY <1>0 DEF Frame
  <2>2. calls[top].path \in Seq(Nat) /\ calls[top].children \in Nat
    BY <1>3 DEF CallRecord
  <2>3. call \in CallRecord
    BY <2>2, AppendLast DEF CallRecord
  <2>4. QED
    BY <2>1, <2>3
<1> DEFINE more == [calls[top] EXCEPT !.children = @ + 1]
           asked == [Last(ops[top]) EXCEPT !.callee = gas]
           called == IF Last(frames).at # "call" THEN ops[top]
                     ELSE Append(Front(ops[top]), asked)
<1>7. /\ counted \in Seq(CallRecord) /\ Len(counted) = Len(calls) /\ counted[top] = more
      /\ \A c \in 1 .. Len(calls) : c # top => counted[c] = calls[c]
  <2>1. more \in CallRecord
    <3>1. calls[top] \in CallRecord /\ calls[top].children + 1 \in Nat
      BY <1>3 DEF CallRecord
    <3>2. QED
      BY <3>1, ZenonT(60) DEF CallRecord
  <2>2. counted = [calls EXCEPT ![top] = more]
    OBVIOUS
  <2> HIDE DEF more, counted
  <2>3. QED
    BY <1>1, <1>3, <2>1, <2>2, UpdateAt
<1>8. /\ noted \in Seq(Seq(Op)) /\ Len(noted) = Len(ops) /\ noted[top] = called
      /\ \A c \in 1 .. Len(ops) : c # top => noted[c] = ops[c]
  <2>1. Last(ops[top]) \in Op
    BY <1>3, <1>4, LastFront
  <2>2. asked \in Op
    BY <2>1 DEF Op
  <2>3. noted = IF Last(frames).at # "call" THEN ops
                ELSE [ops EXCEPT ![top] = Append(Front(ops[top]), asked)]
    OBVIOUS
  <2> HIDE DEF noted, asked
  <2>4. Append(Front(ops[top]), asked) \in Seq(Op)
    BY <1>3, <1>4, <2>2, ReplaceLast
  <2>5. CASE Last(frames).at # "call"
    BY <1>1, <2>3, <2>5
  <2>6. CASE Last(frames).at = "call"
    <3>1. noted = [ops EXCEPT ![top] = called] /\ called \in Seq(Op)
      BY <2>3, <2>4, <2>6
    <3> HIDE DEF called
    <3>2. QED
      BY <1>1, <1>3, <3>1, UpdateAt
  <2>7. QED
    BY <2>5, <2>6
<1>9. frame.id = n /\ frame.at = "begin" /\ frame.kind = kind /\ frame.start = gas
  OBVIOUS
<1> HIDE DEF frame, call, counted, noted, called, more
<1>10. NewFrame(kind, gas)
  <2>1. frames \in Seq(Frame) /\ frame \in Frame
    BY <1>1, <1>6
  <2>2. /\ Append(frames, frame) \in Seq(Frame)
        /\ Len(Append(frames, frame)) = Len(frames) + 1
        /\ Append(frames, frame)[Len(frames) + 1] = frame
        /\ \A i \in 1 .. Len(frames) : Append(frames, frame)[i] = frames[i]
    BY <2>1, AppendLast
  <2>3. QED
    BY <1>5, <1>9, <2>2, ZenonT(60) DEF NewFrame
<1>11. NewCall(kind, top)
  <2>1. /\ calls' \in Seq(CallRecord) /\ Len(calls') = n /\ calls'[n] = call
        /\ \A c \in 1 .. Len(calls) : calls'[c] = counted[c]
    BY <1>1, <1>5, <1>6, <1>7, AppendLast
  <2>2. QED
    BY <1>3, <1>7, <2>1 DEF NewCall, call, more
<1>12. NewOps(gas, top)
  <2>1. /\ ops' \in Seq(Seq(Op)) /\ Len(ops') = n /\ ops'[n] = <<>>
        /\ \A c \in 1 .. Len(calls) : ops'[c] = noted[c]
    BY <1>1, <1>5, <1>6, <1>8, AppendLast
  <2>2. QED
    BY <1>1, <1>3, <1>8, <2>1, ZenonT(60) DEF NewOps, called
<1>13. QED
  BY <1>5, <1>10, <1>11, <1>12

\* A frame begins inside of another, which has asked for a call.
LEMMA EnterNested ==
  ASSUME FramesInv, CallsInv, OpsInv, phase = "running", events' \in Nat, ~dangling,
         Last(frames).at \in {"call", "callcode", "create"},
         NEW kind \in Kinds, NEW address \in Addresses \cup {Contract}, NEW gas \in Int,
         Enter(kind, address, gas, frames)
  PROVE  FramesInv' /\ CallsInv' /\ OpsInv'
<1> DEFINE n == Len(calls) + 1
           top == Last(frames).id
           frame == frames'[Len(frames) + 1]
<1>1. /\ frames \in Seq(Frame) /\ calls \in Seq(CallRecord) /\ ops \in Seq(Seq(Op))
      /\ Len(ops) = Len(calls) /\ frames # <<>> /\ Len(calls) \in Nat
  BY DEF FramesInv
<1>2. /\ Last(frames) \in Frame /\ Last(frames) = frames[Len(frames)]
      /\ Len(frames) \in Nat \ {0}
  BY <1>1, LastFront, ZenonT(60)
<1>3. \A i \in 1 .. Len(frames) : frames[i].id \in 1 .. Len(calls)
  BY DEF FramesInv
<1>4. \A i, j \in 1 .. Len(frames) : i < j => frames[i].id < frames[j].id
  BY DEF FramesInv
<1>5. /\ NewFrame(kind, gas) /\ NewCall(kind, top) /\ NewOps(gas, top)
      /\ phase' = "running" /\ UNCHANGED <<existing, alive, dangling>>
  BY NestedEffect
<1>6. /\ Len(frames') = Len(frames) + 1 /\ frame.id = n /\ frame.at = "begin"
      /\ frame.kind = kind /\ \A i \in 1 .. Len(frames) : frames'[i] = frames[i]
  BY <1>5 DEF NewFrame
<1>7. top \in 1 .. Len(calls) /\ calls[top] \in CallRecord /\ ops[top] \in Seq(Op)
  BY <1>1, <1>2, <1>3
<1>8. /\ Len(calls') = n /\ calls'[n].status = "open" /\ calls'[n].kind = kind
      /\ \A c \in 1 .. Len(calls) : /\ calls'[c].kind = calls[c].kind
                                    /\ calls'[c].status = calls[c].status
  <2> DEFINE more == [calls[top] EXCEPT !.children = @ + 1]
  <2>1. more.kind = calls[top].kind /\ more.status = calls[top].status
    BY <1>7 DEF CallRecord
  <2> HIDE DEF more
  <2>2. /\ Len(calls') = n /\ calls'[n].status = "open" /\ calls'[n].kind = kind
        /\ calls'[top] = more /\ \A c \in 1 .. Len(calls) : c # top => calls'[c] = calls[c]
    BY <1>5 DEF NewCall, more
  <2>3. QED
    BY <2>1, <2>2
<1>9. /\ ops'[n] = <<>>
      /\ \A c \in 1 .. Len(calls) : ops[c] # <<>> => /\ ops'[c] # <<>>
                                                     /\ Last(ops'[c]).op = Last(ops[c]).op
  <2>1. CASE Last(frames).at # "call"
    BY <1>5, <2>1, ZenonT(60) DEF NewOps
  <2>2. CASE Last(frames).at = "call"
    <3> DEFINE asked == [Last(ops[top]) EXCEPT !.callee = gas]
    <3>1. ops[top] # <<>>
      <4>1. Len(frames) \in 1 .. Len(frames)
        BY <1>2
      <4>2. QED
        BY <1>2, <2>2, <4>1 DEF OpsInv
    <3>2. Last(ops[top]) \in Op
      BY <1>7, <3>1, LastFront
    <3>3. asked \in Op /\ asked.op = Last(ops[top]).op
      BY <3>2 DEF Op
    <3>4. ops'[top] = Append(Front(ops[top]), asked)
      BY <1>5, <2>2 DEF NewOps
    <3> HIDE DEF asked
    <3>5. ops'[top] # <<>> /\ Last(ops'[top]) = asked
      BY <1>7, <3>1, <3>3, <3>4, ReplaceLast
    <3>6. ops'[n] = <<>> /\ \A c \in 1 .. Len(calls) : c # top => ops'[c] = ops[c]
      BY <1>5 DEF NewOps
    <3>7. QED
      BY <3>3, <3>5, <3>6
  <2>3. QED
    BY <2>1, <2>2
<1> HIDE DEF top, frame
<1>10. FramesInv'
  <2>1. \A i \in 1 .. Len(frames') : frames'[i].id \in 1 .. Len(calls')
    <3>1. TAKE i \in 1 .. Len(frames')
    <3>2. CASE i \in 1 .. Len(frames)
      <4>1. frames'[i].id = frames[i].id /\ frames[i].id \in 1 .. Len(calls)
        BY <1>3, <1>6, <3>2, ZenonT(60)
      <4>2. QED
        BY <1>1, <1>8, <4>1
    <3>3. CASE i = Len(frames) + 1
      BY <1>1, <1>6, <1>8, <3>3 DEF frame
    <3>4. QED
      BY <1>2, <1>6, <3>2, <3>3
  <2>2. \A i, j \in 1 .. Len(frames') : i < j => frames'[i].id < frames'[j].id
    <3>1. TAKE i, j \in 1 .. Len(frames')
    <3>2. HAVE i < j
    <3>3. i \in 1 .. Len(frames) /\ (j \in 1 .. Len(frames) \/ j = Len(frames) + 1)
      BY <1>2, <1>6, <3>2
    <3>4. frames'[i].id = frames[i].id /\ frames[i].id \in 1 .. Len(calls)
      BY <1>3, <1>6, <3>3
    <3>5. CASE j \in 1 .. Len(frames)
      BY <1>4, <1>6, <3>2, <3>3, <3>4, <3>5
    <3>6. CASE j = Len(frames) + 1
      BY <1>1, <1>6, <3>4, <3>6 DEF frame
    <3>7. QED
      BY <3>3, <3>5, <3>6
  <2>3. frames'[1].id = 1 /\ frames' # <<>>
    BY <1>1, <1>2, <1>6 DEF FramesInv
  <2>4. frames' \in Seq(Frame) /\ calls' \in Seq(CallRecord) /\ ops' \in Seq(Seq(Op))
    BY <1>5 DEF NewFrame, NewCall, NewOps
  <2>5. Len(ops') = Len(calls')
    BY <1>5 DEF NewCall, NewOps
  <2>6. QED
    BY <1>5, <2>1, <2>2, <2>3, <2>4, <2>5 DEF FramesInv, Phases
<1>11. CallsInv'
  <2>1. \A i \in 1 .. Len(frames) : /\ calls'[frames[i].id].status = "open"
                                    /\ calls'[frames[i].id].kind = frames[i].kind
    BY <1>3, <1>8, ZenonT(60) DEF CallsInv, Open
  <2>2. \A i \in 1 .. Len(frames') : /\ calls'[frames'[i].id].kind = frames'[i].kind
                                     /\ calls'[frames'[i].id].status = "open"
    <3>1. TAKE i \in 1 .. Len(frames')
    <3>2. CASE i \in 1 .. Len(frames)
      <4>1. frames'[i] = frames[i]
        BY <1>6, <3>2
      <4>2. QED
        BY <2>1, <3>2, <4>1
    <3>3. CASE i = Len(frames) + 1
      <4>1. frames'[i] = frame
        BY <3>3 DEF frame
      <4>2. QED
        BY <1>6, <1>8, <4>1
    <3>4. QED
      BY <1>2, <1>6, <3>2, <3>3
  <2>3. ASSUME NEW c \in 1 .. Len(calls'), calls'[c].status = "open"
        PROVE  \E i \in 1 .. Len(frames') : frames'[i].id = c
    <3>1. CASE c = n
      <4>1. Len(frames) + 1 \in 1 .. Len(frames')
        BY <1>2, <1>6
      <4>2. QED
        BY <1>6, <3>1, <4>1 DEF frame
    <3>2. CASE c \in 1 .. Len(calls)
      <4>1. PICK i \in 1 .. Len(frames) : frames[i].id = c
        BY <1>8, <2>3, <3>2 DEF CallsInv
      <4>2. i \in 1 .. Len(frames') /\ frames'[i].id = c
        BY <1>2, <1>6, <4>1
      <4>3. QED
        BY <4>2
    <3>3. QED
      BY <1>1, <1>8, <3>1, <3>2
  <2>4. QED
    BY <1>5, <2>2, <2>3 DEF CallsInv, Open
<1>12. OpsInv'
  <2>1. \A i \in 1 .. Len(frames) : frames[i].at # "begin" /\ ops[frames[i].id] # <<>>
    BY <1>2 DEF OpsInv
  <2>2. \A i \in 1 .. Len(frames) : /\ ops'[frames[i].id] # <<>>
                                    /\ Last(ops'[frames[i].id]).op = Last(ops[frames[i].id]).op
    BY <1>3, <1>9, <2>1
  <2>3. QED
    <3> SUFFICES ASSUME NEW i \in 1 .. Len(frames')
                 PROVE  /\ (frames'[i].at = "begin") <=> (ops'[frames'[i].id] = <<>>)
                        /\ i < Len(frames') => frames'[i].at # "begin"
                        /\ frames'[i].at \in Ops
                             => Last(ops'[frames'[i].id]).op = frames'[i].at
                        /\ i = Len(frames') /\ frames'[i].at \in Ops
                             => Last(ops'[frames'[i].id]).callee = 0
      BY DEF OpsInv
    <3>1. Len(frames') = Len(frames) + 1 /\ Len(frames) \in Nat
      BY <1>2, <1>6, ZenonT(60)
    <3>2. \/ i \in 1 .. Len(frames) /\ i # Len(frames')
          \/ i = Len(frames) + 1 /\ ~(i < Len(frames'))
      BY <3>1
    <3>3. CASE i \in 1 .. Len(frames) /\ i # Len(frames')
      BY <1>6, <2>1, <2>2, <3>3, ZenonT(60) DEF OpsInv
    <3>4. CASE i = Len(frames) + 1 /\ ~(i < Len(frames'))
      BY <1>6, <1>9, <3>4, ZenonT(60) DEF Ops, frame
    <3> QED BY <3>2, <3>3, <3>4, ZenonT(60)
<1>13. QED
  BY <1>10, <1>11, <1>12

\* The innermost frame goes on.
LEMMA ReplaceTop ==
  ASSUME frames \in Seq(Frame), frames # <<>>,
         NEW f \in Frame, f.id = Last(frames).id, f.kind = Last(frames).kind,
         f.start = Last(frames).start,
         frames' = Append(Front(frames), f)
  PROVE  /\ frames' \in Seq(Frame) /\ frames' # <<>> /\ Len(frames') = Len(frames)
         /\ Last(frames') = f /\ frames'[Len(frames)] = f
         /\ \A i \in 1 .. Len(frames) - 1 : frames'[i] = frames[i]
         /\ \A i \in 1 .. Len(frames) : /\ frames'[i].id = frames[i].id
                                        /\ frames'[i].kind = frames[i].kind
                                        /\ frames'[i].start = frames[i].start
<1>1. /\ Append(Front(frames), f) \in Seq(Frame) /\ Append(Front(frames), f) # <<>>
      /\ Len(Append(Front(frames), f)) = Len(frames)
      /\ Append(Front(frames), f)[Len(frames)] = f /\ Last(Append(Front(frames), f)) = f
      /\ \A i \in 1 .. Len(frames) - 1 : Append(Front(frames), f)[i] = frames[i]
  BY ReplaceLast
<1>2. /\ frames' \in Seq(Frame) /\ frames' # <<>> /\ Len(frames') = Len(frames)
      /\ frames'[Len(frames)] = f /\ Last(frames') = f
      /\ \A i \in 1 .. Len(frames) - 1 : frames'[i] = frames[i]
  BY <1>1, ZenonT(60)
<1>3. Len(frames) \in Nat \ {0} /\ Last(frames) = frames[Len(frames)]
  BY LastFront
<1>4. \A i \in 1 .. Len(frames) : /\ frames'[i].id = frames[i].id
                                  /\ frames'[i].kind = frames[i].kind
                                  /\ frames'[i].start = frames[i].start
  BY <1>2, <1>3
<1>5. QED
  BY <1>2, <1>4

\* An instruction of the innermost frame, or its call of a precompiled contract.
LEMMA StepInTop ==
  ASSUME FramesInv, CallsInv, OpsInv, phase = "running", events' \in Nat,
         NEW f \in Frame, f.id = Last(frames).id, f.kind = Last(frames).kind,
         f.start = Last(frames).start, f.at # "begin",
         NEW s \in Seq(Op), s # <<>>,
         f.at \in Ops => Last(s).op = f.at /\ Last(s).callee = 0,
         frames' = Append(Front(frames), f),
         ops' = [ops EXCEPT ![f.id] = s],
         UNCHANGED <<phase, calls, existing, alive, status>>
  PROVE  FramesInv' /\ CallsInv' /\ OpsInv'
<1>1. /\ frames \in Seq(Frame) /\ ops \in Seq(Seq(Op)) /\ calls \in Seq(CallRecord)
      /\ Len(ops) = Len(calls) /\ frames # <<>>
  BY DEF FramesInv
<1>2. /\ frames' \in Seq(Frame) /\ frames' # <<>> /\ Len(frames') = Len(frames)
      /\ Last(frames') = f /\ frames'[Len(frames)] = f
      /\ \A i \in 1 .. Len(frames) - 1 : frames'[i] = frames[i]
      /\ \A i \in 1 .. Len(frames) : /\ frames'[i].id = frames[i].id
                                     /\ frames'[i].kind = frames[i].kind
  BY <1>1, ReplaceTop
<1>p. /\ Len(frames') = Len(frames)
      /\ \A i \in 1 .. Len(frames) : frames'[i].id = frames[i].id
  BY <1>2
<1>3. Len(frames) \in Nat \ {0} /\ Last(frames) = frames[Len(frames)]
  BY <1>1, LastFront, ZenonT(60)
<1>4. /\ \A i \in 1 .. Len(frames) : frames[i].id \in 1 .. Len(calls)
      /\ \A i, j \in 1 .. Len(frames) : i < j => frames[i].id < frames[j].id
      /\ frames[1].id = 1
  BY <1>1, ZenonT(60) DEF FramesInv
<1>5. f.id \in 1 .. Len(ops)
  BY <1>1, <1>3, <1>4
<1>6. /\ ops' \in Seq(Seq(Op)) /\ Len(ops') = Len(ops) /\ ops'[f.id] = s
      /\ \A c \in 1 .. Len(ops) : c # f.id => ops'[c] = ops[c]
  BY <1>1, <1>5, UpdateAt
<1>7. FramesInv'
  <2>1. /\ \A i \in 1 .. Len(frames') : frames'[i].id \in 1 .. Len(calls')
        /\ \A i, j \in 1 .. Len(frames') : i < j => frames'[i].id < frames'[j].id
        /\ frames'[1].id = 1
    BY <1>p, <1>3, <1>4
  <2>2. QED
    BY <1>1, <1>2, <1>6, <2>1, ZenonT(60) DEF FramesInv
<1>8. CallsInv'
  <2>1. \A i \in 1 .. Len(frames') : /\ calls'[frames'[i].id].kind = frames'[i].kind
                                      /\ calls'[frames'[i].id].status = "open"
    BY <1>2 DEF CallsInv, Open
  <2>2. \A c \in 1 .. Len(calls') :
           calls'[c].status = "open" => \E i \in 1 .. Len(frames') : frames'[i].id = c
    <3>1. calls' = calls
      OBVIOUS
    <3>2. TAKE c \in 1 .. Len(calls')
    <3>3. HAVE calls'[c].status = "open"
    <3>4. PICK i \in 1 .. Len(frames) : frames[i].id = c
      BY <3>1, <3>3 DEF CallsInv
    <3>5. QED
      BY <1>p, <3>4
  <2>3. QED
    BY <2>1, <2>2 DEF CallsInv, Open
<1>9. OpsInv'
  <2>1. \A i \in 1 .. Len(frames) - 1 : frames[i].id # f.id /\ frames[i].id \in 1 .. Len(ops)
    <3>1. TAKE i \in 1 .. Len(frames) - 1
    <3>2. i \in 1 .. Len(frames) /\ Len(frames) \in 1 .. Len(frames) /\ i < Len(frames)
      BY <1>3
    <3>3. frames[i].id \in 1 .. Len(ops)
      BY <1>1, <1>4, <3>2
    <3>4. frames[i].id < f.id
      BY <1>3, <1>4, <3>2
    <3>5. QED
      BY <1>5, <3>3, <3>4
  <2>2. SUFFICES ASSUME NEW i \in 1 .. Len(frames')
                 PROVE  /\ (frames'[i].at = "begin") <=> (ops'[frames'[i].id] = <<>>)
                        /\ i < Len(frames') => frames'[i].at # "begin"
                        /\ frames'[i].at \in Ops
                             => Last(ops'[frames'[i].id]).op = frames'[i].at
                        /\ i = Len(frames') /\ frames'[i].at \in Ops
                             => Last(ops'[frames'[i].id]).callee = 0
    BY DEF OpsInv
  <2>3. CASE i = Len(frames)
    BY <1>2, <1>6, <2>3
  <2>4. CASE i \in 1 .. Len(frames) - 1
    <3>1. i \in 1 .. Len(frames) /\ i < Len(frames) /\ i # Len(frames)
      BY <1>3, <2>4
    <3>2. frames'[i] = frames[i] /\ ops'[frames[i].id] = ops[frames[i].id]
      BY <1>2, <1>6, <2>1, <2>4
    <3>3. QED
      BY <1>p, <3>1, <3>2 DEF OpsInv
  <2>5. i = Len(frames) \/ i \in 1 .. Len(frames) - 1
    <3>1. Len(frames') = Len(frames) /\ Len(frames) \in Nat \ {0}
      BY <1>p, <1>3, ZenonT(60)
    <3>2. QED
      BY <2>2, <3>1
  <2>6. QED
    BY <2>3, <2>4, <2>5, ZenonT(60)
<1>10. QED
  BY <1>7, <1>8, <1>9


\* The innermost frame ends: its caller goes on, if there is one.
LEMMA ReturnFrames ==
  ASSUME frames \in Seq(Frame), frames # <<>>, NEW used \in Int, Return(used)
  PROVE  /\ frames' \in Seq(Frame) /\ Len(frames') = Len(frames) - 1
         /\ frames' = <<>> => phase' = "ended"
         /\ frames' # <<>> => phase' = "running"
         /\ \A i \in 1 .. Len(frames) - 1 : /\ frames'[i].id = frames[i].id
                                            /\ frames'[i].kind = frames[i].kind
                                            /\ frames'[i].start = frames[i].start
         /\ \A i \in 1 .. Len(frames) - 2 : frames'[i] = frames[i]
         /\ Len(frames) > 1 => frames'[Len(frames) - 1].at = "called"
<1> DEFINE rest == Front(frames)
           caller == frames[Len(frames) - 1]
           f == [caller EXCEPT !.gas = @ - used, !.at = "called"]
<1>1. /\ Len(frames) \in Nat \ {0} /\ rest \in Seq(Frame) /\ Len(rest) = Len(frames) - 1
      /\ \A i \in 1 .. Len(frames) - 1 : rest[i] = frames[i]
  BY LastFront
<1>2. CASE Len(frames) = 1
  BY <1>2 DEF Return
<1>3. CASE Len(frames) # 1
  <2>1. caller \in Frame
    BY <1>1, <1>3
  <2>2. /\ f \in Frame /\ f.id = caller.id /\ f.kind = caller.kind /\ f.start = caller.start
        /\ f.at = "called"
    <3>1. caller.gas - used \in Int /\ "called" \in Ops \cup {"begin", "called"}
      BY <2>1 DEF Frame
    <3>2. QED
      BY <2>1, <3>1, ZenonT(60) DEF Frame
  <2>3. frames' = Append(Front(rest), f) /\ phase' = "running"
    BY <1>3 DEF Return
  <2> HIDE DEF rest, f, caller
  <2>4. rest # <<>>
    BY <1>1, <1>3
  <2>5. /\ Append(Front(rest), f) \in Seq(Frame) /\ Append(Front(rest), f) # <<>>
        /\ Len(Append(Front(rest), f)) = Len(rest)
        /\ Append(Front(rest), f)[Len(rest)] = f
        /\ \A i \in 1 .. Len(rest) - 1 : Append(Front(rest), f)[i] = rest[i]
    <3>1. rest \in Seq(Frame) /\ f \in Frame
      BY <1>1, <2>2
    <3>2. QED
      BY <2>4, <3>1, ReplaceLast
  <2>6. /\ frames' \in Seq(Frame) /\ frames' # <<>> /\ Len(frames') = Len(rest)
        /\ frames'[Len(rest)] = f /\ \A i \in 1 .. Len(rest) - 1 : frames'[i] = rest[i]
    BY <2>3, <2>5, ZenonT(60)
  <2>7. \A i \in 1 .. Len(frames) - 2 : frames'[i] = frames[i]
    BY <1>1, <2>6
  <2>8. frames'[Len(frames) - 1].at = "called"
    BY <1>1, <2>2, <2>6
  <2>9. \A i \in 1 .. Len(frames) - 1 : /\ frames'[i].id = frames[i].id
                                        /\ frames'[i].kind = frames[i].kind
                                        /\ frames'[i].start = frames[i].start
    <3>1. TAKE i \in 1 .. Len(frames) - 1
    <3>2. CASE i = Len(frames) - 1
      <4>1. frames'[i] = f /\ frames[i] = caller
        BY <1>1, <2>6, <3>2 DEF caller
      <4>2. QED
        BY <2>2, <4>1
    <3>3. CASE i \in 1 .. Len(frames) - 2
      BY <2>7, <3>3, ZenonT(60)
    <3>4. QED
      BY <1>1, <3>2, <3>3
  <2>10. QED
    BY <1>1, <2>3, <2>6, <2>7, <2>8, <2>9
<1>4. QED
  BY <1>2, <1>3


\* The call of the innermost frame has ended and the frame is left.
LEMMA LeaveTop ==
  ASSUME FramesInv, CallsInv, OpsInv, phase \in {"running", "created"}, ~dangling,
         NEW used \in Int, Return(used),
         NEW call \in CallRecord, call.status # "open", status' = call.status,
         call.kind = Last(frames).kind,
         calls' = [calls EXCEPT ![Last(frames).id] = call],
         UNCHANGED <<ops, existing, alive, events, dangling>>
  PROVE  FramesInv' /\ CallsInv' /\ OpsInv'
<1> DEFINE top == Last(frames).id
           n == Len(frames)
<1>1. /\ frames \in Seq(Frame) /\ ops \in Seq(Seq(Op)) /\ calls \in Seq(CallRecord)
      /\ Len(ops) = Len(calls) /\ frames # <<>>
  BY DEF FramesInv
<1>2. n \in Nat \ {0} /\ Last(frames) = frames[n]
  BY <1>1, LastFront, ZenonT(60)
<1>3. /\ frames' \in Seq(Frame) /\ Len(frames') = n - 1
      /\ frames' = <<>> => phase' = "ended"
      /\ frames' # <<>> => phase' = "running"
      /\ \A i \in 1 .. n - 1 : frames'[i].id = frames[i].id /\ frames'[i].kind = frames[i].kind
      /\ \A i \in 1 .. n - 2 : frames'[i] = frames[i]
      /\ n > 1 => frames'[n - 1].at = "called"
  BY <1>1, ReturnFrames, ZenonT(60)
<1>4. /\ \A i \in 1 .. n : frames[i].id \in 1 .. Len(calls)
      /\ \A i, j \in 1 .. n : i < j => frames[i].id < frames[j].id
      /\ frames[1].id = 1
  BY <1>1, ZenonT(60) DEF FramesInv
<1>5. top \in 1 .. Len(calls)
  BY <1>2, <1>4
<1>6. /\ calls' \in Seq(CallRecord) /\ Len(calls') = Len(calls) /\ calls'[top] = call
      /\ \A c \in 1 .. Len(calls) : c # top => calls'[c] = calls[c]
  BY <1>1, <1>5, UpdateAt
<1> HIDE DEF top, n
<1>p. /\ Len(frames') = n - 1 /\ \A i \in 1 .. n - 1 : frames'[i].id = frames[i].id
      /\ Len(calls') = Len(calls)
  BY <1>3, <1>6
<1>7. \A i \in 1 .. n - 1 : frames[i].id # top /\ frames[i].id \in 1 .. Len(calls)
  <2>1. TAKE i \in 1 .. n - 1
  <2>2. i \in 1 .. n /\ n \in 1 .. n /\ i < n
    BY <1>2
  <2>3. frames[i].id < top /\ frames[i].id \in 1 .. Len(calls)
    BY <1>2, <1>4, <2>2 DEF top
  <2>4. QED
    BY <1>5, <2>3
<1>8. (frames' # <<>>) <=> (phase' \in {"running", "created"})
  BY <1>3
<1>9. FramesInv'
  <2>1. /\ \A i \in 1 .. Len(frames') : frames'[i].id \in 1 .. Len(calls')
        /\ \A i, j \in 1 .. Len(frames') : i < j => frames'[i].id < frames'[j].id
    <3>1. \A i \in 1 .. Len(frames') : i \in 1 .. n /\ frames'[i].id = frames[i].id
      BY <1>2, <1>p
    <3>2. QED
      BY <1>4, <1>p, <3>1
  <2>2. frames' # <<>> => 1 \in 1 .. n - 1
    BY <1>2, <1>3
  <2>3. frames' # <<>> => frames'[1].id = 1
    BY <1>4, <1>p, <2>2
  <2>4. phase' \in {"running", "ended"}
    BY <1>3
  <2>5. QED
    BY <1>1, <1>3, <1>6, <1>8, <2>1, <2>3, <2>4, ZenonT(60) DEF FramesInv, Phases
<1>10. CallsInv'
  <2>1. \A i \in 1 .. n - 1 : /\ calls[frames[i].id].kind = frames[i].kind
                              /\ calls[frames[i].id].status = "open"
    <3>1. TAKE i \in 1 .. n - 1
    <3>2. i \in 1 .. n /\ i # n
      BY <1>2
    <3>3. QED
      BY <3>2, ZenonT(60) DEF CallsInv, Open, n
  <2>2. \A i \in 1 .. Len(frames') : /\ calls'[frames'[i].id].kind = frames'[i].kind
                                     /\ calls'[frames'[i].id].status = "open"
    <3>1. TAKE i \in 1 .. Len(frames')
    <3>2. i \in 1 .. n - 1
      BY <1>p
    <3>3. frames'[i].id = frames[i].id /\ frames'[i].kind = frames[i].kind
      BY <1>3, <3>2, ZenonT(60)
    <3>4. calls'[frames[i].id] = calls[frames[i].id]
      BY <1>6, <1>7, <3>2, ZenonT(60)
    <3>5. QED
      BY <2>1, <3>2, <3>3, <3>4, ZenonT(60)
  <2>3. ASSUME NEW c \in 1 .. Len(calls'), calls'[c].status = "open"
        PROVE  \E i \in 1 .. Len(frames') : frames'[i].id = c
    <3>1. c \in 1 .. Len(calls) /\ c # top /\ calls[c].status = "open"
      BY <1>6, <2>3
    <3>2. PICK i \in 1 .. n : frames[i].id = c
      BY <3>1, ZenonT(60) DEF CallsInv, n
    <3>3. i \in 1 .. n - 1
      BY <1>2, <3>1, <3>2 DEF top
    <3>4. QED
      BY <1>p, <3>2, <3>3
  <2>4. phase' = "ended" => calls' # <<>> /\ status' = calls'[1].status
    <3>1. HAVE phase' = "ended"
    <3>2. frames' = <<>> /\ Len(frames') = 0
      BY <1>3, <3>1, ZenonT(60)
    <3>3. n = 1
      BY <1>2, <1>p, <3>2
    <3>4. top = 1
      BY <1>2, <1>4, <3>3 DEF top
    <3>5. QED
      BY <1>5, <1>6, <3>4
  <2>5. phase' # "created"
    BY <1>3
  <2>6. QED
    BY <2>2, <2>3, <2>4, <2>5 DEF CallsInv, Open
<1>11. OpsInv'
  <2>1. ops' = ops
    OBVIOUS
  <2>2. SUFFICES ASSUME NEW i \in 1 .. Len(frames')
                 PROVE  /\ (frames'[i].at = "begin") <=> (ops'[frames'[i].id] = <<>>)
                        /\ i < Len(frames') => frames'[i].at # "begin"
                        /\ frames'[i].at \in Ops
                             => Last(ops'[frames'[i].id]).op = frames'[i].at
                        /\ i = Len(frames') /\ frames'[i].at \in Ops
                             => Last(ops'[frames'[i].id]).callee = 0
    BY DEF OpsInv
  <2>3. i \in 1 .. n /\ i < n /\ (i = n - 1 \/ i \in 1 .. n - 2)
    BY <1>2, <1>p
  <2>4. frames[i].at # "begin" /\ ops[frames[i].id] # <<>>
    BY <2>3 DEF OpsInv, n
  <2>5. CASE i = n - 1
    <3>1. frames'[i].at = "called" /\ frames'[i].id = frames[i].id /\ Len(frames') = i
      BY <1>2, <1>3, <2>3, <2>5
    <3>2. QED
      BY <2>1, <2>4, <3>1 DEF Ops
  <2>6. CASE i \in 1 .. n - 2
    <3>1. frames'[i] = frames[i] /\ i < Len(frames') /\ i # Len(frames')
      BY <1>2, <1>3, <2>6
    <3>2. QED
      BY <2>1, <2>3, <2>4, <3>1 DEF OpsInv, n
  <2>7. QED
    BY <2>3, <2>5, <2>6, ZenonT(60)
<1>12. QED
  BY <1>9, <1>10, <1>11


\* The EVM as the tracers see it.
EvmInv == FramesInv /\ CallsInv /\ OpsInv

\* Nothing runs before the first transaction.
LEMMA EvmInit == Init => EvmInv
<1>1. SUFFICES ASSUME Init PROVE EvmInv
  OBVIOUS
<1>2. /\ frames = <<>> /\ calls = <<>> /\ ops = <<>> /\ phase = "idle" /\ dangling = FALSE
      /\ events = 0 /\ existing \subseteq Addresses \cup {Contract} /\ alive \subseteq Addresses
  BY <1>1 DEF Init, NoTracing
<1>3. FramesInv
  BY <1>2, NoIndex, ZenonT(60) DEF FramesInv, Phases
<1>4. CallsInv /\ OpsInv
  BY <1>2, NoIndex, ZenonT(60) DEF CallsInv, OpsInv
<1>5. QED
  BY <1>3, <1>4 DEF EvmInv

\* on_execution_start of the outermost frame.
LEMMA EvmStart ==
  ASSUME EvmInv, Start
  PROVE  EvmInv'
<1>1. phase = "starting" /\ events' \in Nat /\ ~dangling
  BY DEF Start, Event, EvmInv, FramesInv
<1>2. MaxGas \in Int
  BY GasAssumption
<1>3. CASE Enter("call", Contract, MaxGas, <<>>)
  BY <1>1, <1>2, <1>3, EnterOutermost DEF EvmInv, Kinds
<1>4. ASSUME NEW address \in Addresses, Enter("create", address, MaxGas, <<>>)
      PROVE  EvmInv'
  BY <1>1, <1>2, <1>4, EnterOutermost DEF EvmInv, Kinds
<1>5. QED
  BY <1>3, <1>4 DEF Start

\* on_execution_start of a nested call or creation.
LEMMA EvmCall ==
  ASSUME EvmInv, Call
  PROVE  EvmInv'
<1>1. phase = "running" /\ events' \in Nat /\ ~dangling
  BY DEF Call, Event, EvmInv, FramesInv
<1>2. frames \in Seq(Frame) /\ frames # <<>>
  BY <1>1 DEF EvmInv, FramesInv
<1>3. Last(frames) \in Frame
  BY <1>2, LastFront
<1>4. Half \in Int /\ Last(frames).address \in Addresses \cup {Contract}
  BY <1>3 DEF Half, Frame
<1>5. ASSUME Last(frames).at = "call", NEW address \in existing \cup alive,
             Enter("call", address, Half, frames)
      PROVE  EvmInv'
  <2>1. address \in Addresses \cup {Contract} /\ "call" \in Kinds
    BY DEF EvmInv, FramesInv, Kinds
  <2>2. QED
    BY <1>1, <1>4, <1>5, <2>1, EnterNested DEF EvmInv
<1>6. ASSUME Last(frames).at \in {"call", "callcode"},
             Enter("delegate", Last(frames).address, Half, frames)
      PROVE  EvmInv'
  <2>1. "delegate" \in Kinds
    BY DEF Kinds
  <2>2. QED
    BY <1>1, <1>4, <1>6, <2>1, EnterNested DEF EvmInv
<1>7. ASSUME Last(frames).at = "create", NEW address \in Addresses,
             Enter("create", address, Half, frames)
      PROVE  EvmInv'
  <2>1. address \in Addresses \cup {Contract} /\ "create" \in Kinds
    BY DEF Kinds
  <2>2. QED
    BY <1>1, <1>4, <1>7, <2>1, EnterNested DEF EvmInv
<1>8. QED
  BY <1>5, <1>6, <1>7 DEF Call


\* The innermost frame of a running EVM, and its instructions.
LEMMA TopFrame ==
  ASSUME EvmInv, frames # <<>>
  PROVE  /\ frames \in Seq(Frame) /\ calls \in Seq(CallRecord) /\ ops \in Seq(Seq(Op))
         /\ Len(frames) \in Nat \ {0} /\ Last(frames) = frames[Len(frames)]
         /\ Last(frames) \in Frame /\ Last(frames).id \in 1 .. Len(calls)
         /\ Len(ops) = Len(calls) /\ Len(calls) \in Nat
         /\ ops[Last(frames).id] \in Seq(Op) /\ calls[Last(frames).id] \in CallRecord
<1>1. /\ frames \in Seq(Frame) /\ calls \in Seq(CallRecord) /\ ops \in Seq(Seq(Op))
      /\ Len(ops) = Len(calls)
      /\ \A i \in 1 .. Len(frames) : frames[i].id \in 1 .. Len(calls)
  BY DEF EvmInv, FramesInv
<1>2. /\ Len(frames) \in Nat \ {0} /\ Last(frames) = frames[Len(frames)]
      /\ Last(frames) \in Frame
  BY <1>1, LastFront
<1>3. Last(frames).id \in 1 .. Len(calls)
  BY <1>1, <1>2
<1>4. ops[Last(frames).id] \in Seq(Op) /\ calls[Last(frames).id] \in CallRecord
  BY <1>1, <1>3
<1>5. Len(calls) \in Nat
  BY <1>1
<1>6. QED
  BY <1>1, <1>2, <1>3, <1>4, <1>5

\* The calls of the outer frames are others than that of the innermost.
LEMMA OuterCalls ==
  ASSUME EvmInv, NEW i \in 1 .. Len(frames), i # Len(frames)
  PROVE  frames[i].id \in 1 .. Len(calls) /\ frames[i].id # Last(frames).id
<1>1. frames # <<>>
  OBVIOUS
<1>2. Len(frames) \in Nat \ {0} /\ Last(frames) = frames[Len(frames)] /\ Last(frames).id \in Int
  BY <1>1, TopFrame
<1>3. i < Len(frames) /\ Len(frames) \in 1 .. Len(frames)
  BY <1>2
<1>4. frames[i].id < frames[Len(frames)].id /\ frames[i].id \in 1 .. Len(calls)
  BY <1>3 DEF EvmInv, FramesInv
<1>5. QED
  BY <1>2, <1>4

\* on_instruction_start in the innermost frame.
LEMMA EvmInstruction ==
  ASSUME EvmInv, Instruction
  PROVE  EvmInv'
<1> DEFINE top == Last(frames)
<1>1. phase = "running" /\ events' \in Nat /\ events \in Nat /\ frames # <<>>
  <2>1. phase = "running" /\ events' = events + 1 /\ FramesInv
    BY ZenonT(60) DEF Instruction, Event, EvmInv
  <2>2. events \in Nat /\ frames # <<>>
    BY <2>1, ZenonT(60) DEF FramesInv
  <2>3. QED
    BY <2>1, <2>2
<1>2. top \in Frame /\ ops[top.id] \in Seq(Op)
  BY <1>1, TopFrame
<1>3. PICK op \in Ops :
        /\ frames' = Append(Front(frames), [top EXCEPT !.gas = @ - 1, !.at = op])
        /\ ops' = [ops EXCEPT ![top.id] = Append(@, [n |-> events, op |-> op,
                                                     gas |-> top.gas, callee |-> 0])]
  BY ZenonT(60) DEF Instruction, Ops
<1>4. UNCHANGED <<phase, calls, existing, alive, status>>
  BY DEF Instruction
<1> DEFINE f == [top EXCEPT !.gas = @ - 1, !.at = op]
           instruction == [n |-> events, op |-> op, gas |-> top.gas, callee |-> 0]
           s == Append(ops[top.id], instruction)
<1>5. top.gas - 1 \in Int /\ top.gas \in Int
  BY <1>2 DEF Frame
<1>6. /\ f \in Frame /\ f.id = top.id /\ f.kind = top.kind /\ f.start = top.start
      /\ f.at = op /\ op # "begin"
  BY <1>2, <1>5, ZenonT(60) DEF Frame, Ops
<1>7. instruction \in Op
  <2>1. 0 \in Int
    OBVIOUS
  <2>2. QED
    BY <1>1, <1>5, <2>1, ZenonT(60) DEF Op
<1>8. instruction.op = op /\ instruction.callee = 0
  OBVIOUS
<1>9. ops' = [ops EXCEPT ![top.id] = s]
  BY <1>3
<1>10. frames' = Append(Front(frames), f)
  BY <1>3
<1> HIDE DEF f, instruction
<1>11. s \in Seq(Op) /\ s # <<>> /\ Last(s) = instruction
  BY <1>2, <1>7, AppendLast
<1> HIDE DEF s, top
<1>12. FramesInv /\ CallsInv /\ OpsInv
  BY DEF EvmInv
<1>13. FramesInv' /\ CallsInv' /\ OpsInv'
  BY <1>1, <1>4, <1>6, <1>8, <1>9, <1>10, <1>11, <1>12, StepInTop, ZenonT(60) DEF top
<1>14. QED
  BY <1>13 DEF EvmInv

\* on_precompiled_run: a call without a frame.
LEMMA EvmPrecompiled ==
  ASSUME EvmInv, Precompiled
  PROVE  EvmInv'
<1> DEFINE top == Last(frames)
           f == [top EXCEPT !.gas = @ - 1, !.at = "called"]
           instruction == [Last(ops[top.id]) EXCEPT !.callee = Half]
           s == Append(Front(ops[top.id]), instruction)
<1>1. /\ phase = "running" /\ events' \in Nat /\ events \in Nat /\ frames # <<>>
      /\ top.at \in {"call", "callcode"}
  <2>1. /\ phase = "running" /\ top.at \in {"call", "callcode"}
        /\ events' = events + 1 /\ FramesInv
    BY ZenonT(60) DEF Precompiled, Event, EvmInv
  <2>2. events \in Nat /\ frames # <<>>
    BY <2>1, ZenonT(60) DEF FramesInv
  <2>3. QED
    BY <2>1, <2>2
<1>2. /\ top \in Frame /\ ops[top.id] \in Seq(Op) /\ top = frames[Len(frames)]
      /\ Len(frames) \in Nat \ {0}
  BY <1>1, TopFrame
<1>3. ops[top.id] # <<>>
  <2>1. Len(frames) \in 1 .. Len(frames)
    BY <1>2
  <2>2. QED
    BY <1>1, <1>2, <2>1 DEF EvmInv, OpsInv
<1>4. /\ frames' = Append(Front(frames), f) /\ ops' = [ops EXCEPT ![top.id] = s]
      /\ UNCHANGED <<phase, calls, existing, alive, status>>
  BY DEF Precompiled
<1>5. top.gas - 1 \in Int /\ Half \in Int
  BY <1>2 DEF Frame, Half
<1>6. /\ f \in Frame /\ f.id = top.id /\ f.kind = top.kind /\ f.start = top.start
      /\ f.at = "called"
  BY <1>2, <1>5, ZenonT(60) DEF Frame
<1>7. Last(ops[top.id]) \in Op
  BY <1>2, <1>3, LastFront
<1>8. instruction \in Op
  BY <1>5, <1>7 DEF Op
<1> HIDE DEF f, instruction
<1>9. s \in Seq(Op) /\ s # <<>>
  BY <1>2, <1>3, <1>8, ReplaceLast
<1> HIDE DEF s, top
<1>10. FramesInv /\ CallsInv /\ OpsInv /\ f.at # "begin" /\ f.at \notin Ops
  BY <1>6 DEF EvmInv, Ops
<1>11. FramesInv' /\ CallsInv' /\ OpsInv'
  BY <1>1, <1>4, <1>6, <1>9, <1>10, StepInTop, ZenonT(60) DEF top
<1>12. QED
  BY <1>11 DEF EvmInv


\* An instruction and the call of a precompiled contract change the innermost frame only.
LEMMA StepFrames ==
  ASSUME EvmInv, Instruction \/ Precompiled
  PROVE  /\ Len(frames') = Len(frames)
         /\ \A i \in 1 .. Len(frames) : /\ frames'[i].id = frames[i].id
                                        /\ frames'[i].kind = frames[i].kind
                                        /\ frames'[i].start = frames[i].start
<1> DEFINE top == Last(frames)
<1>1. phase = "running" /\ frames # <<>>
  BY ZenonT(60) DEF Instruction, Precompiled, EvmInv, FramesInv
<1>2. frames \in Seq(Frame) /\ top \in Frame
  BY <1>1, TopFrame
<1>3. PICK at \in Ops \cup {"called"} :
        frames' = Append(Front(frames), [top EXCEPT !.gas = @ - 1, !.at = at])
  BY ZenonT(60) DEF Instruction, Precompiled, Ops
<1> DEFINE f == [top EXCEPT !.gas = @ - 1, !.at = at]
<1>4. f \in Frame /\ f.id = top.id /\ f.kind = top.kind /\ f.start = top.start
  <2>1. top.gas - 1 \in Int
    BY <1>2 DEF Frame
  <2>2. QED
    BY <1>2, <1>3, <2>1, ZenonT(60) DEF Frame
<1>5. frames' = Append(Front(frames), f)
  BY <1>3
<1> HIDE DEF f
<1>6. QED
  BY <1>1, <1>2, <1>4, <1>5, ReplaceTop

\* on_execution_end of the innermost frame.
LEMMA EvmEnd ==
  ASSUME EvmInv, End
  PROVE  EvmInv'
<1> DEFINE top == Last(frames)
<1>1. phase = "running" /\ ~dangling /\ frames # <<>>
  BY DEF End, EvmInv, FramesInv
<1>2. /\ top \in Frame /\ top = frames[Len(frames)] /\ Len(frames) \in Nat \ {0}
      /\ calls \in Seq(CallRecord) /\ top.id \in 1 .. Len(calls)
  BY <1>1, TopFrame
<1>3. PICK st \in Statuses, used \in Int :
        /\ status' = st
        /\ calls' = [calls EXCEPT ![top.id].status = st, ![top.id].used = used]
        /\ IF top.kind = "create" THEN phase' = "created" /\ UNCHANGED frames ELSE Return(used)
  <2>1. top.start \in Int /\ top.gas \in Int
    BY <1>2 DEF Frame
  <2>2. PICK st \in Statuses :
          LET used == top.start - (IF Kept(st) THEN top.gas ELSE 0)
          IN  /\ status' = st
              /\ calls' = [calls EXCEPT ![top.id].status = st, ![top.id].used = used]
              /\ IF top.kind = "create" THEN phase' = "created" /\ UNCHANGED frames
                 ELSE Return(used)
    BY ZenonT(60) DEF End, Statuses
  <2>3. top.start - (IF Kept(st) THEN top.gas ELSE 0) \in Int
    BY <2>1
  <2>4. QED
    BY <2>2, <2>3, ZenonT(60)
<1> DEFINE call == [calls[top.id] EXCEPT !.status = st, !.used = used]
<1>4. /\ call \in CallRecord /\ call.status = st /\ call.kind = calls[top.id].kind
      /\ calls' = [calls EXCEPT ![top.id] = call]
  <2>1. calls[top.id] \in CallRecord
    BY <1>1, TopFrame
  <2>2. call \in CallRecord /\ call.status = st /\ call.kind = calls[top.id].kind
    BY <2>1, <1>3, ZenonT(60) DEF CallRecord
  <2>3. calls' = [calls EXCEPT ![top.id] = call]
    BY <1>2, <1>3, ZenonT(60)
  <2>4. QED
    BY <2>2, <2>3
<1> HIDE DEF call
<1>5. Len(frames) \in 1 .. Len(frames)
  BY <1>2
<1>6. call.kind = top.kind /\ call.status # "open"
  BY <1>2, <1>4, <1>5 DEF EvmInv, CallsInv, Statuses
<1>7. UNCHANGED <<ops, existing, alive, events, dangling>>
  BY DEF End
<1>8. CASE top.kind # "create"
  <2>1. Return(used) /\ status' = call.status /\ FramesInv /\ CallsInv /\ OpsInv
    BY <1>3, <1>4, <1>8 DEF EvmInv
  <2>2. QED
    BY <1>1, <1>4, <1>6, <1>7, <2>1, LeaveTop, ZenonT(60) DEF EvmInv
<1>9. CASE top.kind = "create"
  <2>1. phase' = "created" /\ frames' = frames
    BY <1>3, <1>9
  <2>2. /\ calls' \in Seq(CallRecord) /\ Len(calls') = Len(calls) /\ calls'[top.id] = call
        /\ \A c \in 1 .. Len(calls) : c # top.id => calls'[c] = calls[c]
    BY <1>2, <1>4, UpdateAt
  <2>3. FramesInv'
    BY <1>1, <1>7, <2>1, <2>2 DEF EvmInv, FramesInv, Phases
  <2>4. CallsInv'
    <3>1. \A i \in 1 .. Len(frames) : i # Len(frames) =>
             frames[i].id # top.id /\ frames[i].id \in 1 .. Len(calls)
      <4>1. TAKE i \in 1 .. Len(frames)
      <4>2. HAVE i # Len(frames)
      <4>3. i < Len(frames)
        BY <1>2, <4>2
      <4>4. frames[i].id < top.id /\ frames[i].id \in 1 .. Len(calls)
        BY <1>2, <1>5, <4>3 DEF EvmInv, FramesInv
      <4>5. QED
        BY <1>2, <4>4
    <3>2. \A i \in 1 .. Len(frames) : /\ calls[frames[i].id].status = "open"
                                      /\ calls[frames[i].id].kind = frames[i].kind
      BY <1>1 DEF EvmInv, CallsInv, Open
    <3>3. \A i \in 1 .. Len(frames) :
             /\ calls'[frames[i].id].kind = frames[i].kind
             /\ (calls'[frames[i].id].status = "open") <=> (i # Len(frames))
      BY <1>2, <1>6, <2>2, <3>1, <3>2
    <3>4. \A c \in 1 .. Len(calls) :
             calls'[c].status = "open" => \E i \in 1 .. Len(frames) : frames[i].id = c
      BY <1>6, <2>2 DEF EvmInv, CallsInv
    <3>5. status' = calls'[Last(frames).id].status
      BY <1>3, <1>4, <2>2
    <3>6. QED
      BY <2>1, <2>2, <3>3, <3>4, <3>5 DEF CallsInv, Open
  <2>5. OpsInv'
    BY <1>7, <2>1 DEF EvmInv, OpsInv
  <2>6. QED
    BY <2>3, <2>4, <2>5 DEF EvmInv
<1>10. QED
  BY <1>8, <1>9

\* on_creation_completed: the frame of a new contract is left.
LEMMA EvmCreationCompleted ==
  ASSUME EvmInv, CreationCompleted
  PROVE  EvmInv'
<1> DEFINE top == Last(frames)
<1>1. phase = "created" /\ ~dangling /\ frames # <<>>
  BY DEF CreationCompleted, EvmInv, FramesInv
<1>2. /\ top \in Frame /\ top = frames[Len(frames)] /\ Len(frames) \in Nat \ {0}
      /\ calls \in Seq(CallRecord) /\ top.id \in 1 .. Len(calls) /\ calls[top.id] \in CallRecord
  BY <1>1, TopFrame
<1>3. PICK deposit \in {0, 1} :
        /\ calls' = [calls EXCEPT ![top.id].used = @ + deposit]
        /\ Return(calls[top.id].used + deposit)
  BY ZenonT(60) DEF CreationCompleted
<1> DEFINE used == calls[top.id].used + deposit
           call == [calls[top.id] EXCEPT !.used = used]
<1>4. used \in Int
  BY <1>2 DEF CallRecord
<1>5. calls' = [calls EXCEPT ![top.id] = call] /\ Return(used)
  BY <1>3
<1>6. /\ call \in CallRecord /\ call.status = calls[top.id].status
      /\ call.kind = calls[top.id].kind
  BY <1>2, <1>4, ZenonT(60) DEF CallRecord
<1> HIDE DEF call, used
<1>7. Len(frames) \in 1 .. Len(frames)
  BY <1>2
<1>8. call.kind = top.kind /\ call.status # "open"
  BY <1>1, <1>2, <1>6, <1>7 DEF EvmInv, CallsInv, Open
<1>9. status' = call.status
  BY <1>1, <1>6 DEF CreationCompleted, EvmInv, CallsInv
<1>10. UNCHANGED <<ops, existing, alive, events, dangling>>
  BY DEF CreationCompleted
<1>11. FramesInv /\ CallsInv /\ OpsInv
  BY DEF EvmInv
<1>12. QED
  BY <1>1, <1>4, <1>5, <1>6, <1>8, <1>9, <1>10, <1>11, LeaveTop, ZenonT(60) DEF EvmInv


\* The steps between transactions, and on_reward_granted, leave no frame open.
LEMMA EvmOther ==
  ASSUME EvmInv, NewTransaction \/ RewardGranted \/ Transaction
  PROVE  EvmInv'
<1>1. CASE NewTransaction
  <2>1. /\ frames' = <<>> /\ calls' = <<>> /\ ops' = <<>> /\ phase' = "starting"
        /\ dangling' = FALSE /\ UNCHANGED <<events, existing, alive>>
    BY <1>1 DEF NewTransaction, NewTracers
  <2>2. /\ events \in Nat /\ existing \subseteq Addresses \cup {Contract}
        /\ alive \subseteq Addresses \cup {Contract}
    BY DEF EvmInv, FramesInv
  <2>3. QED
    <3>1. FramesInv'
      BY <2>1, <2>2 DEF FramesInv, Phases
    <3>2. CallsInv' /\ OpsInv'
      BY <2>1 DEF CallsInv, OpsInv
    <3>3. QED
      BY <3>1, <3>2 DEF EvmInv
<1>2. CASE RewardGranted \/ Transaction
  <2>1. /\ phase \in {"ended", "starting"} /\ phase' = "granted"
        /\ UNCHANGED <<frames, calls, ops, status, existing, alive, events, dangling>>
    BY <1>2, ZenonT(60) DEF RewardGranted, Transaction, Grant
  <2>2. frames = <<>> /\ ~dangling
    BY <2>1 DEF EvmInv, FramesInv
  <2>3. FramesInv'
    BY <2>1, <2>2 DEF EvmInv, FramesInv, Phases
  <2>4. CallsInv' /\ OpsInv'
    BY <2>1, <2>2, NoIndex, ZenonT(60) DEF EvmInv, CallsInv, OpsInv
  <2>5. QED
    BY <2>3, <2>4 DEF EvmInv
<1>3. QED
  BY <1>1, <1>2, ZenonT(60)

\* The EVM's frames, calls and instructions fit together in every state: the frames are open
\* calls in the order of their start, and each is at its last instruction.
THEOREM EvmInvariant == Spec => []EvmInv
<1>1. EvmInv /\ [Next]_vars => EvmInv'
  <2>1. SUFFICES ASSUME EvmInv, [Next]_vars PROVE EvmInv'
    OBVIOUS
  <2>2. CASE UNCHANGED vars
    BY <2>1, <2>2, ZenonT(60) DEF EvmInv, FramesInv, CallsInv, OpsInv, Open, vars, evm
  <2>3. QED
    BY <2>1, <2>2, EvmStart, EvmCall, EvmInstruction, EvmPrecompiled, EvmEnd,
       EvmCreationCompleted, EvmOther DEF Next
<1>2. QED
  BY <1>1, EvmInit, PTL DEF Spec
=============================================================================
