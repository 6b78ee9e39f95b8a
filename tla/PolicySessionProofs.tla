-------------------------- MODULE PolicySessionProofs --------------------------
(***************************************************************************)
(* Proofs about PolicySession: the model serves one handler at a time, and *)
(* a client never takes a late answer for the answer to its request, for   *)
(* any number of clients, connections and requests.                        *)
(***************************************************************************)
EXTENDS PolicySession, TLAPS

HandlerStates == {"none", "wantReset", "reset", "greet", "recv", "wantInfer", "infer",
                  "reply", "fail", "done"}

LEMMA FrameTypes ==
    /\ Meta \in Frame
    /\ \A r \in Nat : [kind |-> "answer", id |-> r] \in Frame /\ [kind |-> "error", id |-> r] \in Frame
BY DEF Meta, Frame, NoAsk

LEMMA InitTypes == Init => TypeOK
BY SessionAssumption DEF Init, TypeOK, NoConn, NoAsk, SessionAssumption

LEMMA SendTypes ==
    ASSUME TypeOK, NEW k \in Clients, NEW c \in Conns, Send(k, c)
    PROVE  /\ asked' \in 0..MaxRequests /\ sent' \in [Clients -> 0..MaxRequests]
           /\ inbox' \in [Conns -> Seq(0..MaxRequests)]
           /\ pc' \in [Clients -> {"idle", "open", "meta", "answer"}]
<1>1. asked' \in 0..MaxRequests /\ asked' \in Nat /\ asked' = NextAsk
  BY SessionAssumption DEF Send, NextAsk, TypeOK, SessionAssumption
<1>2. Append(inbox[c], NextAsk) \in Seq(0..MaxRequests)
  BY <1>1 DEF TypeOK
<1> QED BY <1>1, <1>2 DEF Send, TypeOK

LEMMA ClosedTypes ==
    ASSUME TypeOK, NEW k \in Clients, Closed(k)
    PROVE  ws' \in [Clients -> Conns \cup {NoConn}] /\ open' \in [Conns -> BOOLEAN]
BY DEF Closed, TypeOK

LEMMA ReplyTypes ==
    ASSUME TypeOK, NEW c \in Conns, NEW frame \in Frame, NEW next \in HandlerStates,
           Reply(c, frame, next)
    PROVE  outbox' \in [Conns -> Seq(Frame)] /\ hpc' \in [Conns -> HandlerStates]
<1>1. Append(outbox[c], frame) \in Seq(Frame)
  BY DEF TypeOK
<1> QED BY <1>1 DEF Reply, TypeOK, HandlerStates

LEMMA ClientTypes ==
    ASSUME TypeOK, NEW k \in Clients, pc[k] = "meta" => trying[k] # NoConn, ClientStep(k)
    PROVE  TypeOK'
<1> USE SessionAssumption DEF SessionAssumption, Conns, NoConn, serverVars, wireVars, clientVars
<1>1. CASE Infer(k)
  <2>1. CASE open[ws[k]]
    <3>1. ws[k] \in Conns
      BY <1>1 DEF Infer, TypeOK
    <3>2. Send(k, ws[k]) /\ call' \in [Clients -> {"infer", "reset"}]
          /\ UNCHANGED <<ws, open, trying, made, outbox, serverVars>>
      BY <1>1, <2>1 DEF Infer, TypeOK
    <3> QED BY <3>1, <3>2, SendTypes DEF TypeOK
  <2>2. CASE ~open[ws[k]]
    BY <1>1, <2>2, ClosedTypes DEF Infer, Abort, TypeOK
  <2> QED BY <2>1, <2>2
<1>2. CASE InferConnects(k)
  BY <1>2 DEF InferConnects, TypeOK
<1>3. CASE Reset(k)
  BY <1>3, ClosedTypes DEF Reset, TypeOK
<1>4. CASE Close(k)
  BY <1>4, ClosedTypes DEF Close, TypeOK
<1>5. CASE Connect(k)
  <2>1. made + 1 \in Conns /\ made' \in 0..MaxConns
    BY <1>5 DEF Connect, TypeOK
  <2>2. trying' \in [Clients -> Conns \cup {NoConn}] /\ open' \in [Conns -> BOOLEAN]
        /\ pc' \in [Clients -> {"idle", "open", "meta", "answer"}]
    BY <1>5, <2>1 DEF Connect, TypeOK
  <2>3. hpc' \in [Conns -> HandlerStates]
    BY <1>5, <2>1 DEF Connect, TypeOK, HandlerStates
  <2> QED BY <1>5, <2>1, <2>2, <2>3 DEF Connect, TypeOK, HandlerStates
<1>6. CASE Unreachable(k)
  BY <1>6 DEF Unreachable, TypeOK
<1>7. CASE Connected(k)
  <2> DEFINE c == trying[k]
  <2>1. c \in Conns /\ outbox[c] # <<>> /\ Tail(outbox[c]) \in Seq(Frame)
    BY <1>7 DEF Connected, TypeOK
  <2>2. outbox' \in [Conns -> Seq(Frame)] /\ trying' \in [Clients -> Conns \cup {NoConn}]
    BY <1>7, <2>1 DEF Connected, TypeOK
  <2>3. CASE call[k] = "reset"
    BY <1>7, <2>1, <2>2, <2>3 DEF Connected, TypeOK
  <2>4. CASE call[k] # "reset" /\ open[c]
    <3>1. Send(k, c) /\ ws' = [ws EXCEPT ![k] = c] /\ UNCHANGED <<open, call, made, serverVars>>
      BY <1>7, <2>4 DEF Connected
    <3> HIDE DEF c
    <3>2. ws' \in [Clients -> Conns \cup {NoConn}]
      BY <2>1, <3>1 DEF TypeOK
    <3> QED BY <2>1, <2>2, <3>1, <3>2, SendTypes DEF TypeOK
  <2>5. CASE call[k] # "reset" /\ ~open[c]
    BY <1>7, <2>1, <2>2, <2>5 DEF Connected, TypeOK
  <2> QED BY <2>3, <2>4, <2>5
<1>8. CASE HandshakeFails(k)
  BY <1>8 DEF HandshakeFails, TypeOK
<1>9. CASE Answered(k)
  <2>1. ws[k] \in Conns /\ outbox[ws[k]] # <<>> /\ Tail(outbox[ws[k]]) \in Seq(Frame)
    BY <1>9 DEF Answered, TypeOK
  <2>2. outbox' \in [Conns -> Seq(Frame)]
    BY <1>9, <2>1 DEF Answered, TypeOK
  <2> QED BY <1>9, <2>2, ClosedTypes DEF Answered, Abort, TypeOK
<1>10. CASE InferFails(k)
  BY <1>10, ClosedTypes DEF InferFails, Abort, TypeOK
<1> QED BY <1>1, <1>2, <1>3, <1>4, <1>5, <1>6, <1>7, <1>8, <1>9, <1>10 DEF ClientStep

LEMMA HandlerTypes ==
    ASSUME TypeOK, NEW c \in Conns, Break(c) \/ Handler(c)
    PROVE  TypeOK'
<1> USE SessionAssumption DEF SessionAssumption, NoConn, serverVars, wireVars, clientVars
<1>1. CASE Break(c)
  BY <1>1 DEF Break, TypeOK
<1>2. CASE EnterReset(c)
  BY <1>2 DEF EnterReset, TypeOK
<1>3. CASE LeaveReset(c)
  BY <1>3 DEF LeaveReset, TypeOK
<1>4. CASE SendMetadata(c)
  BY <1>4, ReplyTypes, FrameTypes DEF SendMetadata, TypeOK, HandlerStates
<1>5. CASE Receive(c)
  <2>1. inbox[c] # <<>> /\ Head(inbox[c]) \in 0..MaxRequests /\ Tail(inbox[c]) \in Seq(0..MaxRequests)
    BY SMTT(20), <1>5 DEF Receive, TypeOK
  <2> QED BY <1>5, <2>1 DEF Receive, TypeOK
<1>6. CASE Disconnected(c)
  BY <1>6 DEF Disconnected, TypeOK
<1>7. CASE EnterInfer(c)
  BY <1>7 DEF EnterInfer, TypeOK
<1>8. CASE LeaveInfer(c)
  <2>1. Append(fed, serving[c]) \in Seq(Nat) /\ Append(served[c], serving[c]) \in Seq(Nat)
    BY DEF TypeOK
  <2> QED BY <1>8, <2>1 DEF LeaveInfer, TypeOK
<1>9. CASE SendAnswer(c)
  <2>1. [kind |-> "answer", id |-> serving[c]] \in Frame
    <3>1. serving[c] \in Nat
      BY DEF TypeOK
    <3> QED BY <3>1, FrameTypes
  <2> QED BY <1>9, <2>1, ReplyTypes DEF SendAnswer, TypeOK, HandlerStates
<1>10. CASE SendError(c)
  <2>1. [kind |-> "error", id |-> serving[c]] \in Frame
    <3>1. serving[c] \in Nat
      BY DEF TypeOK
    <3> QED BY <3>1, FrameTypes
  <2> QED BY <1>10, <2>1, ReplyTypes DEF SendError, TypeOK, HandlerStates
<1>11. CASE ResetRaises(c)
  <2>1. fed' \in Seq(Nat)
    <3>1. fed' = fed \/ fed' = <<>>
      BY <1>11 DEF ResetRaises
    <3>2. fed \in Seq(Nat) /\ <<>> \in Seq(Nat)
      BY DEF TypeOK
    <3> QED BY <3>1, <3>2
  <2> QED BY <1>11, <2>1 DEF ResetRaises, TypeOK
<1> QED BY <1>1, <1>2, <1>3, <1>4, <1>5, <1>6, <1>7, <1>8, <1>9, <1>10, <1>11 DEF Handler
-----------------------------------------------------------------------------
(* What travels on a connection in each phase of a client: nothing while   *)
(* it is idle, the metadata at most while it connects, and its one request *)
(* or the answer to it while it waits.                                     *)
Quiet(c)    == inbox[c] = <<>> /\ outbox[c] = <<>> /\ hpc[c] \in {"recv", "done"}
Greeting(c) ==
    /\ inbox[c] = <<>>
    /\ \/ outbox[c] = <<>> /\ hpc[c] \in {"wantReset", "reset", "greet", "done"}
       \/ outbox[c] = <<Meta>> /\ hpc[c] \in {"recv", "done"}
Pending(c, r) ==
    \/ inbox[c] = <<r>> /\ outbox[c] = <<>> /\ hpc[c] \in {"recv", "done"}
    \/ inbox[c] = <<>> /\ outbox[c] = <<>> /\ serving[c] = r
       /\ hpc[c] \in {"wantInfer", "infer", "reply", "fail", "done"}
    \/ /\ inbox[c] = <<>> /\ hpc[c] \in {"recv", "done"}
       /\ \E kind \in {"answer", "error"} : outbox[c] = <<[kind |-> kind, id |-> r]>>
       /\ hpc[c] = "recv" => Head(outbox[c]).kind = "answer"

(* No two clients use one connection, and a new one is unused.             *)
InUse(k)  == IF pc[k] = "meta" THEN trying[k] ELSE ws[k]
Ownership ==
    /\ \A k \in Clients : /\ trying[k] # NoConn <=> pc[k] = "meta"
                          /\ pc[k] \in {"open", "meta"} => ws[k] = NoConn
                          /\ pc[k] = "answer" => ws[k] # NoConn
                          /\ InUse(k) <= made
    /\ \A k, j \in Clients : k # j /\ InUse(k) = InUse(j) => InUse(k) = NoConn
Unused == \A c \in Conns : c > made => hpc[c] = "none" /\ inbox[c] = <<>> /\ outbox[c] = <<>>
Flow(k) == /\ pc[k] = "idle" /\ ws[k] # NoConn => Quiet(ws[k])
           /\ pc[k] = "meta" => Greeting(trying[k])
           /\ pc[k] = "answer" => Pending(ws[k], sent[k])
SessionInv == TypeOK /\ Ownership /\ Unused /\ \A k \in Clients : Flow(k)

(* A step of the handler keeps the traffic of its connection in phase.     *)
LEMMA HandlerKeepsPhase ==
    ASSUME TypeOK, NEW c \in Conns, Handler(c)
    PROVE  /\ Quiet(c) => Quiet(c)'
           /\ Greeting(c) => Greeting(c)'
           /\ \A r \in Nat : Pending(c, r) => Pending(c, r)'
           /\ \A d \in Conns \ {c} : /\ inbox'[d] = inbox[d] /\ outbox'[d] = outbox[d]
                                     /\ hpc'[d] = hpc[d] /\ serving'[d] = serving[d]
           /\ hpc[c] # "none" /\ UNCHANGED clientVars
<1> USE DEF serverVars, wireVars, clientVars
<1>0. inbox[c] \in Seq(0..MaxRequests) /\ outbox[c] \in Seq(Frame)
  BY DEF TypeOK
<1>1. CASE EnterReset(c)
  BY <1>0, <1>1 DEF EnterReset, TypeOK, Quiet, Greeting, Pending
<1>2. CASE LeaveReset(c)
  BY <1>0, <1>2 DEF LeaveReset, TypeOK, Quiet, Greeting, Pending
<1>3. CASE SendMetadata(c)
  BY SMTT(20), <1>0, <1>3, FrameTypes DEF SendMetadata, Reply, TypeOK, Quiet, Greeting, Pending
<1>4. CASE Receive(c)
  <2>1. /\ hpc[c] = "recv" /\ inbox[c] # <<>> /\ hpc'[c] = "wantInfer" /\ outbox' = outbox
        /\ inbox'[c] = Tail(inbox[c]) /\ serving'[c] = Head(inbox[c])
        /\ \A d \in Conns \ {c} : /\ inbox'[d] = inbox[d] /\ outbox'[d] = outbox[d]
                                  /\ hpc'[d] = hpc[d] /\ serving'[d] = serving[d]
    BY <1>4 DEF Receive, TypeOK
  <2>2. ~Quiet(c) /\ ~Greeting(c)
    BY <2>1 DEF Quiet, Greeting
  <2>3. ASSUME NEW r \in Nat, Pending(c, r)
        PROVE  Pending(c, r)'
    <3>1. inbox[c] = <<r>> /\ outbox[c] = <<>>
      BY <2>1, <2>3 DEF Pending
    <3>2. inbox'[c] = <<>> /\ serving'[c] = r
      BY <2>1, <3>1
    <3> QED BY <2>1, <3>1, <3>2 DEF Pending
  <2> QED BY <1>4, <2>1, <2>2, <2>3 DEF Receive
<1>5. CASE Disconnected(c)
  BY <1>0, <1>5 DEF Disconnected, TypeOK, Quiet, Greeting, Pending
<1>6. CASE EnterInfer(c)
  BY <1>0, <1>6 DEF EnterInfer, TypeOK, Quiet, Greeting, Pending
<1>7. CASE LeaveInfer(c)
  BY <1>0, <1>7 DEF LeaveInfer, TypeOK, Quiet, Greeting, Pending
<1>8. CASE SendAnswer(c)
  BY SMTT(20), <1>0, <1>8 DEF SendAnswer, Reply, TypeOK, Quiet, Greeting, Pending
<1>9. CASE SendError(c)
  BY <1>0, <1>9 DEF SendError, Reply, TypeOK, Quiet, Greeting, Pending
<1>10. CASE ResetRaises(c)
  BY <1>0, <1>10 DEF ResetRaises, TypeOK, Quiet, Greeting, Pending
<1> QED BY <1>1, <1>2, <1>3, <1>4, <1>5, <1>6, <1>7, <1>8, <1>9, <1>10 DEF Handler

LEMMA HandlerKeeps ==
    ASSUME SessionInv, NEW c \in Conns, Handler(c)
    PROVE  SessionInv'
<1>1. TypeOK /\ Ownership /\ Unused /\ TypeOK'
  BY HandlerTypes DEF SessionInv
<1>2. /\ UNCHANGED <<pc, call, ws, trying, sent, made, asked>> /\ hpc[c] # "none"
      /\ \A d \in Conns \ {c} : /\ inbox'[d] = inbox[d] /\ outbox'[d] = outbox[d]
                                /\ hpc'[d] = hpc[d] /\ serving'[d] = serving[d]
  BY <1>1, HandlerKeepsPhase DEF clientVars
<1>3. Ownership'
  BY <1>1, <1>2 DEF Ownership, InUse
<1>4. Unused'
  BY <1>1, <1>2 DEF Unused
<1>5. ASSUME NEW k \in Clients
      PROVE  Flow(k)'
  <2>1. Flow(k) /\ sent[k] \in Nat
    BY <1>1 DEF SessionInv, TypeOK
  <2>2. ws[k] \in Conns \cup {NoConn} /\ trying[k] \in Conns \cup {NoConn}
    BY <1>1 DEF TypeOK
  <2>3. /\ pc[k] = "meta" => trying[k] \in Conns
        /\ pc[k] = "answer" => ws[k] \in Conns
    BY <1>1, <2>2 DEF Ownership
  <2>4. ASSUME NEW d \in Conns
        PROVE  /\ Quiet(d) => Quiet(d)'
               /\ Greeting(d) => Greeting(d)'
               /\ Pending(d, sent[k]) => Pending(d, sent[k])'
    <3>1. CASE d = c
      BY <1>1, <1>2, <2>1, <3>1, HandlerKeepsPhase DEF Pending
    <3>2. CASE d # c
      BY <1>2, <3>2 DEF Quiet, Greeting, Pending
    <3> QED BY <3>1, <3>2
  <2>5. Pending(ws[k], sent[k]) /\ ws[k] \in Conns => Pending(ws[k], sent[k])'
    BY <1>2, <2>4 DEF Pending
  <2>6. /\ Quiet(ws[k]) /\ ws[k] \in Conns => Quiet(ws[k])'
        /\ Greeting(trying[k]) /\ trying[k] \in Conns => Greeting(trying[k])'
    BY <1>2, <2>4 DEF Quiet, Greeting
  <2> QED BY <1>2, <2>1, <2>2, <2>3, <2>5, <2>6 DEF Flow
<1> QED BY <1>1, <1>3, <1>4, <1>5 DEF SessionInv

LEMMA BreakKeeps ==
    ASSUME SessionInv, NEW c \in Conns, Break(c)
    PROVE  SessionInv'
<1>1. TypeOK'
  BY HandlerTypes DEF SessionInv
<1>2. UNCHANGED <<pc, call, ws, trying, sent, made, asked, inbox, outbox, hpc, serving>>
  BY DEF Break, clientVars, serverVars
<1>3. Ownership' /\ Unused'
  BY <1>2 DEF SessionInv, Ownership, Unused, InUse
<1>4. \A k \in Clients : Flow(k)'
  BY <1>2 DEF SessionInv, Flow, Quiet, Greeting, Pending
<1> QED BY <1>1, <1>3, <1>4 DEF SessionInv
-----------------------------------------------------------------------------
(* A client touches its own connection only, or a new one.                 *)
LEMMA ClientIsLocal ==
    ASSUME SessionInv, NEW j \in Clients, ClientStep(j)
    PROVE  /\ \A k \in Clients \ {j} : /\ pc'[k] = pc[k] /\ ws'[k] = ws[k]
                                       /\ trying'[k] = trying[k] /\ sent'[k] = sent[k]
           /\ \A d \in Conns : d # InUse(j) /\ d <= made =>
                  /\ inbox'[d] = inbox[d] /\ outbox'[d] = outbox[d]
                  /\ hpc'[d] = hpc[d] /\ serving'[d] = serving[d]
           /\ made' \in {made, made + 1}
<1> USE DEF serverVars, wireVars, clientVars
<1>1. TypeOK /\ Ownership
  BY DEF SessionInv
<1>2. CASE Infer(j)
  BY <1>1, <1>2 DEF Infer, Send, Abort, Closed, InUse, TypeOK
<1>3. CASE InferConnects(j)
  BY <1>1, <1>3 DEF InferConnects, TypeOK
<1>4. CASE Reset(j)
  BY <1>1, <1>4 DEF Reset, Closed, TypeOK
<1>5. CASE Close(j)
  BY <1>1, <1>5 DEF Close, Closed, TypeOK
<1>6. CASE Connect(j)
  BY <1>1, <1>6 DEF Connect, TypeOK
<1>7. CASE Unreachable(j)
  BY <1>1, <1>7 DEF Unreachable, TypeOK
<1>8. CASE Connected(j)
  BY <1>1, <1>8 DEF Connected, Send, InUse, TypeOK
<1>9. CASE HandshakeFails(j)
  BY <1>1, <1>9 DEF HandshakeFails, TypeOK
<1>10. CASE Answered(j)
  BY <1>1, <1>10 DEF Answered, Abort, Closed, InUse, TypeOK
<1>11. CASE InferFails(j)
  BY <1>1, <1>11 DEF InferFails, Abort, Closed, TypeOK
<1> QED BY <1>2, <1>3, <1>4, <1>5, <1>6, <1>7, <1>8, <1>9, <1>10, <1>11 DEF ClientStep

(* So the other clients stay in phase.                                     *)
LEMMA OthersKeepPhase ==
    ASSUME SessionInv, NEW j \in Clients, ClientStep(j), NEW k \in Clients \ {j}
    PROVE  Flow(k)'
<1>1. TypeOK /\ Ownership /\ Flow(k)
  BY DEF SessionInv
<1>2. /\ pc'[k] = pc[k] /\ ws'[k] = ws[k] /\ trying'[k] = trying[k] /\ sent'[k] = sent[k]
      /\ \A d \in Conns : d # InUse(j) /\ d <= made =>
             /\ inbox'[d] = inbox[d] /\ outbox'[d] = outbox[d]
             /\ hpc'[d] = hpc[d] /\ serving'[d] = serving[d]
  BY ClientIsLocal
<1> DEFINE d == InUse(k)
<1>3. /\ d \in Conns \cup {NoConn} /\ d <= made /\ (d # NoConn => d # InUse(j))
      /\ pc[k] = "meta" => d = trying[k] /\ trying[k] # NoConn
      /\ pc[k] # "meta" => d = ws[k]
      /\ pc[k] = "answer" => ws[k] # NoConn
  BY <1>1 DEF Ownership, InUse, TypeOK
<1> HIDE DEF d
<1>4. d # NoConn => /\ inbox'[d] = inbox[d] /\ outbox'[d] = outbox[d]
                    /\ hpc'[d] = hpc[d] /\ serving'[d] = serving[d]
  BY <1>2, <1>3
<1>5. CASE pc[k] = "idle"
  BY <1>1, <1>2, <1>3, <1>4, <1>5 DEF Flow, Quiet
<1>6. CASE pc[k] = "meta"
  BY <1>1, <1>2, <1>3, <1>4, <1>6 DEF Flow, Greeting
<1>7. CASE pc[k] = "answer"
  BY <1>1, <1>2, <1>3, <1>4, <1>7 DEF Flow, Pending
<1>8. CASE pc[k] = "open"
  BY <1>2, <1>8 DEF Flow
<1> QED BY <1>1, <1>5, <1>6, <1>7, <1>8 DEF TypeOK

(* The client itself: its connection goes through the phases in order, and *)
(* whatever fails, it lets go of it.                                       *)
Next1(j) ==
    /\ trying'[j] # NoConn <=> pc'[j] = "meta"
    /\ pc'[j] \in {"open", "meta"} => ws'[j] = NoConn
    /\ pc'[j] = "answer" => ws'[j] # NoConn
    /\ \/ InUse(j)' \in {NoConn, InUse(j)} /\ made' = made
       \/ InUse(j)' = made + 1 /\ made' = made + 1
    /\ Flow(j)'

LEMMA OwnPhase ==
    ASSUME SessionInv, NEW j \in Clients, ClientStep(j)
    PROVE  Next1(j)
<1> USE DEF serverVars, wireVars, clientVars
<1>1. /\ TypeOK /\ Ownership /\ Unused /\ Flow(j) /\ NoConn = 0
      /\ trying[j] # NoConn <=> pc[j] = "meta"
      /\ pc[j] \in {"open", "meta"} => ws[j] = NoConn
      /\ pc[j] = "answer" => ws[j] # NoConn
  BY DEF SessionInv, Ownership, NoConn
<1>2. CASE Infer(j)
  <2>1. /\ ws[j] \in Conns /\ ws[j] # NoConn /\ Quiet(ws[j])
        /\ trying'[j] = NoConn /\ made' = made
    BY <1>1, <1>2 DEF Infer, TypeOK, Flow
  <2>2. CASE open[ws[j]]
    <3>1. /\ pc'[j] = "answer" /\ ws' = ws /\ sent'[j] = NextAsk
          /\ inbox'[ws[j]] = Append(inbox[ws[j]], NextAsk)
          /\ outbox' = outbox /\ hpc' = hpc
      BY <1>1, <1>2, <2>1, <2>2 DEF Infer, Send, TypeOK
    <3>2. inbox'[ws[j]] = <<NextAsk>>
      BY <2>1, <3>1 DEF Quiet
    <3>3. Pending(ws[j], sent[j])'
      BY <2>1, <3>1, <3>2 DEF Quiet, Pending
    <3>4. InUse(j)' = InUse(j)
      BY <1>1, <1>2, <3>1 DEF InUse, Infer
    <3> QED BY <1>1, <2>1, <3>1, <3>3, <3>4 DEF Next1, Flow
  <2>3. CASE ~open[ws[j]]
    <3>1. pc'[j] = "idle" /\ ws'[j] = NoConn
      BY <1>1, <1>2, <2>3 DEF Infer, Abort, Closed, TypeOK
    <3>2. InUse(j)' = NoConn /\ (trying'[j] # NoConn <=> pc'[j] = "meta")
      BY <2>1, <3>1 DEF InUse
    <3>3. Flow(j)'
      BY <3>1 DEF Flow
    <3> QED BY <2>1, <3>1, <3>2, <3>3 DEF Next1
  <2> QED BY <2>2, <2>3
<1>3. CASE InferConnects(j)
  BY <1>1, <1>3 DEF InferConnects, TypeOK, Next1, InUse, Flow
<1>4. CASE Reset(j)
  <2>1. pc'[j] = "open" /\ ws'[j] = NoConn /\ trying'[j] = NoConn /\ made' = made
    BY <1>1, <1>4 DEF Reset, Closed, TypeOK
  <2> QED BY <2>1 DEF Next1, Flow, InUse
<1>5. CASE Close(j)
  <2>1. pc'[j] = "idle" /\ ws'[j] = NoConn /\ trying'[j] = NoConn /\ made' = made
    BY <1>1, <1>5 DEF Close, Closed, TypeOK
  <2> QED BY <2>1 DEF Next1, Flow, InUse
<1>6. CASE Connect(j)
  <2>1. /\ made + 1 \in Conns /\ made' = made + 1 /\ pc'[j] = "meta" /\ trying'[j] = made + 1
        /\ ws'[j] = NoConn /\ hpc'[made + 1] = "wantReset" /\ inbox' = inbox /\ outbox' = outbox
    BY <1>1, <1>6, SessionAssumption DEF Connect, TypeOK, Conns, SessionAssumption
  <2>2. made + 1 # NoConn /\ inbox[made + 1] = <<>> /\ outbox[made + 1] = <<>>
    BY SMTT(20), <1>1, <2>1, SessionAssumption DEF Unused, TypeOK, SessionAssumption
  <2>3. Greeting(trying[j])'
    BY <2>1, <2>2 DEF Greeting
  <2> QED BY <2>1, <2>2, <2>3 DEF Next1, Flow, InUse
<1>7. CASE Unreachable(j)
  BY <1>1, <1>7 DEF Unreachable, TypeOK, Next1, InUse, Flow
<1>8. CASE Connected(j)
  <2> DEFINE c == trying[j]
  <2>1. /\ c \in Conns /\ Greeting(c) /\ outbox[c] # <<>> /\ ws[j] = NoConn /\ InUse(j) = c
    BY <1>1, <1>8 DEF Connected, TypeOK, Flow, InUse
  <2>2. inbox[c] = <<>> /\ outbox[c] = <<Meta>> /\ hpc[c] \in {"recv", "done"}
    BY <2>1 DEF Greeting
  <2>3. /\ outbox'[c] = <<>> /\ hpc' = hpc /\ made' = made /\ trying'[j] = NoConn
    BY <1>1, <1>8, <2>1, <2>2 DEF Connected, TypeOK
  <2>4. CASE call[j] = "reset"
    <3>1. ws'[j] = c /\ pc'[j] = "idle" /\ inbox' = inbox
      BY <1>1, <1>8, <2>4 DEF Connected, TypeOK
    <3> HIDE DEF c
    <3>2. Quiet(ws[j])'
      BY <2>2, <2>3, <3>1 DEF Quiet
    <3> QED BY <2>1, <2>3, <3>1, <3>2 DEF Next1, Flow, InUse
  <2>5. CASE call[j] # "reset" /\ open[c]
    <3>1. Send(j, c) /\ ws' = [ws EXCEPT ![j] = c]
      BY <1>8, <2>5 DEF Connected
    <3> HIDE DEF c
    <3>2. ws'[j] = c /\ pc'[j] = "answer" /\ sent'[j] = NextAsk
          /\ inbox'[c] = Append(inbox[c], NextAsk)
      BY <1>1, <2>1, <3>1 DEF Send, TypeOK
    <3>3. inbox'[c] = <<NextAsk>>
      BY <2>2, <3>2
    <3>4. Pending(ws[j], sent[j])'
      BY <2>2, <2>3, <3>2, <3>3 DEF Pending
    <3>5. c # NoConn
      BY <1>1, <1>8 DEF c, Connected
    <3> QED BY <2>1, <2>3, <3>2, <3>4, <3>5 DEF Next1, Flow, InUse
  <2>6. CASE call[j] # "reset" /\ ~open[c]
    <3>1. ws'[j] = NoConn /\ pc'[j] = "idle"
      BY <1>1, <1>8, <2>1, <2>6 DEF Connected, TypeOK
    <3> QED BY <2>3, <3>1 DEF Next1, Flow, InUse
  <2> QED BY <2>4, <2>5, <2>6
<1>9. CASE HandshakeFails(j)
  <2>1. pc'[j] \in {"open", "idle"} /\ ws'[j] = NoConn /\ trying'[j] = NoConn /\ made' = made
    BY <1>1, <1>9 DEF HandshakeFails, TypeOK
  <2> QED BY <2>1 DEF Next1, Flow, InUse
<1>10. CASE Answered(j)
  <2> DEFINE c == ws[j]
  <2>1. c \in Conns /\ Pending(c, sent[j]) /\ outbox[c] # <<>> /\ trying[j] = NoConn
    BY <1>1, <1>10 DEF Answered, TypeOK, Flow
  <2>2. PICK kind \in {"answer", "error"} : outbox[c] = <<[kind |-> kind, id |-> sent[j]]>>
    BY <2>1 DEF Pending
  <2>3. inbox[c] = <<>> /\ hpc[c] \in {"recv", "done"}
    BY <2>1, <2>2 DEF Pending
  <2>4. /\ pc'[j] = "idle" /\ made' = made /\ trying'[j] = NoConn
        /\ ws'[j] \in {NoConn, c} /\ outbox'[c] = Tail(outbox[c]) /\ inbox' = inbox /\ hpc' = hpc
    BY <1>1, <1>10, <2>1 DEF Answered, Abort, Closed, TypeOK
  <2>5. outbox'[c] = <<>>
    BY <2>2, <2>4
  <2>6. InUse(j) = c
    BY <1>1, <1>10 DEF InUse, Answered
  <2> HIDE DEF c
  <2>7. ws'[j] # NoConn => Quiet(ws[j])'
    BY <2>3, <2>4, <2>5 DEF Quiet
  <2> QED BY <2>4, <2>6, <2>7 DEF Next1, Flow, InUse
<1>11. CASE InferFails(j)
  <2>1. pc'[j] = "idle" /\ ws'[j] = NoConn /\ trying'[j] = NoConn /\ made' = made
    BY <1>1, <1>11 DEF InferFails, Abort, Closed, TypeOK
  <2> QED BY <2>1 DEF Next1, Flow, InUse
<1> QED BY <1>2, <1>3, <1>4, <1>5, <1>6, <1>7, <1>8, <1>9, <1>10, <1>11 DEF ClientStep

LEMMA ClientKeeps ==
    ASSUME SessionInv, NEW j \in Clients, ClientStep(j)
    PROVE  SessionInv'
<1>1. TypeOK /\ Ownership /\ Unused
  BY DEF SessionInv
<1>2. TypeOK'
  BY <1>1, ClientTypes DEF Ownership
<1>3. Next1(j)
  BY OwnPhase
<1>4. /\ \A k \in Clients \ {j} : /\ pc'[k] = pc[k] /\ ws'[k] = ws[k]
                                  /\ trying'[k] = trying[k] /\ sent'[k] = sent[k]
      /\ \A d \in Conns : d # InUse(j) /\ d <= made =>
             /\ inbox'[d] = inbox[d] /\ outbox'[d] = outbox[d]
             /\ hpc'[d] = hpc[d] /\ serving'[d] = serving[d]
  BY ClientIsLocal
<1>5. made \in Nat /\ made' \in {made, made + 1}
      /\ \A k \in Clients : InUse(k) \in Nat /\ InUse(k) <= made
  <2>1. made \in Nat /\ \A k \in Clients : InUse(k) \in Nat
    <3>1. made \in Nat /\ Conns \cup {NoConn} \subseteq Nat
      BY <1>1, SessionAssumption DEF TypeOK, Conns, NoConn, SessionAssumption
    <3>2. ASSUME NEW k \in Clients
          PROVE  InUse(k) \in Conns \cup {NoConn}
      <4>1. ws[k] \in Conns \cup {NoConn} /\ trying[k] \in Conns \cup {NoConn}
        BY <1>1 DEF TypeOK
      <4> QED BY <4>1 DEF InUse
    <3> QED BY <3>1, <3>2
  <2> QED BY <1>1, <2>1, ClientIsLocal DEF Ownership
<1>6. \A k \in Clients \ {j} : InUse(k)' = InUse(k)
  BY <1>4 DEF InUse
<1>7. Ownership'
  <2>1. \A k \in Clients : InUse(k)' <= made'
    BY <1>3, <1>5, <1>6 DEF Next1, NoConn
  <2>2. \A k, i \in Clients : k # i /\ InUse(k)' = InUse(i)' => InUse(k)' = NoConn
    BY <1>1, <1>3, <1>5, <1>6 DEF Next1, Ownership, NoConn
  <2>3. \A k \in Clients : /\ trying'[k] # NoConn <=> pc'[k] = "meta"
                           /\ pc'[k] \in {"open", "meta"} => ws'[k] = NoConn
                           /\ pc'[k] = "answer" => ws'[k] # NoConn
    BY <1>1, <1>3, <1>4 DEF Next1, Ownership
  <2> QED BY <2>1, <2>2, <2>3 DEF Ownership
<1>8. Unused'
  <2> SUFFICES ASSUME NEW c \in Conns, c > made'
               PROVE  hpc'[c] = "none" /\ inbox'[c] = <<>> /\ outbox'[c] = <<>>
    BY DEF Unused
  <2>1. c > made /\ c # InUse(j) /\ c \in Nat
    BY <1>5 DEF Conns
  <2>2. hpc'[c] = hpc[c] /\ inbox'[c] = inbox[c] /\ outbox'[c] = outbox[c]
    <3> USE DEF serverVars, wireVars, clientVars
    <3>1. CASE Connect(j)
      BY <1>1, <2>1, <3>1 DEF Connect, TypeOK
    <3>2. CASE Connected(j)
      BY <1>1, <2>1, <3>2 DEF Connected, Send, InUse, TypeOK
    <3>3. CASE Infer(j)
      BY <1>1, <2>1, <3>3 DEF Infer, Send, InUse, TypeOK, Ownership
    <3>4. CASE Answered(j)
      BY <1>1, <2>1, <3>4 DEF Answered, Abort, InUse, TypeOK
    <3> QED BY <3>1, <3>2, <3>3, <3>4 DEF ClientStep, InferConnects, Reset, Close, Unreachable,
               HandshakeFails, InferFails, Abort
  <2> QED BY <1>1, <2>1, <2>2 DEF Unused
<1>9. \A k \in Clients : Flow(k)'
  BY <1>3, OthersKeepPhase DEF Next1
<1> QED BY <1>2, <1>7, <1>8, <1>9 DEF SessionInv
-----------------------------------------------------------------------------
LEMMA InitSession == Init => SessionInv
<1> SUFFICES ASSUME Init PROVE SessionInv
  OBVIOUS
<1>1. TypeOK
  BY InitTypes
<1>2. Ownership
  BY DEF Init, Ownership, InUse, NoConn
<1>3. Unused
  BY DEF Init, Unused
<1>4. \A k \in Clients : Flow(k)
  BY DEF Init, Flow
<1> QED BY <1>1, <1>2, <1>3, <1>4 DEF SessionInv

LEMMA StepSession == SessionInv /\ [Next]_vars => SessionInv'
<1> SUFFICES ASSUME SessionInv, [Next]_vars PROVE SessionInv'
  OBVIOUS
<1>1. ASSUME NEW k \in Clients, ClientStep(k) PROVE SessionInv'
  BY <1>1, ClientKeeps
<1>2. ASSUME NEW c \in Conns, Break(c) PROVE SessionInv'
  BY <1>2, BreakKeeps
<1>3. ASSUME NEW c \in Conns, Handler(c) PROVE SessionInv'
  BY <1>3, HandlerKeeps
<1>4. CASE UNCHANGED vars
  BY <1>4 DEF vars, clientVars, wireVars, serverVars, SessionInv, TypeOK, Ownership, Unused,
              InUse, Flow, Quiet, Greeting, Pending
<1> QED BY <1>1, <1>2, <1>3, <1>4 DEF Next

(* The inductive invariant: connections have one owner, and each carries   *)
(* what belongs to the phase its owner is in.                              *)
THEOREM SessionIsInPhase == Spec => []SessionInv
BY InitSession, StepSession, PTL DEF Spec

(* Whatever times out, breaks or is closed, and however many clients share *)
(* the server, a frame read by infer (client.py) is the answer, or the     *)
(* error, to the request that this infer has sent.                         *)
THEOREM AnswersAreMine == Spec => []AnswerIsMine
<1>1. SessionInv => AnswerIsMine
  <2> SUFFICES ASSUME SessionInv, NEW k \in Clients, pc[k] = "answer", outbox[ws[k]] # <<>>
               PROVE  Head(outbox[ws[k]]).id = sent[k]
    BY DEF AnswerIsMine
  <2>1. Pending(ws[k], sent[k])
    BY DEF SessionInv, Flow
  <2>2. PICK kind \in {"answer", "error"} : outbox[ws[k]] = <<[kind |-> kind, id |-> sent[k]]>>
    BY <2>1 DEF Pending
  <2> QED BY <2>2
<1> QED BY <1>1, SessionIsInPhase, PTL

(* _policy_lock (server.py) is taken around every reset and every infer:   *)
(* whoever is inside the model holds it, so never two handlers.            *)
THEOREM ModelIsNotShared == Spec => []OneInModel
<1>1. Init => OneInModel
  BY DEF Init, OneInModel
<1>2. TypeOK /\ OneInModel /\ [Next]_vars => OneInModel'
  <2> SUFFICES ASSUME TypeOK, OneInModel, [Next]_vars, NEW c \in Conns, hpc'[c] \in {"reset", "infer"}
               PROVE  lock' = c
    BY DEF OneInModel
  <2> USE DEF serverVars, wireVars, clientVars
  <2>1. ASSUME NEW k \in Clients, ClientStep(k) PROVE lock' = c
    <3>1. lock' = lock /\ (hpc' = hpc \/ hpc' = [hpc EXCEPT ![made + 1] = "wantReset"])
      BY <2>1 DEF ClientStep, Infer, InferConnects, Reset, Close, Connect, Unreachable, Connected,
                  HandshakeFails, Answered, InferFails
    <3>2. hpc[c] \in {"reset", "infer"}
      BY <3>1 DEF TypeOK
    <3> QED BY <3>1, <3>2 DEF OneInModel
  <2>2. ASSUME NEW d \in Conns, Break(d) PROVE lock' = c
    BY <2>2 DEF Break, OneInModel
  <2>3. ASSUME NEW d \in Conns, Handler(d) PROVE lock' = c
    <3>1. CASE EnterReset(d) \/ EnterInfer(d)
      <4>1. lock = NoConn /\ lock' = d /\ (c # d => hpc'[c] = hpc[c])
        BY <3>1 DEF EnterReset, EnterInfer, LockFree, TypeOK
      <4> QED BY <4>1, SessionAssumption DEF OneInModel, Conns, NoConn, SessionAssumption
    <3>2. CASE LeaveReset(d) \/ ResetRaises(d) \/ LeaveInfer(d)
      <4>1. hpc[d] \in {"reset", "infer"} /\ hpc'[d] \notin {"reset", "infer"} /\ (c # d => hpc'[c] = hpc[c])
        BY <3>2 DEF LeaveReset, ResetRaises, LeaveInfer, TypeOK
      <4> QED BY <4>1 DEF OneInModel
    <3>3. CASE SendMetadata(d) \/ Receive(d) \/ Disconnected(d) \/ SendAnswer(d) \/ SendError(d)
      <4>1. lock' = lock /\ hpc'[d] \notin {"reset", "infer"} /\ (c # d => hpc'[c] = hpc[c])
        BY <3>3 DEF SendMetadata, Receive, Disconnected, SendAnswer, SendError, Reply, TypeOK
      <4> QED BY <4>1 DEF OneInModel
    <3> QED BY <2>3, <3>1, <3>2, <3>3 DEF Handler
  <2>4. CASE UNCHANGED vars
    BY <2>4 DEF vars, OneInModel
  <2> QED BY <2>1, <2>2, <2>3, <2>4 DEF Next
<1>3. SessionInv => TypeOK
  BY DEF SessionInv
<1> QED BY <1>1, <1>2, <1>3, SessionIsInPhase, PTL DEF Spec
=============================================================================
