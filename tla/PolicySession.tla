---------------------------- MODULE PolicySession ----------------------------
(***************************************************************************)
(* The policy protocol: WebSocketPolicyClient (kuavo_policy_protocol/      *)
(* client.py) against WebSocketPolicyServer (server.py) with one model     *)
(* behind it.  Every connection gets a handler thread on the server, which *)
(* resets the model, sends the metadata and then serves requests; all      *)
(* handlers share the model under one lock.                                *)
(*                                                                         *)
(* A model with memory (the diffusion policy keeps observation and action  *)
(* queues) is represented by fed, the requests it has seen since its last  *)
(* reset.  Clients are the PolicyClients and RTC workers that share the    *)
(* server; each one makes one call at a time (client.py takes its _lock).  *)
(*                                                                         *)
(* Faults are timeouts of the client and connections that break.  A broken *)
(* connection and one closed by either side look alike: open is FALSE,     *)
(* frames sent before may still be read.                                   *)
(***************************************************************************)
EXTENDS Integers, Sequences

CONSTANTS Clients,      \* the client objects that share the server
          Faults,       \* whether calls may time out and connections break
          MaxConns,     \* bound: connections over a run
          MaxRequests   \* bound: requests over a run

ASSUME SessionAssumption ==
    /\ Faults \in BOOLEAN
    /\ MaxConns \in Nat /\ MaxRequests \in Nat

VARIABLES
    pc,       \* per client: idle, open, meta or answer
    call,     \* per client: the call it is in, infer or reset
    ws,       \* per client: _ws, a connection or NoConn
    trying,   \* per client: the connection whose metadata it waits for
    sent,     \* per client: the request it sent last
    made,     \* connections opened so far
    asked,    \* requests sent so far
    open,     \* per connection: neither side closed it
    inbox,    \* per connection: requests on their way to the handler
    outbox,   \* per connection: frames on their way to the client
    hpc,      \* per connection: where its handler thread is
    serving,  \* per connection: the request its handler serves
    lock,     \* _policy_lock: the connection whose handler holds it
    fed,      \* what the model has seen since its last reset
    served    \* history: per connection, the requests it was served

clientVars == <<pc, call, ws, trying, sent, made, asked>>
wireVars   == <<open, inbox, outbox>>
serverVars == <<hpc, serving, lock, fed, served>>
vars == <<clientVars, wireVars, serverVars>>
-----------------------------------------------------------------------------
NoConn  == 0
Conns   == 1..MaxConns
NoAsk   == 0
Frame   == [kind : {"meta", "answer", "error"}, id : Nat]

\* The first frame of a connection.
Meta     == [kind |-> "meta", id |-> NoAsk]

Init ==
    /\ pc = [k \in Clients |-> "idle"]
    /\ call = [k \in Clients |-> "reset"]
    /\ ws = [k \in Clients |-> NoConn]
    /\ trying = [k \in Clients |-> NoConn]
    /\ sent = [k \in Clients |-> NoAsk]
    /\ made = 0
    /\ asked = 0
    /\ open = [c \in Conns |-> FALSE]
    /\ inbox = [c \in Conns |-> <<>>]
    /\ outbox = [c \in Conns |-> <<>>]
    /\ hpc = [c \in Conns |-> "none"]
    /\ serving = [c \in Conns |-> NoAsk]
    /\ lock = NoConn
    /\ fed = <<>>
    /\ served = [c \in Conns |-> <<>>]
-----------------------------------------------------------------------------
(***************************************************************************)
(* The client.                                                             *)
(***************************************************************************)
\* close(): forget the socket and close it.  Mutant: the socket is kept.
Kept(k)   == UNCHANGED <<ws, open>>
Closed(k) == /\ ws' = [ws EXCEPT ![k] = NoConn]
             /\ open' = IF ws[k] = NoConn THEN open
                        ELSE [open EXCEPT ![ws[k]] = FALSE]

\* What a call does when it fails with an exception of the transport.
Abort(k) == /\ Closed(k)
            /\ pc' = [pc EXCEPT ![k] = "idle"]

\* Every request is a new observation.
NextAsk == asked + 1

\* _ws.send of a new request on connection c.
Send(k, c) ==
    /\ asked < MaxRequests
    /\ asked' = NextAsk
    /\ sent' = [sent EXCEPT ![k] = NextAsk]
    /\ inbox' = [inbox EXCEPT ![c] = Append(@, NextAsk)]
    /\ pc' = [pc EXCEPT ![k] = "answer"]

\* infer on a live connection; if it is gone, send raises.
Infer(k) ==
    /\ pc[k] = "idle" /\ ws[k] # NoConn
    /\ call' = [call EXCEPT ![k] = "infer"]
    /\ IF open[ws[k]]
       THEN /\ Send(k, ws[k])
            /\ UNCHANGED <<ws, open>>
       ELSE /\ Abort(k)
            /\ UNCHANGED <<sent, asked, inbox>>
    /\ UNCHANGED <<trying, made, outbox, serverVars>>

\* infer without a connection connects first.
InferConnects(k) ==
    /\ pc[k] = "idle" /\ ws[k] = NoConn
    /\ asked < MaxRequests
    /\ call' = [call EXCEPT ![k] = "infer"]
    /\ pc' = [pc EXCEPT ![k] = "open"]
    /\ UNCHANGED <<ws, trying, sent, made, asked, wireVars, serverVars>>

Reset(k) ==
    /\ pc[k] = "idle"
    /\ Closed(k)
    /\ call' = [call EXCEPT ![k] = "reset"]
    /\ pc' = [pc EXCEPT ![k] = "open"]
    /\ UNCHANGED <<trying, sent, made, asked, inbox, outbox, serverVars>>

Close(k) ==
    /\ pc[k] = "idle" /\ ws[k] # NoConn
    /\ Closed(k)
    /\ UNCHANGED <<pc, call, trying, sent, made, asked, inbox, outbox, serverVars>>

\* _connect, one turn of its loop: the connection is up and has a handler.
Connect(k) ==
    /\ pc[k] = "open"
    /\ made < MaxConns
    /\ made' = made + 1
    /\ trying' = [trying EXCEPT ![k] = made + 1]
    /\ open' = [open EXCEPT ![made + 1] = TRUE]
    /\ hpc' = [hpc EXCEPT ![made + 1] = "wantReset"]
    /\ pc' = [pc EXCEPT ![k] = "meta"]
    /\ UNCHANGED <<call, ws, sent, asked, inbox, outbox, serving, lock, fed, served>>

\* The server cannot be reached until the deadline, or the bound is.
Unreachable(k) ==
    /\ pc[k] = "open"
    /\ Faults \/ made = MaxConns
    /\ pc' = [pc EXCEPT ![k] = "idle"]
    /\ UNCHANGED <<call, ws, trying, sent, made, asked, wireVars, serverVars>>

\* The metadata is in: reset returns, infer goes on to send.
Connected(k) ==
    LET c == trying[k]
    IN  /\ pc[k] = "meta"
        /\ outbox[c] # <<>> /\ Head(outbox[c]) = Meta
        /\ outbox' = [outbox EXCEPT ![c] = Tail(@)]
        /\ trying' = [trying EXCEPT ![k] = NoConn]
        /\ IF call[k] = "reset"
           THEN /\ ws' = [ws EXCEPT ![k] = c]
                /\ pc' = [pc EXCEPT ![k] = "idle"]
                /\ UNCHANGED <<sent, asked, inbox, open>>
           ELSE IF open[c]
           THEN /\ ws' = [ws EXCEPT ![k] = c]
                /\ Send(k, c)
                /\ UNCHANGED open
           ELSE /\ pc' = [pc EXCEPT ![k] = "idle"]
                /\ UNCHANGED <<ws, sent, asked, inbox, open>>
        /\ UNCHANGED <<call, made, serverVars>>

\* No metadata in time, or the connection broke: the loop tries again until the
\* deadline has passed.  The socket it gives up is never closed.
HandshakeFails(k) ==
    /\ pc[k] = "meta"
    /\ Faults \/ ~open[trying[k]]
    /\ trying' = [trying EXCEPT ![k] = NoConn]
    /\ \E next \in {"open", "idle"} : pc' = [pc EXCEPT ![k] = next]
    /\ UNCHANGED <<call, ws, sent, made, asked, wireVars, serverVars>>

\* recv returns: a binary frame is the answer; a text frame is the server's
\* error, on which the client closes and raises.
Answered(k) ==
    /\ pc[k] = "answer" /\ ws[k] # NoConn
    /\ outbox[ws[k]] # <<>>
    /\ outbox' = [outbox EXCEPT ![ws[k]] = Tail(@)]
    /\ IF Head(outbox[ws[k]]).kind = "error"
       THEN Abort(k)
       ELSE /\ pc' = [pc EXCEPT ![k] = "idle"]
            /\ UNCHANGED <<ws, open>>
    /\ UNCHANGED <<call, trying, sent, made, asked, inbox, serverVars>>

\* recv(timeout=request_timeout_s).  Mutant: recv waits for ever.
NoTimeout == FALSE
RecvTimesOut == Faults

\* recv times out, or the connection broke.
InferFails(k) ==
    /\ pc[k] = "answer"
    /\ \/ RecvTimesOut
       \/ ws[k] # NoConn /\ ~open[ws[k]] /\ outbox[ws[k]] = <<>>
    /\ Abort(k)
    /\ UNCHANGED <<call, trying, sent, made, asked, inbox, outbox, serverVars>>

\* The network drops a connection.
Break(c) ==
    /\ Faults /\ open[c]
    /\ open' = [open EXCEPT ![c] = FALSE]
    /\ UNCHANGED <<clientVars, inbox, outbox, serverVars>>
-----------------------------------------------------------------------------
(***************************************************************************)
(* The handler thread of connection c.                                     *)
(***************************************************************************)
\* _policy_lock.acquire.
LockFree(c)    == lock = NoConn

EnterReset(c) ==
    /\ hpc[c] = "wantReset"
    /\ LockFree(c)
    /\ lock' = c
    /\ hpc' = [hpc EXCEPT ![c] = "reset"]
    /\ UNCHANGED <<clientVars, wireVars, serving, fed, served>>

LeaveReset(c) ==
    /\ hpc[c] = "reset"
    /\ fed' = <<>>
    /\ lock' = NoConn
    /\ hpc' = [hpc EXCEPT ![c] = "greet"]
    /\ UNCHANGED <<clientVars, wireVars, serving, served>>

\* The model's reset raises, before or after it forgot: the exception leaves
\* the handler, and the server closes the connection without a frame.
ResetRaises(c) ==
    /\ hpc[c] = "reset"
    /\ fed' \in {fed, <<>>}
    /\ lock' = NoConn
    /\ hpc' = [hpc EXCEPT ![c] = "done"]
    /\ open' = [open EXCEPT ![c] = FALSE]
    /\ UNCHANGED <<clientVars, inbox, outbox, serving, served>>

\* A send on a closed connection raises ConnectionClosed and ends the handler.
Reply(c, frame, next) ==
    IF open[c]
    THEN /\ outbox' = [outbox EXCEPT ![c] = Append(@, frame)]
         /\ hpc' = [hpc EXCEPT ![c] = next]
    ELSE /\ hpc' = [hpc EXCEPT ![c] = "done"]
         /\ UNCHANGED outbox

SendMetadata(c) ==
    /\ hpc[c] = "greet"
    /\ Reply(c, Meta, "recv")
    /\ UNCHANGED <<clientVars, open, inbox, serving, lock, fed, served>>

Receive(c) ==
    /\ hpc[c] = "recv"
    /\ inbox[c] # <<>>
    /\ serving' = [serving EXCEPT ![c] = Head(inbox[c])]
    /\ inbox' = [inbox EXCEPT ![c] = Tail(@)]
    /\ hpc' = [hpc EXCEPT ![c] = "wantInfer"]
    /\ UNCHANGED <<clientVars, open, outbox, lock, fed, served>>

\* ConnectionClosed.  Mutant: the handler keeps waiting.
HangUpUnseen(c) == FALSE
HangUpSeen(c)   == ~open[c]

Disconnected(c) ==
    /\ hpc[c] = "recv"
    /\ HangUpSeen(c)
    /\ hpc' = [hpc EXCEPT ![c] = "done"]
    /\ UNCHANGED <<clientVars, wireVars, serving, lock, fed, served>>

EnterInfer(c) ==
    /\ hpc[c] = "wantInfer"
    /\ LockFree(c)
    /\ lock' = c
    /\ hpc' = [hpc EXCEPT ![c] = "infer"]
    /\ UNCHANGED <<clientVars, wireVars, serving, fed, served>>

\* The model has seen the request, whether its answer is valid or not.
LeaveInfer(c) ==
    /\ hpc[c] = "infer"
    /\ fed' = Append(fed, serving[c])
    /\ served' = [served EXCEPT ![c] = Append(@, serving[c])]
    /\ lock' = NoConn
    /\ \E next \in {"reply", "fail"} : hpc' = [hpc EXCEPT ![c] = next]
    /\ UNCHANGED <<clientVars, wireVars, serving>>

SendAnswer(c) ==
    /\ hpc[c] = "reply"
    /\ Reply(c, [kind |-> "answer", id |-> serving[c]], "recv")
    /\ UNCHANGED <<clientVars, open, inbox, serving, lock, fed, served>>

\* An exception of the model goes out as a text frame, then the server closes.
SendError(c) ==
    /\ hpc[c] = "fail"
    /\ Reply(c, [kind |-> "error", id |-> serving[c]], "done")
    /\ open' = [open EXCEPT ![c] = FALSE]
    /\ UNCHANGED <<clientVars, inbox, serving, lock, fed, served>>
-----------------------------------------------------------------------------
ClientStep(k) == \/ Infer(k) \/ InferConnects(k) \/ Reset(k) \/ Close(k)
                 \/ Connect(k) \/ Unreachable(k) \/ Connected(k)
                 \/ HandshakeFails(k) \/ Answered(k) \/ InferFails(k)

Handler(c) == \/ EnterReset(c) \/ LeaveReset(c) \/ ResetRaises(c) \/ SendMetadata(c)
              \/ Receive(c) \/ Disconnected(c) \/ EnterInfer(c) \/ LeaveInfer(c)
              \/ SendAnswer(c) \/ SendError(c)

Next == \/ \E k \in Clients : ClientStep(k)
        \/ \E c \in Conns : Break(c) \/ Handler(c)

Spec == Init /\ [][Next]_vars
-----------------------------------------------------------------------------
(***************************************************************************)
(* Properties.                                                             *)
(***************************************************************************)
TypeOK ==
    /\ pc \in [Clients -> {"idle", "open", "meta", "answer"}]
    /\ call \in [Clients -> {"infer", "reset"}]
    /\ ws \in [Clients -> Conns \cup {NoConn}]
    /\ trying \in [Clients -> Conns \cup {NoConn}]
    /\ sent \in [Clients -> 0..MaxRequests]
    /\ made \in 0..MaxConns /\ asked \in 0..MaxRequests
    /\ open \in [Conns -> BOOLEAN]
    /\ inbox \in [Conns -> Seq(0..MaxRequests)]
    /\ outbox \in [Conns -> Seq(Frame)]
    /\ hpc \in [Conns -> {"none", "wantReset", "reset", "greet", "recv",
                          "wantInfer", "infer", "reply", "fail", "done"}]
    /\ serving \in [Conns -> 0..MaxRequests]
    /\ lock \in Conns \cup {NoConn}
    /\ fed \in Seq(Nat)
    /\ served \in [Conns -> Seq(Nat)]

(* The frame a waiting infer reads is the answer to the request it sent,     *)
(* never a late answer to a request it gave up (infer closes the socket on   *)
(* every failure).                                                           *)
AnswerIsMine ==
    \A k \in Clients :
        pc[k] = "answer" /\ ws[k] # NoConn /\ outbox[ws[k]] # <<>>
            => Head(outbox[ws[k]]).id = sent[k]

(* Only one request or reset is inside the model at a time, and it is the    *)
(* holder of _policy_lock.                                                   *)
OneInModel == \A c \in Conns : hpc[c] \in {"reset", "infer"} => lock = c

(* A new connection starts from a reset model: its first inference finds no  *)
(* trace of an earlier session.  It may find one, because the handler gives  *)
(* the lock away between the reset and the inference; no run checks it.      *)
FirstInferenceIsFresh ==
    \A c \in Conns : hpc[c] = "infer" /\ served[c] = <<>> => fed = <<>>

-----------------------------------------------------------------------------
(***************************************************************************)
(* Liveness.  Threads run, the lock is handed to a waiting handler, and    *)
(* every wait of the client has a timeout.  Nothing is assumed of the      *)
(* model: a reset or an inference may hang unless ModelReturns.            *)
(***************************************************************************)
Waits(k) == \/ Connect(k) \/ Unreachable(k) \/ Connected(k)
            \/ HandshakeFails(k) \/ Answered(k) \/ InferFails(k)

Replies(c) == \/ SendMetadata(c) \/ Receive(c) \/ Disconnected(c)
              \/ SendAnswer(c) \/ SendError(c)

Fairness ==
    /\ \A k \in Clients : WF_vars(Waits(k))
    /\ \A c \in Conns : /\ WF_vars(Replies(c))
                        /\ SF_vars(EnterReset(c)) /\ SF_vars(EnterInfer(c))

FairSpec == Spec /\ Fairness

ModelReturns == \A c \in Conns : WF_vars(LeaveReset(c) \/ ResetRaises(c) \/ LeaveInfer(c))

(* A request that was sent is answered or fails even if the model hangs: the *)
(* control loop is never stuck in infer.                                     *)
InferEnds == \A k \in Clients : pc[k] = "answer" ~> pc[k] # "answer"

(* While the model returns, the handler thread of a closed connection ends.  *)
ClosedHandlersEnd ==
    ModelReturns =>
        \A c \in Conns : hpc[c] # "none" /\ ~open[c] ~> hpc[c] = "done"
=============================================================================
