---------------------------- MODULE FramedCalls ----------------------------
(***************************************************************************)
(* The JavaScript ClientV2 over its FramedConn: promises that wait for     *)
(* exact byte counts of one buffer, resolved by _pump as chunks arrive.    *)
(* Nothing stops the application from starting a call before the previous  *)
(* one settled; MaxOverlap says how many it lets overlap.  The peer is the *)
(* JavaScript ServerV2, which answers messages one at a time.              *)
(*                                                                         *)
(* Every response frame has FrameSize bytes, so the bytes the client       *)
(* receives are known by their offset: a read is in step when it starts on *)
(* the boundary it expects.                                                *)
(*                                                                         *)
(* One event-loop callback is one action; the continuations of the reads   *)
(* it resolved (ready) run before the next callback does.                  *)
(***************************************************************************)
EXTENDS Integers, Sequences, FiniteSets

CONSTANTS
  MaxCalls,    \* bound: calls the application makes
  MaxOverlap,  \* bound: calls not settled at one time
  Garbage,     \* lengths within the cap that misread bytes may announce
  Cuts         \* where in a frame a chunk may end

PrefixSize == 4
SmallestFrame == 28
SealedResponse == 41
FrameSize == PrefixSize + SealedResponse

ASSUME BoundsAssumption == MaxCalls \in Nat /\ MaxOverlap \in Nat \ {0}
ASSUME CutsAssumption == Cuts \subseteq 0..(FrameSize - 1) /\ 0 \in Cuts
ASSUME GarbageAssumption ==
  Garbage \subseteq Nat /\ \A g \in Garbage : g >= SmallestFrame

VARIABLES
  calls,    \* history: the calls, where each is and how it ended
  overlapped, \* history: a call started before the previous one settled
  writes,   \* calls whose socket.write callback is due
  waiters,  \* FramedConn.waiters
  ready,    \* settled reads whose continuation has not run yet
  off,      \* bytes of the stream taken from the buffer
  have,     \* bytes of the stream that arrived
  ended,    \* the socket ended, closed or failed
  recvSeq,
  inbox,    \* messages on their way to the server
  answers,  \* history: the message each response answers
  spc       \* handleConnection

clientVars == <<calls, overlapped, writes, waiters, ready, off, have, ended, recvSeq>>
serverVars == <<inbox, answers, spc>>
vars == <<clientVars, serverVars>>

Settled(k) == calls[k].pc = "done"
Outstanding == {k \in DOMAIN calls : ~Settled(k)}

Settle(k, out, n) ==
  calls' = [calls EXCEPT ![k] = [pc |-> "done", out |-> out, n |-> n]]
GoTo(k, pc) == calls' = [calls EXCEPT ![k].pc = pc]

-----------------------------------------------------------------------------
(* FramedConn.                                                             *)

\* _pump: the first waiter takes its bytes if they are there; if they never
\* will be, it is rejected; otherwise it holds up those behind it.
\* (mutant: it takes what is there, all its bytes or not)
Serve_Short(acc, w, h, e) ==
  IF acc.kept # <<>> \/ h = acc.off THEN [acc EXCEPT !.kept = Append(@, w)]
  ELSE [acc EXCEPT !.off = @ + w.n,
                   !.ready = Append(@, [call |-> w.call, ok |-> TRUE,
                                        at |-> acc.off, n |-> w.n])]
Serve(acc, w, h, e) ==
  IF acc.kept # <<>> THEN [acc EXCEPT !.kept = Append(@, w)]
  ELSE IF h - acc.off >= w.n
    THEN [acc EXCEPT !.off = @ + w.n,
                     !.ready = Append(@, [call |-> w.call, ok |-> TRUE,
                                          at |-> acc.off, n |-> w.n])]
  ELSE IF e
    THEN [acc EXCEPT !.ready = Append(@, [call |-> w.call, ok |-> FALSE,
                                          at |-> acc.off, n |-> w.n])]
  ELSE [acc EXCEPT !.kept = <<w>>]

\* _pump over the waiters ws and the bytes from start on, when h bytes have
\* arrived; pending are the continuations already due.
Pumping(ws, start, h, e, pending) ==
  LET after[i \in 0..Len(ws)] ==
        IF i = 0 THEN [off |-> start, kept |-> <<>>, ready |-> pending]
        ELSE Serve(after[i - 1], ws[i], h, e)
  IN after

Pump(ws, start, h, e, pending) ==
  LET end == Pumping(ws, start, h, e, pending)[Len(ws)]
  IN /\ waiters' = end.kept
     /\ off' = end.off
     /\ ready' = end.ready

\* (mutants: no _pump after the push; the newest waiter first)
ReadExactly_NoPump(k, n, pending) ==
  /\ waiters' = Append(waiters, [call |-> k, n |-> n])
  /\ ready' = pending
  /\ UNCHANGED off
ReadExactly_Unshift(k, n, pending) ==
  Pump(<<[call |-> k, n |-> n]>> \o waiters, off, have, ended, pending)
ReadExactly(k, n, pending) ==
  Pump(Append(waiters, [call |-> k, n |-> n]), off, have, ended, pending)

\* Where the buffer starts when a chunk comes.
\* (mutant: the chunk replaces the buffer instead of being appended)
BufferStart_Replaced == have
BufferStart == off

Chunk ==
  /\ ready = <<>> /\ ~ended
  /\ \E h \in (have + 1)..(FrameSize * Len(answers)) :
       /\ h % FrameSize \in Cuts
       /\ have' = h
       /\ Pump(waiters, BufferStart, h, FALSE, <<>>)
  /\ UNCHANGED <<calls, overlapped, writes, ended, recvSeq, serverVars>>

\* 'end', 'close' or 'error': the peer's, the network's, or our own close().
End ==
  /\ ready = <<>> /\ ~ended
  /\ ended' = TRUE
  /\ Pump(waiters, off, have, TRUE, <<>>)
  /\ UNCHANGED <<calls, overlapped, writes, have, recvSeq, serverVars>>

-----------------------------------------------------------------------------
(* ClientV2._send.                                                         *)

MayStart ==
  /\ Len(calls) < MaxCalls /\ Cardinality(Outstanding) < MaxOverlap
  /\ overlapped' = (overlapped \/ Outstanding # {})

\* Up to the await of writeFrame; the number of the call is its sendSeq.  A
\* write on a socket that ended is lost, and its callback reports an error.
Call ==
  /\ ready = <<>>
  /\ MayStart
  /\ calls' = Append(calls, [pc |-> IF ended THEN "lost" ELSE "write",
                             out |-> "none", n |-> 0])
  /\ writes' = Append(writes, Len(calls'))
  /\ inbox' = IF ended THEN inbox ELSE Append(inbox, Len(calls'))
  /\ UNCHANGED <<waiters, ready, off, have, ended, recvSeq, answers, spc>>

\* ErrFrameTooLarge before the write; the number is spent.
CallRefused ==
  /\ ready = <<>>
  /\ MayStart
  /\ calls' = Append(calls, [pc |-> "done", out |-> "refused", n |-> 0])
  /\ UNCHANGED <<writes, waiters, ready, off, have, ended, recvSeq, serverVars>>

\* The write callback: _send goes on to readFrame.
WriteDone ==
  /\ ready = <<>> /\ writes # <<>> /\ calls[Head(writes)].pc = "write"
  /\ writes' = Tail(writes)
  /\ GoTo(Head(writes), "prefix")
  /\ ReadExactly(Head(writes), PrefixSize, <<>>)
  /\ UNCHANGED <<overlapped, have, ended, recvSeq, serverVars>>

\* The write callback reports an error: the socket is gone, and with it the
\* writes behind this one.
WriteFails ==
  /\ ready = <<>> /\ writes # <<>>
  /\ writes' = Tail(writes)
  /\ calls' = [k \in DOMAIN calls |->
       IF k = Head(writes) THEN [pc |-> "done", out |-> "write", n |-> 0]
       ELSE IF calls[k].pc = "write" THEN [calls[k] EXCEPT !.pc = "lost"]
       ELSE calls[k]]
  /\ ended' = TRUE
  /\ Pump(waiters, off, have, TRUE, <<>>)
  /\ UNCHANGED <<overlapped, have, recvSeq, serverVars>>

\* readFrame after the first readExactly.
GotPrefix ==
  /\ ready # <<>> /\ Head(ready).ok /\ calls[Head(ready).call].pc = "prefix"
  /\ LET r == Head(ready)
         inStep == r.at % FrameSize = 0
     IN \/ \E n \in IF inStep THEN {SealedResponse} ELSE Garbage :
             /\ GoTo(r.call, "body")
             /\ ReadExactly(r.call, n, Tail(ready))
        \/ /\ ~inStep           \* ErrFrameTooLarge or ErrFrameTooSmall
           /\ Settle(r.call, "size", 0)
           /\ ready' = Tail(ready)
           /\ UNCHANGED <<waiters, off>>
  /\ UNCHANGED <<overlapped, writes, have, ended, recvSeq, serverVars>>

\* open, deserializeResponseV2 and the replay check.
GotBody ==
  /\ ready # <<>> /\ Head(ready).ok /\ calls[Head(ready).call].pc = "body"
  /\ ready' = Tail(ready)
  /\ LET r == Head(ready)
         opens == r.at % FrameSize = PrefixSize /\ r.n = SealedResponse
         seq == r.at \div FrameSize + 1
     IN \/ opens /\ seq > recvSeq /\ Settle(r.call, "code", seq) /\ recvSeq' = seq
        \/ opens /\ seq <= recvSeq /\ Settle(r.call, "replay", 0) /\ UNCHANGED recvSeq
        \/ ~opens /\ Settle(r.call, "seal", 0) /\ UNCHANGED recvSeq
  /\ UNCHANGED <<overlapped, writes, waiters, off, have, ended, serverVars>>

\* The read was rejected.
ReadRejected ==
  /\ ready # <<>> /\ ~Head(ready).ok
  /\ Settle(Head(ready).call, "eof", 0)
  /\ ready' = Tail(ready)
  /\ UNCHANGED <<overlapped, writes, waiters, off, have, ended, recvSeq, serverVars>>

-----------------------------------------------------------------------------
(* ServerV2.handleConnection.                                              *)

Answer ==
  /\ inbox' = Tail(inbox)
  /\ answers' = Append(answers, Head(inbox))
  /\ UNCHANGED clientVars

\* ERROR for a type without handler, or the handler's code.
ServerAnswers == spc = "open" /\ inbox # <<>> /\ Answer /\ UNCHANGED spc

\* UNAUTHORIZED, then break.
ServerDenies == spc = "open" /\ inbox # <<>> /\ Answer /\ spc' = "closed"

\* The read, the handler, the callback or the response write throws.
ServerThrows ==
  /\ spc = "open"
  /\ spc' = "closed"
  /\ UNCHANGED <<clientVars, inbox, answers>>

-----------------------------------------------------------------------------
Init ==
  /\ calls = <<>> /\ overlapped = FALSE /\ writes = <<>> /\ waiters = <<>> /\ ready = <<>>
  /\ off = 0 /\ have = 0 /\ ended = FALSE /\ recvSeq = 0
  /\ inbox = <<>> /\ answers = <<>> /\ spc = "open"

Continuation == GotPrefix \/ GotBody \/ ReadRejected
ClientLoop == WriteDone \/ WriteFails \/ Continuation
Application == Call \/ CallRefused
ServerNext == ServerAnswers \/ ServerDenies \/ ServerThrows
Next == ClientLoop \/ Chunk \/ End \/ Application \/ ServerNext
Spec == Init /\ [][Next]_vars

\* The event loop runs what is due, and the network delivers the bytes of the
\* server and the end of the stream once it closed.  Nothing makes the server
\* answer.
LoopFairSpec ==
  /\ Spec /\ WF_vars(ClientLoop) /\ WF_vars(Chunk)
  /\ WF_vars(spc = "closed" /\ End)

TypeOK ==
  /\ calls \in Seq([pc : {"write", "lost", "prefix", "body", "done"}, n : Nat,
                    out : {"none", "code", "refused", "write", "eof", "size",
                           "seal", "replay"}])
  /\ writes \in Seq(Nat)
  /\ waiters \in Seq([call : Nat, n : Nat])
  /\ ready \in Seq([call : Nat, ok : BOOLEAN, at : Nat, n : Nat])
  /\ off \in Nat /\ have \in Nat /\ off <= have
  /\ ended \in BOOLEAN /\ overlapped \in BOOLEAN /\ recvSeq \in Nat
  /\ inbox \in Seq(Nat) /\ answers \in Seq(Nat)
  /\ spc \in {"open", "closed"}

-----------------------------------------------------------------------------
\* A call of an application that awaits every call returns the code for its
\* own message.  Calls that overlapped may have misread lengths until they
\* were back in step, on the frame of another call.
OwnCode == ~overlapped => \A k \in DOMAIN calls :
  calls[k].out = "code" => answers[calls[k].n] = k

\* Also when calls overlap and fall out of step, the codes they return are
\* those of different responses, the later call's the later one: waiters are
\* served in the order of the writes, and _send checks recvSeq.
CodesInOrder == \A j, k \in DOMAIN calls :
  j < k /\ calls[j].out = "code" /\ calls[k].out = "code"
    => calls[j].n < calls[k].n

\* An application that awaits every call stays in step, however the bytes are
\* cut into chunks: a call ends in its code, in a refusal before the write, or
\* because the connection ended.
AwaitedInStep ==
  ~overlapped => \A k \in DOMAIN calls :
    calls[k].out \in {"none", "code", "refused", "write", "eof"}

\* No promise stays pending once the socket ended: _pump rejects the waiters,
\* and readExactly calls it for those who come later.
EndSettlesAll == ended ~> (Outstanding = {})

\* An application that awaits every call gets the code of each message the
\* server answered, or sees the connection end.
AnsweredSettles == \A k \in 1..MaxCalls :
  (\E i \in DOMAIN answers : answers[i] = k)
    ~> (overlapped \/ (k \in DOMAIN calls /\ Settled(k)))
=============================================================================
