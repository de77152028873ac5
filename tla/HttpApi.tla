------------------------------ MODULE HttpApi -------------------------------
(***************************************************************************)
(* HTTPAPIEX_ExecuteRequest(), which every message to and from the hub goes *)
(* through, with the two layers below it: the compact HTTP client and the   *)
(* TLS adapter around the one static WiFiClientSecure of the firmware.  The *)
(* caller waits: what interleaves with the steps below is the connection,   *)
(* which may drop or go silent between any two of them.                     *)
(*                                                                          *)
(* pc is where the call has got to: "try" is the head of the resilient loop *)
(* of httpapiex.c, whose level k is -1 (nothing done), 0 (before            *)
(* HTTPAPI_Init), 1 (before HTTPAPI_CreateConnection) or 2 (a connection    *)
(* handle exists); the others are the stages of HTTPAPI_ExecuteRequest().   *)
(* An answer travels as a sequence of units, a line or a block of content   *)
(* each; "of" is the execution of the request it answers.                   *)
(***************************************************************************)
EXTENDS Integers, Sequences

CONSTANTS
  Answers,       \* the answers of the hub: sequences of Kinds
  MaxFaults      \* bound: faults in one behaviour

Kinds == {"status", "header", "length", "chunked", "blank",
          "data", "size", "zero", "crlf"}

Bodies == {"none", "length", "chunked"}

\* The shape of an answer whose headers end at b and announce content: a status
\* line, then header lines, of which one at least is not about the content (the
\* hub sends Date, Server and, with a command, its ETag), then as announced
\* nothing, one block, or chunks up to one of size zero and a CRLF.
AfterUnit == [blank |-> {"size", "zero"}, data |-> {"size", "zero"},
              size |-> {"data"}, zero |-> {"crlf"}, crlf |-> {}]
Shape(a, b, announced) ==
  /\ a \in Seq(Kinds) /\ b \in 3..Len(a) /\ announced \in Bodies
  /\ a[1] = "status" /\ a[2] = "header" /\ a[b] = "blank"
  /\ \A i \in 3..(b - 1) : a[i] \in {"header", announced} \ {"none"}
  /\ announced = "none" => Len(a) = b
  /\ announced # "none" => \E i \in 3..(b - 1) : a[i] = announced
  /\ announced = "length" => Len(a) = b + 1 /\ a[b + 1] = "data"
  /\ announced = "chunked" =>
       /\ \A i \in (b + 1)..Len(a) : a[i] \in AfterUnit[a[i - 1]]
       /\ Len(a) > b /\ a[Len(a)] = "crlf"

ASSUME AnswerAssumption ==
  /\ MaxFaults \in Nat
  /\ \A a \in Answers :
       \E b \in DOMAIN a, announced \in Bodies : Shape(a, b, announced)

VARIABLES
  pc,
  k, st,               \* HTTPAPIEX_HANDLE_DATA.k; st[k]: already been tried
  state, is_connected, \* the TLS adapter's state; HTTP_HANDLE_DATA
  received,            \* received_bytes: units read from the socket
  content,             \* the request has content
  body,                \* what the headers said: "none", "length", "chunked"
  \* the world: the socket, whether it has gone silent, the units under way
  sslClient, silent, coming,
  \* history: see HttpCall; kept: the call began on a connection kept open;
  \* callFaults: the faults this call has met
  executed, headers, result, kept, callFaults, faults

stepVars  == <<k, st>>
tlsVars   == <<state, is_connected, received>>
answerVars == <<content, body>>
wireVars  == <<sslClient, silent, coming>>
historyVars == <<executed, headers, result, kept>>
faultVars == <<callFaults, faults>>
vars == <<pc, stepVars, tlsVars, answerVars, wireVars, historyVars, faultVars>>

LineStages == {"status", "headers", "size"}     \* readLine() with a timeout
BlockStages == {"sized", "chunk", "crlf"}       \* readChunk() without one
Stages == {"idle", "try", "open", "heads", "content"}
            \cup LineStages \cup BlockStages
Unit == [kind : Kinds, of : 1..3]
TlsStates == {"none", "closed", "open", "error"}

TypeOK ==
  /\ pc \in Stages
  /\ k \in -1..2 /\ st \in [0..2 -> BOOLEAN]
  /\ state \in TlsStates /\ is_connected \in BOOLEAN
  /\ received \in Seq(Unit) /\ coming \in Seq(Unit)
  /\ content \in BOOLEAN /\ body \in Bodies
  /\ sslClient \in BOOLEAN /\ silent \in BOOLEAN
  /\ executed \in 0..3 /\ headers \subseteq 1..3
  /\ result \in {"none", "ok", "failed", "lost"}
  /\ kept \in BOOLEAN
  /\ callFaults \in Nat /\ faults \in 0..MaxFaults

Init ==
  /\ pc = "idle" /\ k = -1 /\ st = [l \in 0..2 |-> FALSE]
  /\ state = "none" /\ is_connected = FALSE /\ received = <<>>
  /\ content = FALSE /\ body = "none"
  /\ sslClient = FALSE /\ silent = FALSE /\ coming = <<>>
  /\ executed = 0 /\ headers = {} /\ result = "none"
  /\ kept = FALSE /\ callFaults = 0 /\ faults = 0

Fault == /\ faults < MaxFaults
         /\ faults' = faults + 1 /\ callFaults' = callFaults + 1
NoFault == UNCHANGED faultVars

-----------------------------------------------------------------------------
(* The resilient loop of httpapiex.c.                                      *)

\* A connection that broke or went silent before the call meets the call.
Call(withContent) ==
  /\ pc = "idle"
  /\ pc' = "try" /\ k' = (IF k = -1 THEN 0 ELSE k)
  /\ st' = [l \in 0..2 |-> FALSE]
  /\ content' = withContent /\ body' = "none"
  /\ executed' = 0 /\ headers' = {} /\ result' = "none"
  /\ kept' = (k = 2)
  /\ callFaults' = (IF k = 2 /\ (~sslClient \/ silent) THEN 1 ELSE 0)
  /\ UNCHANGED <<tlsVars, wireVars, faults>>

\* Mutant: a step may be tried any number of times.
OnwardUnmarked == /\ st' = [st EXCEPT ![k + 1] = FALSE]
                  /\ k' = k + 1 /\ pc' = "try"

Onward == /\ st' = [st EXCEPT ![k] = TRUE, ![k + 1] = FALSE]
          /\ k' = k + 1 /\ pc' = "try"

\* Mutant: the first step that fails ends the call.
BackToTheStart == /\ st' = [st EXCEPT ![k] = FALSE]
                  /\ k' = -1 /\ pc' = "idle" /\ result' = "failed"

\* goOn == false: one level back; below level 0 the call has failed.
Back == /\ st' = [st EXCEPT ![k] = FALSE]
        /\ k' = k - 1
        /\ pc' = (IF k = 0 THEN "idle" ELSE "try")
        /\ result' = (IF k = 0 THEN "failed" ELSE result)

\* Mutant: the handles are freed, the socket is not stopped.
CloseConnectionHandles ==
  /\ state' = "none" /\ is_connected' = FALSE
  /\ UNCHANGED wireVars

\* HTTPAPI_CloseConnection(): tlsio_arduino_close() stops the socket only from
\* state OPEN; the handles are freed.
CloseConnection ==
  /\ state' = "none" /\ is_connected' = FALSE
  /\ sslClient' = (sslClient /\ state # "open")
  /\ coming' = (IF state = "open" THEN <<>> ELSE coming)
  /\ silent' = (silent /\ state # "open")

\* Mutant: a request that fails is tried again on its connection.
FailInPlace == /\ received' = <<>> /\ pc' = "try"
               /\ UNCHANGED <<stepVars, state, is_connected, wireVars>>
               /\ UNCHANGED <<answerVars, historyVars>>

\* HTTPAPI_ExecuteRequest() fails at any of its stages: what was received is
\* discarded and the connection closed.
Fail == /\ received' = <<>>
        /\ Back /\ CloseConnection
        /\ UNCHANGED <<answerVars, executed, headers, kept>>

AlreadyTried ==
  /\ pc = "try" /\ st[k] /\ k < 2
  /\ Back /\ NoFault
  /\ UNCHANGED <<tlsVars, answerVars, wireVars, executed, headers, kept>>

HTTPAPI_Init ==
  /\ pc = "try" /\ k = 0 /\ ~st[0]
  /\ Onward /\ NoFault
  /\ UNCHANGED <<tlsVars, answerVars, wireVars, historyVars>>

HTTPAPI_CreateConnection ==
  /\ pc = "try" /\ k = 1 /\ ~st[1]
  /\ Onward /\ NoFault
  /\ state' = "closed" /\ is_connected' = FALSE /\ received' = <<>>
  /\ UNCHANGED <<answerVars, wireVars, historyVars>>

\* tlsio_arduino_create(): the name of the hub is not resolved.
HostNotFound ==
  /\ pc = "try" /\ k = 1 /\ ~st[1]
  /\ Back /\ Fault
  /\ UNCHANGED <<tlsVars, answerVars, wireVars, executed, headers, kept>>

HTTPAPI_ExecuteRequest ==
  /\ pc = "try" /\ k = 2 /\ ~st[2]
  /\ pc' = (IF is_connected THEN "heads" ELSE "open")
  /\ body' = "none"
  /\ NoFault
  /\ UNCHANGED <<stepVars, tlsVars, content, wireVars, historyVars>>

-----------------------------------------------------------------------------
(* HTTPAPI_ExecuteRequest(): open and send.                                *)

\* tlsio_arduino_open() and the first tlsio_arduino_dowork().
OpenXIOConnection ==
  /\ pc = "open" /\ state = "closed" /\ ~sslClient
  /\ state' = "open" /\ is_connected' = TRUE
  /\ sslClient' = TRUE /\ silent' = FALSE /\ coming' = <<>>
  /\ pc' = "heads"
  /\ NoFault
  /\ UNCHANGED <<stepVars, received, answerVars, historyVars>>

\* The socket is refused, or breaks before it is seen connected; a state ERROR
\* leaves the socket alone when the connection is then closed.
OpenFails ==
  /\ pc = "open" /\ state = "closed"
  /\ received' = <<>> /\ state' = "none" /\ is_connected' = FALSE
  /\ Back
  /\ sslClient \/ Fault
  /\ sslClient => NoFault
  /\ UNCHANGED <<answerVars, wireVars, executed, headers, kept>>

\* The last buffer of the request is written.  The hub carries it out and
\* answers, unless the connection is silent.
HubAnswers ==
  IF silent THEN UNCHANGED <<executed, coming>>
  ELSE \E a \in Answers :
         /\ executed' = executed + 1
         /\ coming' = coming \o
              [i \in DOMAIN a |-> [kind |-> a[i], of |-> executed + 1]]

\* tlsio_arduino_send(): a socket that is not connected takes no byte.
WriteFails ==
  /\ pc \in {"heads", "content"} /\ ~sslClient
  /\ Fail /\ NoFault

SendHeadsToXIO ==
  /\ pc = "heads" /\ sslClient
  /\ IF content THEN pc' = "content" /\ UNCHANGED <<executed, coming>>
                ELSE pc' = "status" /\ HubAnswers
  /\ NoFault
  /\ UNCHANGED <<stepVars, tlsVars, answerVars, sslClient, silent, headers,
                 result, kept>>

SendContentToXIO ==
  /\ pc = "content" /\ sslClient
  /\ pc' = "status" /\ HubAnswers
  /\ NoFault
  /\ UNCHANGED <<stepVars, tlsVars, answerVars, sslClient, silent, headers,
                 result, kept>>

-----------------------------------------------------------------------------
(* HTTPAPI_ExecuteRequest(): receive.                                      *)

\* tlsio_arduino_dowork() finds the socket closed: readLine() gives up.
LineOnDeadSocket ==
  /\ pc \in LineStages /\ ~sslClient
  /\ Fail /\ NoFault

\* readLine() after MAX_RECEIVE_RETRY rounds in which nothing came.
Buffered == received \o (IF silent THEN <<>> ELSE coming)

\* Mutant: readLine() waits for as long as it takes.
LineWithoutTimeout ==
  /\ pc \in LineStages /\ ~sslClient /\ Buffered = <<>>
  /\ Fail /\ NoFault

LineTimeout ==
  /\ pc \in LineStages /\ sslClient /\ Buffered = <<>>
  /\ Fail /\ NoFault

\* tlsio_arduino_dowork() appends what has arrived, and once there is a unit
\* the reader takes it; conn_receive_discard_buffer() empties the buffer
\* when that completes the request.
Take(completes) ==
  /\ sslClient /\ Buffered # <<>>
  /\ \E n \in 0..Len(coming) :
       LET got == received \o SubSeq(coming, 1, n)
       IN /\ got # <<>> /\ (silent => n = 0)
          /\ received' = (IF completes THEN <<>> ELSE Tail(got))
          /\ coming' = SubSeq(coming, n + 1, Len(coming))
  /\ NoFault
  /\ UNCHANGED <<stepVars, state, is_connected, content, sslClient, silent,
                 executed, kept>>
First == Head(Buffered)

\* The call returns HTTPAPI_OK.
Done == pc' = "idle" /\ result' = "ok"

\* ReceiveHeaderFromXIO().
ReceiveStatus ==
  /\ pc = "status" /\ Take(FALSE) /\ First.kind = "status"
  /\ pc' = "headers"
  /\ UNCHANGED <<headers, result, body>>

\* What was received ends the attempt: a line that is no status line, and, for
\* the hub sends none of these, at the price of a fault: a line garbled or longer
\* than the reader's buffer, a content-length or a chunk's length that is no
\* number, a chunk without the CRLF behind it.
NotAnHttpAnswer ==
  /\ pc \in LineStages \cup {"chunk", "crlf"}
  /\ sslClient /\ Buffered # <<>>
  /\ Fail
  /\ IF pc = "status" /\ First.kind # "status" THEN NoFault ELSE Fault

\* ReceiveContentInfoFromXIO(): each line joins responseHeadersHandle.
ReceiveHeader ==
  /\ pc = "headers" /\ Take(FALSE) /\ First.kind # "blank"
  /\ headers' = headers \cup {First.of}
  /\ body' = (IF First.kind \in {"length", "chunked"} THEN First.kind ELSE body)
  /\ UNCHANGED <<pc, result>>

EndOfHeaders ==
  /\ pc = "headers" /\ Take(body = "none") /\ First.kind = "blank"
  /\ \/ body = "none" /\ Done
     \/ body = "length" /\ pc' = "sized" /\ UNCHANGED result
     \/ body = "chunked" /\ pc' = "size" /\ UNCHANGED result
  /\ UNCHANGED <<headers, body>>

\* ReadHTTPResponseBodyFromXIO(), chunked: the line with the chunk's length.
ReceiveSize ==
  /\ pc = "size" /\ Take(FALSE)
  /\ \/ First.kind = "size" /\ pc' = "chunk"
     \/ First.kind = "zero" /\ pc' = "crlf"
  /\ UNCHANGED <<headers, result, body>>

\* readChunk(): the content, a chunk, or the end of the chunks.
ReceiveBlock ==
  /\ pc \in BlockStages /\ state = "open" /\ Take(pc # "chunk")
  /\ \/ pc = "chunk" /\ pc' = "size" /\ UNCHANGED result
     \/ pc # "chunk" /\ Done
  /\ UNCHANGED <<headers, body>>

\* conn_receive() reports the error, readChunk() subtracts the (size_t)-1 and
\* calls it again, for 2^32 rounds without a yield.
BlockOnDeadSocket ==
  /\ pc \in BlockStages /\ ~sslClient /\ state = "open"
  /\ state' = "error" /\ NoFault
  /\ UNCHANGED <<pc, stepVars, is_connected, received, answerVars, wireVars,
                 historyVars>>

\* The chip's software watchdog ends such a loop.
Watchdog ==
  /\ pc \in BlockStages /\ state = "error"
  /\ pc' = "idle" /\ k' = -1 /\ st' = [l \in 0..2 |-> FALSE]
  /\ state' = "none" /\ is_connected' = FALSE /\ received' = <<>>
  /\ result' = "lost" /\ NoFault
  /\ UNCHANGED <<answerVars, wireVars, executed, headers, kept>>

-----------------------------------------------------------------------------
(* The connection.                                                         *)

\* The connection drops; with the last bytes of a request under way, the hub
\* has carried it out or it has not.
Drop ==
  /\ sslClient /\ Fault
  /\ sslClient' = FALSE /\ silent' = FALSE /\ coming' = <<>>
  /\ UNCHANGED <<pc, stepVars, tlsVars, answerVars, historyVars>>

\* The network goes away and no reset of the connection arrives: writes are
\* still taken, nothing is received any more.
Silence ==
  /\ sslClient /\ ~silent /\ Fault
  /\ silent' = TRUE
  /\ UNCHANGED <<pc, stepVars, tlsVars, answerVars, sslClient, coming,
                 historyVars>>

Device ==
  \/ AlreadyTried \/ HTTPAPI_Init \/ HTTPAPI_CreateConnection \/ HostNotFound
  \/ HTTPAPI_ExecuteRequest
  \/ OpenXIOConnection \/ OpenFails \/ WriteFails
  \/ SendHeadsToXIO \/ SendContentToXIO
  \/ LineOnDeadSocket \/ LineTimeout \/ NotAnHttpAnswer
  \/ ReceiveStatus \/ ReceiveHeader \/ EndOfHeaders
  \/ ReceiveSize \/ ReceiveBlock
  \/ BlockOnDeadSocket \/ Watchdog

Next == Device \/ Drop \/ Silence \/ \E c \in BOOLEAN : Call(c)

Spec == Init /\ [][Next]_vars
\* The device computes on: its steps are those of one thread that nothing
\* preempts, and every wait in them but conn_receive()'s counts its rounds.
FairSpec == Spec /\ WF_vars(Device)

-----------------------------------------------------------------------------
(* Properties.                                                             *)

\* The firmware has one socket.  It is open only while the client holds the
\* connection handle that will stop it: a socket left open behind a freed
\* handle is refused by every later tlsio_arduino_open() ("No SSL clients
\* available"), and the hub is out of reach until the next reset.
OneConnection == sslClient => k = 2 /\ state = "open" /\ is_connected

\* Every unit that can still be read answers the latest execution of the
\* request under way, and between two calls none is left: a retry, or the next
\* request, never reads the answer to an earlier one.
AnswersAreFresh ==
  /\ \A i \in DOMAIN Buffered : Buffered[i].of = executed
  /\ pc = "idle" => Buffered = <<>>

\* A call that fails has met a fault for every attempt the recovery makes:
\* three when it began on a kept connection, one when it began without any.
\* So one broken connection never fails a call on a kept connection.
FaultsBeforeFailure ==
  result = "failed" => callFaults >= (IF kept THEN 3 ELSE 1)

\* A call implements what HttpCall promises.
Call_ == INSTANCE HttpCall
           WITH MaxExecutions <- 3, calling <- (pc # "idle")
ImplementsHttpCall == Call_!CallSpec

\* What is left of a call: of the loop over k and st, of the stages before the
\* answer, and of the answer.
AttemptsLeft ==
  k + 1 + (IF st[0] THEN 0 ELSE 4) + (IF k > 0 /\ ~st[1] THEN 2 ELSE 0)
StagesLeft ==
  CASE pc = "try" -> 4 [] pc = "open" -> 3 [] pc = "heads" -> 2
    [] pc = "content" -> 1 [] OTHER -> 0
UnitsLeft ==
  Len(received) + Len(coming) + (IF state = "error" THEN 0 ELSE 1)
Onwards ==
  \/ AttemptsLeft' \in 0..(AttemptsLeft - 1)
  \/ /\ AttemptsLeft' = AttemptsLeft
     /\ \/ StagesLeft' \in 0..(StagesLeft - 1)
        \/ StagesLeft' = StagesLeft /\ UnitsLeft' \in 0..(UnitsLeft - 1)

\* The three levels of recovery and the five loops that read an answer always
\* come to an end: every step of a call is one onwards, and a connection that
\* drops or goes silent under it sets nothing back.
CallAdvances ==
  [][pc # "idle" =>
       \/ pc' = "idle" \/ Onwards
       \/ /\ faults' > faults
          /\ UNCHANGED <<AttemptsLeft, StagesLeft>> /\ UnitsLeft' <= UnitsLeft]_vars

\* Whatever happens to the connection the call ends, unless it goes silent
\* while the content of an answer is read: readLine() counts its rounds, the
\* conn_receive() under readChunk() does not (lines 446-494), although the
\* comment of line 37 promises an answer or an error within 20 seconds.
SilentInBlock == pc \in BlockStages /\ silent
CallEnds == (pc # "idle") ~> (pc = "idle" \/ SilentInBlock)
=============================================================================
