------------------------------ MODULE HttpCall ------------------------------
(***************************************************************************)
(* What one call of HTTPAPIEX_ExecuteRequest() promises its caller, however *)
(* many connections it takes: the hub carries the request out at most       *)
(* MaxExecutions times; HTTPAPIEX_OK means that the answer to the last of   *)
(* them has been read to its end; what is read at any moment is the answer  *)
(* to the last of them, never one left over from an earlier attempt.        *)
(* HttpApi implements this specification; HubClient is built on it.         *)
(***************************************************************************)
EXTENDS Naturals

CONSTANT MaxExecutions  \* executions of one request: 3, see HttpApi

ASSUME ExecutionAssumption == MaxExecutions \in Nat

VARIABLES
  calling,   \* a call is under way
  executed,  \* how often the hub has carried out the request of this call
  headers,   \* the executions whose header lines are in the response headers
  result     \* of the last call: "ok", "failed", "lost" (reset), or "none"

callVars == <<calling, executed, headers, result>>

CallTypeOK ==
  /\ calling \in BOOLEAN
  /\ executed \in 0..MaxExecutions
  /\ headers \subseteq 1..executed
  /\ result \in {"none", "ok", "failed", "lost"}

CallInit ==
  calling = FALSE /\ executed = 0 /\ headers = {} /\ result = "none"

-----------------------------------------------------------------------------
Begin ==
  /\ ~calling
  /\ calling' = TRUE /\ executed' = 0 /\ headers' = {} /\ result' = "none"

\* The hub receives the whole request and carries it out.
Execute ==
  /\ calling /\ executed < MaxExecutions
  /\ executed' = executed + 1
  /\ UNCHANGED <<calling, headers, result>>

\* A header line of the answer to the last execution joins the response
\* headers, which the attempts of one call share.
Gather ==
  /\ calling /\ executed > 0
  /\ headers' = headers \cup {executed}
  /\ UNCHANGED <<calling, executed, result>>

Return ==
  /\ calling /\ executed \in headers
  /\ calling' = FALSE /\ result' = "ok"
  /\ UNCHANGED <<executed, headers>>

GiveUp ==
  /\ calling
  /\ calling' = FALSE /\ result' = "failed"
  /\ UNCHANGED <<executed, headers>>

\* The device is reset: nobody gets the result.
Reset ==
  /\ calling' = FALSE /\ result' = "lost"
  /\ UNCHANGED <<executed, headers>>

CallNext == Begin \/ Execute \/ Gather \/ Return \/ GiveUp \/ Reset

CallSpec == CallInit /\ [][CallNext]_callVars
=============================================================================
