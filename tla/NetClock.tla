------------------------------ MODULE NetClock ------------------------------
(***************************************************************************)
(* The clock of a station: the Time library's now(), which counts seconds   *)
(* by millis(), and getNtpTime(), which now() calls to set it; setup()'s    *)
(* loop until the year is right; and the date and time of a message.         *)
(* now() is a procedure of several steps: caller says where it returns to.   *)
(*                                                                          *)
(* Time is counted in ticks of half a second: a second is 2, getNtpTime()'s  *)
(* 1500 ms are 3.  millis() wraps at Wrap ticks, which like 2^32 ms is no    *)
(* whole number of seconds.                                                  *)
(***************************************************************************)
EXTENDS Integers, Sequences

CONSTANTS
  Wrap,          \* ticks after which millis() starts again at 0
  syncInterval,  \* seconds between synchronisations: 300
  Minute,        \* seconds in the next larger field: 60
  Fields,        \* the fields of a message's date and time
  Epoch,         \* seconds of an NTP server at boot
  Kiss,          \* what a packet without a time in it comes to: year 2036
  MaxDelay,      \* ticks an answer may be under way
  MaxResolve,    \* ticks WiFi.hostByName() may take
  MaxTime,       \* bound: ticks of one behaviour
  MaxRequests,   \* bound: requests under way; more are lost
  MaxKisses      \* bound: packets without a time

Second == 2
NtpTimeout == 3

ASSUME ClockAssumption ==
  /\ {Wrap, syncInterval, Minute, Epoch, Kiss} \subseteq Nat \ {0}
  /\ {MaxDelay, MaxResolve, MaxTime, MaxRequests, MaxKisses} \subseteq Nat
  /\ Fields \subseteq {"minute", "second"} /\ Fields # {}
  /\ MaxTime < Epoch /\ Epoch + MaxTime < Kiss
  /\ Wrap > Second + MaxResolve + NtpTimeout

VARIABLES
  pc,            \* "setup", "loop" or "asleep"; "now" to "wait": in now() and
                 \* getNtpTime(); "interval" to "field": where now() returns to
  caller,        \* the pc now() returns to
  sysTime, prevMillis, nextSyncTime,
  beginWait,     \* millis() at the start of a wait
  Counter,
  dateTime,      \* the fields of the message so far, -1 for none yet
  millis,        \* the chip's count of ticks
  \* the world: ticks since boot; the ticks the server is into its second at
  \* boot; requests and answers under way; packets received and not yet read
  time, phase, requests, flying, udp,
  \* history: the clock was last set from a packet without a time; what it
  \* showed when the message was begun; packets without a time so far
  kissed, begun, kisses

timeVars  == <<sysTime, prevMillis, nextSyncTime>>
fieldVars == <<dateTime, begun>>
worldVars == <<millis, time, phase, requests, flying, udp, kisses>>
vars == <<pc, caller, timeVars, beginWait, Counter, fieldVars, worldVars,
          kissed>>

Returns == {"interval", "retry", "year", "field"}

TypeOK ==
  /\ pc \in {"setup", "loop", "asleep", "now", "discard", "resolve", "wait",
           "message"} \cup Returns
  /\ caller \in Returns
  /\ sysTime \in Nat /\ nextSyncTime \in Nat
  /\ prevMillis \in 0..(Wrap - 1) /\ beginWait \in 0..(Wrap - 1)
  /\ Counter \in 0..3
  /\ dateTime \in [Fields -> Int] /\ begun \in Nat
  /\ millis \in 0..(Wrap - 1)
  /\ time \in 0..MaxTime /\ phase \in 0..(Second - 1)
  /\ requests \in 0..MaxRequests /\ kisses \in 0..MaxKisses /\ kissed \in BOOLEAN
  /\ flying \subseteq [value : Nat, sent : 0..MaxTime] /\ udp \in Seq(Nat)

NoFields == [f \in Fields |-> -1]
Composed == \A f \in Fields : dateTime[f] # -1

Init ==
  /\ pc = "setup" /\ caller = "interval"
  /\ sysTime = 0 /\ prevMillis = 0 /\ nextSyncTime = 0
  /\ beginWait = 0 /\ Counter = 0
  /\ dateTime = NoFields /\ begun = 0
  /\ millis = 0 /\ time = 0 /\ phase \in 0..(Second - 1)
  /\ requests = 0 /\ flying = {} /\ udp = <<>>
  /\ kissed = FALSE /\ kisses = 0

Since(start) == (millis - start) % Wrap
\* What now() would return, were no synchronisation due.
Shown == sysTime + Since(prevMillis) \div Second
TrueTime == Epoch + (time + phase) \div Second

-----------------------------------------------------------------------------
(* now() and getNtpTime().                                                 *)

Return == pc' = caller
\* Mutant: prevMillis is taken for a number that does not wrap.
AdvanceUnwrapped(seconds) == prevMillis + seconds * Second
AdvancePrevMillis(seconds) == (prevMillis + seconds * Second) % Wrap

\* The seconds passed are counted one by one; then a synchronisation may be due.
Now ==
  /\ pc = "now"
  /\ LET seconds == Since(prevMillis) \div Second
     IN /\ sysTime' = sysTime + seconds
        /\ prevMillis' = AdvancePrevMillis(seconds)
  /\ IF nextSyncTime <= sysTime' THEN pc' = "discard" ELSE Return
  /\ UNCHANGED <<caller, nextSyncTime, beginWait, Counter, fieldVars, worldVars,
                 kissed>>

\* Mutant: packets that came too late for their request are kept.
KeepPackets == UNCHANGED udp
DiscardPackets == udp' = <<>>

Discard ==
  /\ pc = "discard" /\ pc' = "resolve"
  /\ DiscardPackets /\ beginWait' = millis
  /\ UNCHANGED <<caller, timeVars, Counter, fieldVars, millis, time, phase,
                 requests, flying, kisses, kissed>>

\* WiFi.hostByName() is back; sendNTPpacket().
SendRequest ==
  /\ pc = "resolve" /\ pc' = "wait"
  /\ requests' = IF requests < MaxRequests THEN requests + 1 ELSE requests
  /\ beginWait' = millis
  /\ UNCHANGED <<caller, timeVars, Counter, fieldVars, millis, time, phase,
                 flying, udp, kisses, kissed>>

\* Mutant: the next synchronisation stays where it was.
setTimeOnly(t) ==
  /\ sysTime' = t /\ nextSyncTime' = nextSyncTime
  /\ prevMillis' = millis
\* Mutant: the second under way is not begun anew.
setTimeInSecond(t) ==
  /\ sysTime' = t /\ nextSyncTime' = t + syncInterval
  /\ prevMillis' = prevMillis

setTime(t) ==
  /\ sysTime' = t /\ nextSyncTime' = t + syncInterval
  /\ prevMillis' = millis

\* Any packet long enough is the answer.
Receive ==
  /\ pc = "wait" /\ Since(beginWait) < NtpTimeout /\ udp # <<>>
  /\ setTime(Head(udp)) /\ udp' = Tail(udp)
  /\ kissed' = (Head(udp) = Kiss)
  /\ Return
  /\ UNCHANGED <<caller, beginWait, Counter, fieldVars, millis, time, phase,
                 requests, flying, kisses>>

Timeout ==
  /\ pc = "wait" /\ Since(beginWait) >= NtpTimeout
  /\ nextSyncTime' = sysTime + syncInterval
  /\ Return
  /\ UNCHANGED <<caller, sysTime, prevMillis, beginWait, Counter, fieldVars,
                 worldVars, kissed>>

-----------------------------------------------------------------------------
(* setup(): the rounds of synchronisation.                                 *)

setSyncProvider(returnTo) ==
  /\ nextSyncTime' = sysTime
  /\ pc' = "now" /\ caller' = returnTo
  /\ UNCHANGED <<sysTime, prevMillis, beginWait, fieldVars, worldVars, kissed>>

FirstSync == pc = "setup" /\ setSyncProvider("interval") /\ UNCHANGED Counter

\* setSyncInterval(), after which year() calls now().
setSyncInterval ==
  /\ pc \in {"interval", "retry"}
  /\ nextSyncTime' = sysTime + syncInterval
  /\ Counter' = Counter + (IF pc = "retry" THEN 1 ELSE 0)
  /\ pc' = (IF Counter' >= 3 THEN "asleep" ELSE "now")
  /\ caller' = "year"
  /\ UNCHANGED <<sysTime, prevMillis, beginWait, fieldVars, worldVars, kissed>>

\* Mutant: only the year 1970 is refused.
YearIsSet == sysTime >= Epoch
\* Neither 1970, the clock never set, nor after 2020.
YearAccepted == sysTime >= Epoch /\ sysTime < Kiss

\* Mutant: the counter is cleared at every round.
RetrySyncAnew ==
  /\ pc = "year" /\ ~YearAccepted
  /\ setSyncProvider("retry") /\ Counter' = 0
RetrySync ==
  /\ pc = "year" /\ ~YearAccepted
  /\ setSyncProvider("retry") /\ UNCHANGED Counter

LeaveSetup ==
  /\ pc = "year" /\ YearAccepted /\ pc' = "loop"
  /\ UNCHANGED <<caller, timeVars, beginWait, Counter, fieldVars, worldVars,
                 kissed>>

-----------------------------------------------------------------------------
(* ComposeDeviceStateMessage(): each field is a call of now().  The order   *)
(* in which the operands of + are evaluated is the compiler's.              *)

ComposeDateTime ==
  /\ pc = "loop" /\ pc' = "now" /\ caller' = "field"
  /\ dateTime' = NoFields /\ begun' = Shown
  /\ UNCHANGED <<timeVars, beginWait, Counter, worldVars, kissed>>

ReadField ==
  /\ pc = "field" /\ caller' = caller
  /\ \E f \in Fields :
       /\ dateTime[f] = -1
       /\ dateTime' = [dateTime EXCEPT
            ![f] = IF f = "minute" THEN sysTime \div Minute ELSE sysTime % Minute]
  /\ pc' = (IF Composed' THEN "message" ELSE "now")
  /\ UNCHANGED <<timeVars, beginWait, Counter, begun, worldVars, kissed>>

Queue ==
  /\ pc = "message" /\ pc' = "loop"
  /\ dateTime' = NoFields /\ begun' = 0
  /\ UNCHANGED <<caller, timeVars, beginWait, Counter, worldVars, kissed>>

-----------------------------------------------------------------------------
(* The world.                                                              *)

deviceVars == <<pc, caller, timeVars, beginWait, Counter, fieldVars, kissed>>

\* Time passes where the code waits, in loop() and between the fields of a
\* message; now() is called again before millis() has come round.
Tick ==
  /\ pc \in {"resolve", "wait", "loop"} \/ (pc = "now" /\ caller = "field")
  /\ time < MaxTime /\ Since(prevMillis) + 1 < Wrap
  /\ pc = "resolve" => Since(beginWait) < MaxResolve
  /\ pc = "wait" => Since(beginWait) < NtpTimeout /\ udp = <<>>
  /\ \A p \in flying : time - p.sent < MaxDelay
  /\ time' = time + 1 /\ millis' = (millis + 1) % Wrap
  /\ UNCHANGED <<deviceVars, phase, requests, flying, udp, kisses>>

\* The server answers with its time, or with a packet that has none.
Answer ==
  /\ requests > 0 /\ requests' = requests - 1
  /\ \/ flying' = flying \cup {[value |-> TrueTime, sent |-> time]}
        /\ kisses' = kisses
     \/ flying' = flying \cup {[value |-> Kiss, sent |-> time]}
        /\ kisses < MaxKisses /\ kisses' = kisses + 1
  /\ UNCHANGED <<deviceVars, millis, time, phase, udp>>

Arrive ==
  /\ \E p \in flying : flying' = flying \ {p} /\ udp' = Append(udp, p.value)
  /\ UNCHANGED <<deviceVars, millis, time, phase, requests, kisses>>

Lose ==
  /\ \/ requests > 0 /\ requests' = requests - 1 /\ flying' = flying
     \/ \E p \in flying : flying' = flying \ {p} /\ requests' = requests
  /\ UNCHANGED <<deviceVars, millis, time, phase, udp, kisses>>

Device ==
  \/ Now \/ Discard \/ SendRequest \/ Receive \/ Timeout
  \/ FirstSync \/ setSyncInterval \/ RetrySync \/ LeaveSetup
  \/ ComposeDateTime \/ ReadField \/ Queue
Next == Device \/ Tick \/ Answer \/ Arrive \/ Lose

Spec == Init /\ [][Next]_vars
\* The device computes on, time passes, and a packet arrives or is lost.
FairSpec == Spec /\ WF_vars(Device) /\ WF_vars(Tick) /\ WF_vars(Arrive \/ Lose)

-----------------------------------------------------------------------------
(* Properties.                                                             *)

\* A clock set from an answer never shows a time that has not come, whenever
\* in a second it was set, however often millis() has wrapped since.
ClockNeverAhead == sysTime >= Epoch /\ ~kissed => Shown <= TrueTime

\* Nor is it late by more than the flight of one answer and one resolution of
\* the server's name, during which packets for an earlier request may come in:
\* no answer older than that is taken for one to the request, and the seconds
\* counted do not drift.
MaxLag == (MaxDelay + MaxResolve) \div Second + 1
LagBounded == sysTime >= Epoch /\ ~kissed => TrueTime - Shown <= MaxLag

\* setup() is left with the right time, whatever the packets held.
SetupLeavesInTime ==
  [][pc = "year" /\ pc' = "loop" => TrueTime - Shown \in 0..MaxLag]_vars

\* A clock set wrong is set again within the interval: no answer, late, lost or
\* without a time, puts the next synchronisation out of reach.
NextSyncInReach == nextSyncTime <= sysTime + syncInterval

\* What is left of setup() at most, in steps of the device and ticks: three rounds
\* after the first call, of two calls of now() each; a call takes the steps to the
\* packet's wait, a resolution of the name and 1500 ms.
InSetup == pc \notin {"loop", "asleep", "message"} /\ caller # "field"
CallLength == MaxResolve + NtpTimeout + 5
RestOfCall ==
  CASE pc = "now" -> CallLength - 1
    [] pc = "discard" -> CallLength - 2
    [] pc = "resolve" -> MaxResolve - Since(beginWait) + NtpTimeout + 2
    [] pc = "wait" -> NtpTimeout - Since(beginWait) + 1
    [] OTHER -> 0
RestOfSetup ==
  IF pc = "setup" THEN 7 * CallLength
  ELSE 2 * (2 - Counter) * CallLength + RestOfCall
         + (CASE caller = "interval" -> 2 * CallLength
              [] caller = "year" -> CallLength
              [] OTHER -> 0)

\* setup() comes to its end in a bounded number of steps: whatever packets come,
\* and however often the year is refused, each step brings it nearer to loop() or
\* to sleep.
SetupAdvances ==
  [][InSetup /\ <<pc, time>>' # <<pc, time>>
       => ~InSetup' \/ RestOfSetup' \in 0..(RestOfSetup - 1)]_vars

\* Whatever the network loses, setup() goes on to loop() or to sleep.
SetupEnds == (pc = "setup") ~> (pc \in {"loop", "asleep"})

\* The date and time of a message is one that the clock showed while the message
\* was composed: see the run that refutes it.
TimestampWasShown ==
  pc = "message" /\ kisses = 0 =>
    dateTime["minute"] * Minute + dateTime["second"] \in begun..Shown
=============================================================================
