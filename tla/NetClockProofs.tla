--------------------------- MODULE NetClockProofs ---------------------------
(***************************************************************************)
(* The clock for every value of the constants, whatever the network does.   *)
(* Time is compared in ticks: Counted is what the device has counted, Actual *)
(* what the server would have at the same moment.  That the clock is never   *)
(* ahead and late by no more than MaxLag follows from bounds on Actual -     *)
(* Counted, which count over from the packets to the clock.                  *)
(***************************************************************************)
EXTENDS NetClock, SequenceTheorems, TLAPS

Counted == 2 * sysTime + Since(prevMillis)
Actual == 2 * Epoch + time + phase
MaxAge == MaxDelay + MaxResolve

ClockTypeOK ==
  /\ sysTime \in Nat /\ nextSyncTime \in Nat
  /\ millis \in 0..(Wrap - 1) /\ prevMillis \in 0..(Wrap - 1)
  /\ beginWait \in 0..(Wrap - 1)
  /\ time \in 0..MaxTime /\ phase \in {0, 1}
  /\ kissed \in BOOLEAN /\ caller \in Returns
  /\ flying \subseteq [value : Nat, sent : Nat]
  /\ udp \in Seq(Nat)

\* A packet states the second of its server when it was sent, or no time.
States(value, sent) ==
  \/ value = Kiss
  \/ /\ 2 * value <= 2 * Epoch + sent + phase
     /\ 2 * Epoch + sent + phase <= 2 * value + 1
FlyingInTime ==
  \A p \in flying : /\ States(p.value, p.sent)
                    /\ p.sent <= time /\ time <= p.sent + MaxDelay

\* A packet received is no younger than its time; while getNtpTime() runs it is
\* no older than one flight and the resolution of the name.
NotAhead(value) == value = Kiss \/ 2 * value <= Actual
NotOlder(value, age) == value = Kiss \/ Actual <= 2 * value + 1 + age
ReceivedInTime ==
  /\ \A i \in DOMAIN udp : NotAhead(udp[i])
  /\ pc = "resolve" =>
       /\ Since(beginWait) <= MaxResolve
       /\ \A i \in DOMAIN udp : NotOlder(udp[i], MaxDelay + Since(beginWait))
  /\ pc = "wait" => \A i \in DOMAIN udp : NotOlder(udp[i], MaxAge)

\* A clock never set counts from 0.
CountedInTime ==
  /\ kissed => sysTime >= Kiss
  /\ ~kissed => Counted <= Actual
  /\ ~kissed => Counted <= time \/ Actual <= Counted + MaxAge + 1

ClockInv == ClockTypeOK /\ NextSyncInReach
TimeInv == FlyingInTime /\ ReceivedInTime /\ CountedInTime

LEMMA Constants ==
  /\ Wrap \in Nat \ {0} /\ syncInterval \in Nat /\ Epoch \in Nat \ {0}
  /\ Kiss \in Nat /\ MaxDelay \in Nat /\ MaxResolve \in Nat
  /\ MaxTime \in Nat /\ MaxTime < Epoch
  /\ Wrap > 5 + MaxResolve /\ Epoch + MaxTime < Kiss
BY ClockAssumption DEF Second, NtpTimeout

-----------------------------------------------------------------------------
(* Unsigned arithmetic.                                                    *)

LEMMA SinceType ==
  ASSUME NEW m \in 0..(Wrap - 1), NEW a \in 0..(Wrap - 1)
  PROVE  (m - a) % Wrap = IF m >= a THEN m - a ELSE m - a + Wrap
<1>1. Wrap \in Nat \ {0}
  BY Constants
<1>2. \A x \in 0..(Wrap - 1) : x % Wrap = x
  BY <1>1
<1>3. \A x \in (-Wrap)..(-1) : x % Wrap = x + Wrap
  BY <1>1
<1>4. CASE m >= a
  <2>1. m - a \in 0..(Wrap - 1)
    BY <1>1, <1>4
  <2> QED
    BY <1>2, <1>4, <2>1
<1>5. CASE m < a
  <2>1. m - a \in (-Wrap)..(-1)
    BY <1>1, <1>5
  <2> QED
    BY <1>3, <1>5, <2>1
<1> QED
  BY <1>1, <1>4, <1>5

LEMMA AddType ==
  ASSUME NEW x \in 0..(2 * Wrap - 1)
  PROVE  x % Wrap = IF x < Wrap THEN x ELSE x - Wrap
<1>1. Wrap \in Nat \ {0}
  BY Constants
<1>2. \A y \in 0..(Wrap - 1) : y % Wrap = y
  BY <1>1
<1>3. \A y \in Wrap..(2 * Wrap - 1) : y % Wrap = y - Wrap
  BY <1>1
<1> QED
  BY <1>1, <1>2, <1>3

\* A tick counts one, until millis() comes round.
LEMMA SinceTick ==
  ASSUME NEW m \in 0..(Wrap - 1), NEW a \in 0..(Wrap - 1),
         ((m - a) % Wrap) + 1 < Wrap
  PROVE  /\ (m + 1) % Wrap \in 0..(Wrap - 1)
         /\ (((m + 1) % Wrap) - a) % Wrap = ((m - a) % Wrap) + 1
<1>1. Wrap \in Nat /\ Wrap > 0
  BY Constants
<1>2. (m + 1) % Wrap = IF m + 1 < Wrap THEN m + 1 ELSE m + 1 - Wrap
  BY <1>1, AddType
<1>3. (m + 1) % Wrap \in 0..(Wrap - 1)
  BY <1>1, <1>2
<1>4. (m - a) % Wrap = IF m >= a THEN m - a ELSE m - a + Wrap
  BY SinceType
<1>5. (((m + 1) % Wrap) - a) % Wrap
        = IF (m + 1) % Wrap >= a THEN ((m + 1) % Wrap) - a
                                 ELSE ((m + 1) % Wrap) - a + Wrap
  BY <1>3, SinceType
<1> QED
  BY <1>1, <1>2, <1>3, <1>4, <1>5

\* prevMillis moves up by whole seconds and leaves the rest.
LEMMA SinceAdvance ==
  ASSUME NEW m \in 0..(Wrap - 1), NEW a \in 0..(Wrap - 1), NEW n \in Nat,
         2 * n <= (m - a) % Wrap, NEW b, b = (a + n * 2) % Wrap
  PROVE  /\ b \in 0..(Wrap - 1)
         /\ (m - b) % Wrap = ((m - a) % Wrap) - 2 * n
<1>1. Wrap \in Nat /\ Wrap > 0
  BY Constants
<1>2. (m - a) % Wrap = IF m >= a THEN m - a ELSE m - a + Wrap
  BY SinceType
<1>3. a + n * 2 \in 0..(2 * Wrap - 1)
  BY <1>1, <1>2
<1>4. /\ b \in 0..(Wrap - 1)
      /\ \/ a + n * 2 < Wrap /\ b = a + n * 2
         \/ a + n * 2 >= Wrap /\ b = a + n * 2 - Wrap
  BY <1>1, <1>3, AddType
<1>5. (m - b) % Wrap = IF m >= b THEN m - b ELSE m - b + Wrap
  BY <1>4, SinceType
<1>6. (m - a) % Wrap \in Int /\ m \in Int /\ a \in Int /\ b \in Int
  BY <1>1, <1>2
<1>7. (m - b) % Wrap = ((m - a) % Wrap) - 2 * n
  <2>1. CASE a + n * 2 < Wrap /\ b = a + n * 2
    BY <1>1, <1>2, <1>5, <1>6, <2>1
  <2>2. CASE a + n * 2 >= Wrap /\ b = a + n * 2 - Wrap
    BY <1>1, <1>2, <1>5, <1>6, <2>2
  <2> QED
    BY <1>4, <2>1, <2>2
<1> QED
  BY <1>4, <1>7

-----------------------------------------------------------------------------
(* Types, and the next synchronisation.                                    *)

LEMMA SinceIsNat ==
  ASSUME ClockTypeOK
  PROVE  /\ Wrap \in Nat \ {0}
         /\ Since(prevMillis) \in 0..(Wrap - 1)
         /\ Since(beginWait) \in 0..(Wrap - 1)
<1>1. Wrap \in Nat \ {0}
  BY Constants
<1> QED
  BY <1>1, SinceType DEF ClockTypeOK, Since

LEMMA InitClock == Init => ClockInv
<1> SUFFICES ASSUME Init PROVE ClockInv
  OBVIOUS
<1>1. 0 \in 0..(Wrap - 1) /\ 0 \in 0..MaxTime /\ syncInterval \in Nat
  BY Constants
<1>2. phase \in {0, 1}
  BY DEF Init, Second
<1>3. {} \subseteq [value : Nat, sent : Nat] /\ <<>> \in Seq(Nat)
  OBVIOUS
<1>4. caller \in Returns /\ kissed \in BOOLEAN
  BY DEF Init, Returns
<1>5. flying \subseteq [value : Nat, sent : Nat] /\ udp \in Seq(Nat)
  BY <1>3 DEF Init
<1>6. NextSyncInReach
  BY <1>1 DEF Init, NextSyncInReach
<1>7. ClockTypeOK
  BY <1>1, <1>2, <1>4, <1>5 DEF Init, ClockTypeOK
<1> QED
  BY <1>6, <1>7 DEF ClockInv

LEMMA NowClock == ASSUME ClockInv, Now PROVE ClockInv'
<1> DEFINE n == Since(prevMillis) \div Second
<1>1. ClockTypeOK /\ n \in Nat /\ 2 * n <= Since(prevMillis)
  BY SinceIsNat DEF ClockInv, Second
<1>2. sysTime' = sysTime + n /\ prevMillis' = (prevMillis + n * 2) % Wrap
  BY DEF Now, AdvancePrevMillis, Second
<1>3. prevMillis' \in 0..(Wrap - 1)
  BY <1>1, <1>2, SinceAdvance DEF ClockTypeOK, Since
<1>4. UNCHANGED <<caller, nextSyncTime, millis, beginWait, time, phase, kissed,
                  flying, udp>>
  BY DEF Now, worldVars
<1>5. syncInterval \in Nat
  BY Constants
<1> HIDE DEF n
<1> QED
  BY <1>1, <1>2, <1>3, <1>4, <1>5 DEF ClockInv, ClockTypeOK, NextSyncInReach

LEMMA TickClock == ASSUME ClockInv, Tick PROVE ClockInv'
<1>1. millis' \in 0..(Wrap - 1)
  BY SinceTick DEF Tick, Since, ClockInv, ClockTypeOK
<1>2. time' \in 0..MaxTime
  BY Constants DEF Tick, ClockInv, ClockTypeOK
<1> QED
  BY <1>1, <1>2
  DEF Tick, ClockInv, ClockTypeOK, NextSyncInReach, deviceVars, timeVars

LEMMA ReceiveClock == ASSUME ClockInv, Receive PROVE ClockInv'
<1>1. Head(udp) \in Nat /\ Tail(udp) \in Seq(Nat)
  BY DEF Receive, ClockInv, ClockTypeOK
<1> QED
  BY <1>1, Constants
  DEF Receive, setTime, ClockInv, ClockTypeOK, NextSyncInReach

LEMMA AnswerClock == ASSUME ClockInv, Answer PROVE ClockInv'
<1>1. TrueTime \in Nat /\ Kiss \in Nat /\ time \in Nat
  BY Constants DEF TrueTime, Second, ClockInv, ClockTypeOK
<1>2. flying' \subseteq [value : Nat, sent : Nat]
  BY <1>1 DEF Answer, ClockInv, ClockTypeOK
<1> QED
  BY <1>2
  DEF Answer, ClockInv, ClockTypeOK, NextSyncInReach, deviceVars, timeVars

LEMMA ArriveClock == ASSUME ClockInv, Arrive PROVE ClockInv'
<1>1. PICK p \in flying : flying' = flying \ {p} /\ udp' = Append(udp, p.value)
  BY DEF Arrive
<1>2. flying' \subseteq [value : Nat, sent : Nat] /\ udp' \in Seq(Nat)
  BY <1>1 DEF ClockInv, ClockTypeOK
<1> QED
  BY <1>2
  DEF Arrive, ClockInv, ClockTypeOK, NextSyncInReach, deviceVars, timeVars

LEMMA LoseClock == ASSUME ClockInv, Lose PROVE ClockInv'
BY DEF Lose, ClockInv, ClockTypeOK, NextSyncInReach, deviceVars, timeVars

LEMMA NextClock == ClockInv /\ [Next]_vars => ClockInv'
<1> SUFFICES ASSUME ClockInv, [Next]_vars PROVE ClockInv'
  OBVIOUS
<1> USE DEF ClockInv, ClockTypeOK, NextSyncInReach, timeVars, worldVars, Returns
<1>1. CASE UNCHANGED vars
  BY <1>1 DEF vars
<1>2. CASE Discard
  BY <1>2 DEF Discard, DiscardPackets
<1>3. CASE SendRequest
  BY <1>3 DEF SendRequest
<1>4. CASE Timeout
  BY <1>4, Constants DEF Timeout
<1>5. CASE FirstSync \/ RetrySync
  <2>1. nextSyncTime' = sysTime /\ caller' \in Returns
    BY <1>5 DEF FirstSync, RetrySync, setSyncProvider
  <2>2. UNCHANGED <<sysTime, prevMillis, beginWait, worldVars, kissed>>
    BY <1>5 DEF FirstSync, RetrySync, setSyncProvider
  <2> QED
    BY <2>1, <2>2, Constants
<1>6. CASE setSyncInterval
  BY <1>6, Constants DEF setSyncInterval
<1>7. CASE LeaveSetup
  BY <1>7 DEF LeaveSetup
<1>8. CASE ComposeDateTime
  BY <1>8 DEF ComposeDateTime
<1>9. CASE ReadField
  BY <1>9 DEF ReadField
<1>10. CASE Queue
  BY <1>10 DEF Queue
<1> QED
  BY <1>1, <1>2, <1>3, <1>4, <1>5, <1>6, <1>7, <1>8, <1>9, <1>10,
     NowClock, TickClock, ReceiveClock, AnswerClock, ArriveClock, LoseClock
  DEF Next, Device

\* However the clock was set, wrong dates included, its next synchronisation is
\* at most syncInterval seconds of its own away.
THEOREM NextSyncStaysInReach == Spec => []NextSyncInReach
<1>1. ClockInv => NextSyncInReach
  BY DEF ClockInv
<1> QED
  BY InitClock, NextClock, <1>1, PTL DEF Spec

-----------------------------------------------------------------------------
(* Ticks: packets count over to the clock.                                 *)

LEMMA InitTime == Init => TimeInv
<1> SUFFICES ASSUME Init PROVE TimeInv
  OBVIOUS
<1>1. Wrap \in Nat \ {0} /\ Epoch \in Nat /\ phase \in {0, 1}
  BY Constants DEF Init, Second
<1>2. Since(prevMillis) = 0
  BY <1>1, SinceType DEF Init, Since
<1>3. FlyingInTime
  BY DEF Init, FlyingInTime
<1>4. ReceivedInTime
  BY DEF Init, ReceivedInTime
<1>5. CountedInTime
  BY <1>1, <1>2 DEF Init, CountedInTime, Counted, Actual
<1> QED
  BY <1>3, <1>4, <1>5 DEF TimeInv

LEMMA NowTime == ASSUME ClockInv, TimeInv, Now PROVE TimeInv'
<1> DEFINE n == Since(prevMillis) \div Second
<1>1. ClockTypeOK /\ n \in Nat /\ 2 * n <= Since(prevMillis)
      /\ Since(prevMillis) \in Nat
  BY SinceIsNat DEF ClockInv, Second
<1>2. sysTime' = sysTime + n /\ prevMillis' = (prevMillis + n * 2) % Wrap
  BY DEF Now, AdvancePrevMillis, Second
<1>3. UNCHANGED <<millis, beginWait, time, phase, kissed, flying, udp>>
  BY DEF Now, worldVars
<1>4. Since(prevMillis)' = Since(prevMillis) - 2 * n
  BY <1>1, <1>2, <1>3, SinceAdvance DEF ClockTypeOK, Since
<1>5. pc' \notin {"resolve", "wait"}
  BY <1>1 DEF Now, Return, ClockTypeOK, Returns
<1> HIDE DEF n
<1>6. Counted' = Counted /\ Actual' = Actual
  BY <1>1, <1>2, <1>3, <1>4 DEF Counted, Actual, ClockTypeOK
<1> QED
  BY <1>1, <1>2, <1>3, <1>5, <1>6, Constants
  DEF TimeInv, FlyingInTime, States, ReceivedInTime, NotAhead, CountedInTime,
      ClockTypeOK

LEMMA TickTime == ASSUME ClockInv, TimeInv, Tick PROVE TimeInv'
<1>1. ClockTypeOK /\ Wrap \in Nat /\ Wrap > 5 + MaxResolve /\ MaxResolve \in Nat
      /\ MaxDelay \in Nat /\ Epoch \in Nat
  BY Constants DEF ClockInv
<1>2. /\ time' = time + 1 /\ millis' = (millis + 1) % Wrap
      /\ UNCHANGED <<pc, sysTime, prevMillis, beginWait, kissed, phase, flying, udp>>
  BY DEF Tick, deviceVars, timeVars
<1>3. Since(prevMillis)' = Since(prevMillis) + 1 /\ Since(prevMillis) \in Nat
  <2>1. ((millis - prevMillis) % Wrap) + 1 < Wrap
    BY DEF Tick, Since
  <2>2. (((millis + 1) % Wrap) - prevMillis) % Wrap = ((millis - prevMillis) % Wrap) + 1
    BY <1>1, <2>1, SinceTick DEF ClockTypeOK
  <2>3. Since(prevMillis) \in Nat
    BY <1>1, SinceIsNat
  <2> QED
    BY <1>2, <2>2, <2>3 DEF Since
<1>4. Counted' = Counted + 1 /\ Actual' = Actual + 1 /\ Counted \in Nat
      /\ Actual \in Nat
  BY <1>1, <1>2, <1>3 DEF Counted, Actual, ClockTypeOK
<1>5. FlyingInTime'
  <2> SUFFICES ASSUME NEW p \in flying
               PROVE  /\ States(p.value, p.sent)' /\ p.sent <= time'
                      /\ time' <= p.sent + MaxDelay
    BY <1>2 DEF FlyingInTime
  <2>1. p.sent \in Nat /\ p.sent <= time /\ time - p.sent < MaxDelay
    BY DEF Tick, TimeInv, FlyingInTime, ClockInv, ClockTypeOK
  <2>2. States(p.value, p.sent)'
    BY <1>2 DEF States, TimeInv, FlyingInTime
  <2> QED
    BY <1>1, <1>2, <2>1, <2>2 DEF ClockTypeOK
<1>6. ReceivedInTime'
  <2>1. \A i \in DOMAIN udp : udp[i] \in Nat
    BY <1>1 DEF ClockTypeOK
  <2>2. \A i \in DOMAIN udp' : NotAhead(udp[i])'
    BY <1>2, <1>4, <2>1 DEF TimeInv, ReceivedInTime, NotAhead
  <2>3. ASSUME pc' = "resolve"
        PROVE  /\ Since(beginWait)' <= MaxResolve
               /\ \A i \in DOMAIN udp' :
                    NotOlder(udp[i], MaxDelay + Since(beginWait))'
    <3>1. pc = "resolve" /\ Since(beginWait) < MaxResolve
          /\ Since(beginWait) \in Nat
      BY <1>1, <1>2, <2>3, SinceIsNat DEF Tick
    <3>2. Since(beginWait)' = Since(beginWait) + 1
      <4>1. ((millis - beginWait) % Wrap) + 1 < Wrap
        BY <1>1, <3>1 DEF Since
      <4>2. (((millis + 1) % Wrap) - beginWait) % Wrap
              = ((millis - beginWait) % Wrap) + 1
        BY <1>1, <4>1, SinceTick DEF ClockTypeOK
      <4> QED
        BY <1>2, <4>2 DEF Since
    <3> HIDE DEF Since
    <3>3. \A i \in DOMAIN udp : NotOlder(udp[i], MaxDelay + Since(beginWait))
      BY <3>1 DEF TimeInv, ReceivedInTime
    <3>4. ASSUME NEW i \in DOMAIN udp'
          PROVE  NotOlder(udp[i], MaxDelay + Since(beginWait))'
      BY <1>1, <1>2, <1>4, <2>1, <3>1, <3>2, <3>3 DEF NotOlder
    <3> QED
      BY <1>1, <3>1, <3>2, <3>4
  <2>4. ASSUME pc' = "wait" PROVE DOMAIN udp' = {}
    BY <1>2, <2>4 DEF Tick
  <2> QED
    BY <2>2, <2>3, <2>4 DEF ReceivedInTime
<1>7. CountedInTime'
  BY <1>1, <1>2, <1>4 DEF TimeInv, CountedInTime, MaxAge, ClockTypeOK
<1> QED
  BY <1>5, <1>6, <1>7 DEF TimeInv

LEMMA SendRequestTime == ASSUME ClockInv, TimeInv, SendRequest PROVE TimeInv'
<1>1. /\ pc = "resolve" /\ pc' = "wait"
      /\ UNCHANGED <<sysTime, prevMillis, millis, time, phase, kissed, flying, udp>>
  BY DEF SendRequest, timeVars
<1>2. Since(beginWait) \in Nat /\ MaxDelay \in Nat /\ MaxResolve \in Nat
      /\ Actual \in Nat
  BY SinceIsNat, Constants DEF ClockInv, ClockTypeOK, Actual
<1>3. Counted' = Counted /\ Actual' = Actual
  BY <1>1 DEF Counted, Actual, Since
<1>4. ASSUME NEW i \in DOMAIN udp PROVE NotOlder(udp[i], MaxAge)
  <2>1. udp[i] \in Nat
    BY DEF ClockInv, ClockTypeOK
  <2> QED
    BY <1>1, <1>2, <2>1 DEF TimeInv, ReceivedInTime, NotOlder, MaxAge
<1>5. ReceivedInTime'
  BY <1>1, <1>3, <1>4 DEF TimeInv, ReceivedInTime, NotAhead, NotOlder, MaxAge
<1> QED
  BY <1>1, <1>3, <1>5
  DEF TimeInv, FlyingInTime, States, CountedInTime, MaxAge

LEMMA ReceiveTime == ASSUME ClockInv, TimeInv, Receive PROVE TimeInv'
<1> DEFINE value == Head(udp)
<1>1. /\ pc = "wait" /\ sysTime' = value /\ prevMillis' = millis
      /\ udp' = Tail(udp) /\ kissed' = (value = Kiss) /\ pc' = caller
      /\ UNCHANGED <<millis, time, phase, flying>>
  BY DEF Receive, setTime, Return
<1>2. 1 \in DOMAIN udp /\ value = udp[1] /\ value \in Nat
  BY DEF Receive, ClockInv, ClockTypeOK
<1>3. Since(prevMillis)' = 0
  BY <1>1, SinceType, Constants DEF Since, ClockInv, ClockTypeOK
<1>4. Counted' = 2 * value /\ Actual' = Actual
  BY <1>1, <1>2, <1>3 DEF Counted, Actual
<1>5. NotAhead(value) /\ NotOlder(value, MaxAge)
  BY <1>1, <1>2 DEF TimeInv, ReceivedInTime
<1>6. ReceivedInTime'
  <2>1. \A i \in DOMAIN Tail(udp) : i + 1 \in DOMAIN udp /\ Tail(udp)[i] = udp[i + 1]
    BY <1>2 DEF ClockInv, ClockTypeOK
  <2>2. pc' \notin {"resolve", "wait"}
    BY <1>1 DEF Returns, ClockInv, ClockTypeOK
  <2> QED
    BY <1>1, <1>4, <2>1, <2>2 DEF TimeInv, ReceivedInTime, NotAhead
<1>7. CountedInTime'
  <2>1. MaxAge \in Nat /\ Actual \in Nat
    BY Constants DEF MaxAge, Actual, ClockInv, ClockTypeOK
  <2>2. CASE value = Kiss
    <3>1. kissed'
      BY <1>1, <2>2
    <3>2. sysTime' >= Kiss
      BY <1>1, <1>2, <2>2
    <3> QED
      BY <3>1, <3>2 DEF CountedInTime
  <2>3. CASE value # Kiss
    <3>1. 2 * value <= Actual /\ Actual <= 2 * value + 1 + MaxAge
      BY <1>5, <2>3 DEF NotAhead, NotOlder
    <3>2. Counted' <= Actual' /\ Actual' <= Counted' + MaxAge + 1
      BY <1>2, <1>4, <2>1, <3>1
    <3>3. ~kissed'
      BY <1>1, <2>3
    <3> QED
      BY <3>2, <3>3 DEF CountedInTime, MaxAge
  <2> QED
    BY <2>2, <2>3
<1> QED
  BY <1>1, <1>6, <1>7 DEF TimeInv, FlyingInTime, States

LEMMA AnswerTime == ASSUME ClockInv, TimeInv, Answer PROVE TimeInv'
<1>1. UNCHANGED <<pc, sysTime, prevMillis, beginWait, millis, time, phase, kissed,
                  udp>>
  BY DEF Answer, deviceVars, timeVars
<1>2. time \in Nat /\ phase \in {0, 1} /\ Epoch \in Nat /\ MaxDelay \in Nat
  BY Constants DEF ClockInv, ClockTypeOK
<1>3. States(TrueTime, time) /\ States(Kiss, time)
  BY <1>2 DEF States, TrueTime, Second
<1>4. \A p \in flying' :
        p \in flying \/ (p.sent = time /\ p.value \in {TrueTime, Kiss})
  <2>1. PICK v \in {TrueTime, Kiss} :
          flying' = flying \cup {[value |-> v, sent |-> time]}
    BY DEF Answer
  <2> SUFFICES ASSUME NEW p \in flying', p \notin flying
               PROVE  p.sent = time /\ p.value \in {TrueTime, Kiss}
    OBVIOUS
  <2>2. p = [value |-> v, sent |-> time]
    BY <2>1
  <2>3. p.sent = time /\ p.value = v
    BY <2>2
  <2> QED
    BY <2>1, <2>3
<1>5. FlyingInTime'
  BY <1>1, <1>2, <1>3, <1>4 DEF TimeInv, FlyingInTime, States
<1> QED
  BY <1>1, <1>5
  DEF TimeInv, ReceivedInTime, NotAhead, NotOlder, CountedInTime, Counted, Actual,
      Since, MaxAge

LEMMA StatesInTime ==
  ASSUME NEW value \in Nat, NEW sent \in Nat, time \in Nat, phase \in {0, 1},
         Epoch \in Nat, MaxDelay \in Nat,
         States(value, sent), sent <= time, time <= sent + MaxDelay
  PROVE  NotAhead(value) /\ NotOlder(value, MaxDelay)
<1>1. CASE value = Kiss
  BY <1>1 DEF NotAhead, NotOlder
<1>2. CASE value # Kiss
  <2>1. /\ 2 * value <= 2 * Epoch + sent + phase
        /\ 2 * Epoch + sent + phase <= 2 * value + 1
    BY <1>2 DEF States
  <2>2. 2 * value <= Actual /\ Actual <= 2 * value + 1 + MaxDelay
    BY <2>1 DEF Actual
  <2> QED
    BY <2>2 DEF NotAhead, NotOlder
<1> QED
  BY <1>1, <1>2

LEMMA ArriveTime == ASSUME ClockInv, TimeInv, Arrive PROVE TimeInv'
<1>1. PICK p \in flying : flying' = flying \ {p} /\ udp' = Append(udp, p.value)
  BY DEF Arrive
<1>2. UNCHANGED <<pc, sysTime, prevMillis, beginWait, millis, time, phase, kissed>>
  BY DEF Arrive, deviceVars, timeVars
<1>3. /\ time \in Nat /\ phase \in {0, 1} /\ Epoch \in Nat /\ MaxDelay \in Nat
      /\ MaxResolve \in Nat /\ p.value \in Nat /\ p.sent \in Nat
      /\ udp \in Seq(Nat) /\ Since(beginWait) \in Nat
  BY Constants, SinceIsNat DEF ClockInv, ClockTypeOK
<1>4. NotAhead(p.value) /\ NotOlder(p.value, MaxDelay)
  <2>1. States(p.value, p.sent) /\ p.sent <= time /\ time <= p.sent + MaxDelay
    BY DEF TimeInv, FlyingInTime
  <2> QED
    BY <1>3, <2>1, StatesInTime
<1>5. NotOlder(p.value, MaxDelay + Since(beginWait)) /\ NotOlder(p.value, MaxAge)
  BY <1>3, <1>4 DEF NotOlder, Actual, MaxAge
<1>6. \A i \in DOMAIN udp' :
        udp'[i] = p.value \/ (i \in DOMAIN udp /\ udp'[i] = udp[i])
  BY <1>1, <1>3, AppendProperties
<1>7. Actual' = Actual /\ Counted' = Counted /\ Since(beginWait)' = Since(beginWait)
  BY <1>2 DEF Actual, Counted, Since
<1>8. ReceivedInTime'
  BY <1>2, <1>4, <1>5, <1>6, <1>7
  DEF TimeInv, ReceivedInTime, NotAhead, NotOlder, MaxAge
<1> QED
  BY <1>1, <1>2, <1>7, <1>8
  DEF TimeInv, FlyingInTime, States, CountedInTime, MaxAge

LEMMA DiscardTime == ASSUME ClockInv, TimeInv, Discard PROVE TimeInv'
<1>1. /\ pc' = "resolve" /\ udp' = <<>> /\ beginWait' = millis
      /\ UNCHANGED <<sysTime, prevMillis, millis, time, phase, kissed, flying>>
  BY DEF Discard, DiscardPackets, timeVars
<1>2. Since(beginWait)' = 0
  BY <1>1, SinceType, Constants DEF Since, ClockInv, ClockTypeOK
<1>3. ReceivedInTime'
  BY <1>1, <1>2, Constants DEF ReceivedInTime
<1> QED
  BY <1>1, <1>3
  DEF TimeInv, FlyingInTime, States, CountedInTime, Counted, Actual, Since, MaxAge

\* What leaves the clock and the packets alone, outside getNtpTime().
LEMMA OtherTime ==
  ASSUME TimeInv,
         UNCHANGED <<sysTime, prevMillis, beginWait, millis, time, phase, kissed, udp>>,
         flying' \subseteq flying, pc' = pc \/ pc' \notin {"resolve", "wait"}
  PROVE  TimeInv'
BY DEF TimeInv, FlyingInTime, States, ReceivedInTime, NotAhead, NotOlder,
       CountedInTime, Counted, Actual, Since, MaxAge

LEMMA NextTime == ClockInv /\ TimeInv /\ [Next]_vars => TimeInv'
<1> SUFFICES ASSUME ClockInv, TimeInv, [Next]_vars PROVE TimeInv'
  OBVIOUS
<1> USE DEF timeVars, worldVars, deviceVars
<1>0. caller \in Returns
  BY DEF ClockInv, ClockTypeOK
<1>1. CASE UNCHANGED vars
  BY <1>1, OtherTime DEF vars
<1>2. CASE Lose
  BY <1>2, OtherTime DEF Lose
<1>3. CASE Timeout
  BY <1>0, <1>3, OtherTime DEF Timeout, Return, Returns
<1>4. CASE FirstSync \/ RetrySync
  <2>1. pc' = "now"
        /\ UNCHANGED <<sysTime, prevMillis, beginWait, worldVars, kissed>>
    BY <1>4 DEF FirstSync, RetrySync, setSyncProvider
  <2> QED
    BY <2>1, OtherTime
<1>5. CASE setSyncInterval
  BY <1>5, OtherTime DEF setSyncInterval
<1>6. CASE LeaveSetup
  BY <1>6, OtherTime DEF LeaveSetup
<1>7. CASE ComposeDateTime
  BY <1>7, OtherTime DEF ComposeDateTime
<1>8. CASE ReadField
  BY <1>8, OtherTime DEF ReadField
<1>9. CASE Queue
  BY <1>9, OtherTime DEF Queue
<1> QED
  BY <1>1, <1>2, <1>3, <1>4, <1>5, <1>6, <1>7, <1>8, <1>9, NowTime, TickTime,
     SendRequestTime, ReceiveTime, AnswerTime, ArriveTime, DiscardTime
  DEF Next, Device

LEMMA TimeInvariant == Spec => [](ClockInv /\ TimeInv)
BY InitClock, InitTime, NextClock, NextTime, PTL DEF Spec

-----------------------------------------------------------------------------
(* The rest of the types.                                                  *)

\* setup() sleeps at the third round: until then there were two at most.
RestTypeOK ==
  /\ pc \in {"setup", "loop", "asleep", "now", "discard", "resolve", "wait",
           "message"} \cup Returns
  /\ Counter \in 0..3 /\ (pc # "asleep" => Counter <= 2)
  /\ dateTime \in [Fields -> Int] /\ begun \in Nat
  /\ requests \in 0..MaxRequests /\ kisses \in 0..MaxKisses
  /\ \A p \in flying : p.sent \in 0..MaxTime

\* The bounds on what the network does.
LEMMA Bounds ==
  MaxRequests \in Nat /\ MaxKisses \in Nat /\ MaxTime \in Nat
  /\ Minute \in Nat \ {0}
BY ClockAssumption

LEMMA InitRest == Init => RestTypeOK
<1> SUFFICES ASSUME Init PROVE RestTypeOK
  OBVIOUS
<1>1. dateTime \in [Fields -> Int]
  BY DEF Init, NoFields
<1> QED
  BY <1>1, Bounds DEF Init, RestTypeOK

LEMMA AnswerRest == ASSUME ClockInv, RestTypeOK, Answer PROVE RestTypeOK'
<1>1. UNCHANGED <<pc, Counter, dateTime, begun>>
  BY DEF Answer, deviceVars, fieldVars
<1>2. requests' \in 0..MaxRequests /\ kisses' \in 0..MaxKisses
  BY Bounds DEF Answer, RestTypeOK
<1>3. time \in 0..MaxTime
  BY DEF ClockInv, ClockTypeOK
<1>4. ASSUME NEW p \in flying' PROVE p.sent \in 0..MaxTime
  <2>1. PICK v \in {TrueTime, Kiss} :
          flying' = flying \cup {[value |-> v, sent |-> time]}
    BY DEF Answer
  <2>2. CASE p \in flying
    BY <2>2 DEF RestTypeOK
  <2>3. CASE p = [value |-> v, sent |-> time]
    BY <1>3, <2>3
  <2> QED
    BY <2>1, <2>2, <2>3
<1> QED
  BY <1>1, <1>2, <1>4 DEF RestTypeOK

\* A field is read by now() from a clock that has been set or not.
LEMMA ReadFieldRest == ASSUME ClockInv, RestTypeOK, ReadField PROVE RestTypeOK'
<1>1. sysTime \div Minute \in Int /\ sysTime % Minute \in Int
  BY Bounds DEF ClockInv, ClockTypeOK
<1>2. dateTime' \in [Fields -> Int]
  BY <1>1 DEF ReadField, RestTypeOK
<1>3. pc' \in {"message", "now"} /\ pc = "field"
      /\ UNCHANGED <<Counter, begun, requests, kisses, flying>>
  BY DEF ReadField, worldVars
<1> QED
  BY <1>2, <1>3 DEF RestTypeOK

LEMMA ComposeDateTimeRest ==
  ASSUME ClockInv, RestTypeOK, ComposeDateTime PROVE RestTypeOK'
<1>1. Shown \in Nat
  BY SinceIsNat DEF Shown, Second, ClockInv, ClockTypeOK
<1>2. dateTime' \in [Fields -> Int]
  BY DEF ComposeDateTime, NoFields
<1> QED
  BY <1>1, <1>2 DEF ComposeDateTime, RestTypeOK, worldVars

LEMMA NextRest == ClockInv /\ RestTypeOK /\ [Next]_vars => RestTypeOK'
<1> SUFFICES ASSUME ClockInv, RestTypeOK, [Next]_vars PROVE RestTypeOK'
  OBVIOUS
<1>0. caller \in Returns
  BY DEF ClockInv, ClockTypeOK
<1> USE DEF RestTypeOK, fieldVars, worldVars, Returns
<1>1. CASE UNCHANGED vars
  BY <1>1 DEF vars
<1>2. CASE Now
  BY <1>0, <1>2 DEF Now, Return
<1>3. CASE Discard
  BY <1>3 DEF Discard
<1>4. CASE SendRequest
  BY <1>4, Bounds DEF SendRequest
<1>5. CASE Receive
  BY <1>0, <1>5 DEF Receive, Return
<1>6. CASE Timeout
  BY <1>0, <1>6 DEF Timeout, Return
<1>7. CASE FirstSync
  BY <1>7 DEF FirstSync, setSyncProvider
<1>8. CASE setSyncInterval
  BY <1>8 DEF setSyncInterval
<1>9. CASE RetrySync
  BY <1>9 DEF RetrySync, setSyncProvider
<1>10. CASE LeaveSetup
  BY <1>10 DEF LeaveSetup
<1>11. CASE Queue
  <2>1. dateTime' \in [Fields -> Int]
    BY <1>11 DEF Queue, NoFields
  <2> QED
    BY <1>11, <2>1 DEF Queue
<1>12. CASE Tick
  BY <1>12 DEF Tick, deviceVars
<1>13. CASE Arrive
  BY <1>13 DEF Arrive, deviceVars
<1>14. CASE Lose
  BY <1>14, Bounds DEF Lose, deviceVars
<1> QED
  BY <1>1, <1>2, <1>3, <1>4, <1>5, <1>6, <1>7, <1>8, <1>9, <1>10, <1>11, <1>12,
     <1>13, <1>14, AnswerRest, ReadFieldRest, ComposeDateTimeRest
  DEF Next, Device

\* The clock's values are of their types for every wrap of millis(), and
\* setup() gives up at its third round: the counter goes no further.
THEOREM TypeCorrect == Spec => []TypeOK
<1>1. ClockInv /\ RestTypeOK => TypeOK
  <2> SUFFICES ASSUME ClockInv, RestTypeOK PROVE TypeOK
    OBVIOUS
  <2>1. flying \subseteq [value : Nat, sent : 0..MaxTime]
    <3> SUFFICES ASSUME NEW p \in flying
                 PROVE  p \in [value : Nat, sent : 0..MaxTime]
      OBVIOUS
    <3>1. p \in [value : Nat, sent : Nat] /\ p.sent \in 0..MaxTime
      BY DEF ClockInv, ClockTypeOK, RestTypeOK
    <3> QED
      BY <3>1
  <2> QED
    BY <2>1 DEF ClockInv, ClockTypeOK, RestTypeOK, TypeOK, Second
<1> QED
  BY <1>1, InitClock, InitRest, NextClock, NextRest, PTL DEF Spec

-----------------------------------------------------------------------------
(* Seconds.                                                                *)

\* Between what is counted and what is so: the clock, once set.
LEMMA ShownInTime ==
  ASSUME ClockInv, TimeInv, sysTime >= Epoch, ~kissed
  PROVE  TrueTime - Shown \in 0..MaxLag
<1>1. /\ Since(prevMillis) \in Nat /\ Epoch \in Nat /\ MaxDelay \in Nat
      /\ MaxResolve \in Nat /\ MaxTime \in Nat /\ MaxTime < Epoch
      /\ sysTime \in Nat /\ time \in 0..MaxTime /\ phase \in {0, 1}
  BY Constants, SinceIsNat DEF ClockInv, ClockTypeOK
<1>2. Counted <= Actual /\ Actual <= Counted + MaxAge + 1
  BY <1>1 DEF TimeInv, CountedInTime, Counted
<1>3. Shown \in Nat /\ 2 * Shown <= Counted /\ Counted <= 2 * Shown + 1
  BY <1>1 DEF Shown, Counted, Second
<1>4. TrueTime \in Nat /\ 2 * TrueTime <= Actual /\ Actual <= 2 * TrueTime + 1
  BY <1>1 DEF TrueTime, Actual, Second
<1>5. MaxLag \in Nat /\ MaxAge + 1 <= 2 * MaxLag /\ 2 * MaxLag <= MaxAge + 2
  BY <1>1 DEF MaxLag, MaxAge, Second
<1>6. Counted \in Nat /\ Actual \in Nat /\ MaxAge \in Nat
  BY <1>1 DEF Counted, Actual, MaxAge
<1>7. Shown <= TrueTime
  BY <1>2, <1>3, <1>4, <1>6
<1>8. 2 * TrueTime <= 2 * Shown + 2 + MaxAge
  BY <1>2, <1>3, <1>4, <1>6
<1>9. TrueTime <= Shown + MaxLag
  BY <1>3, <1>4, <1>5, <1>6, <1>8
<1> QED
  BY <1>3, <1>4, <1>5, <1>7, <1>9

\* For every length of the wrap, flight and resolution: a clock set from an
\* answer shows no time that has not come.
THEOREM ClockIsNeverAhead == Spec => []ClockNeverAhead
<1>1. ClockInv /\ TimeInv => ClockNeverAhead
  <2> SUFFICES ASSUME ClockInv, TimeInv, sysTime >= Epoch, ~kissed
               PROVE  Shown <= TrueTime
    BY DEF ClockNeverAhead
  <2>1. Shown \in Int /\ TrueTime \in Int
    BY SinceIsNat, Constants
    DEF ClockInv, ClockTypeOK, Shown, TrueTime, Second
  <2> QED
    BY <2>1, ShownInTime DEF MaxLag
<1> QED
  BY <1>1, TimeInvariant, PTL

\* And it is late by no more than a flight and a resolution.
THEOREM LagIsBounded == Spec => []LagBounded
<1>1. ClockInv /\ TimeInv => LagBounded
  BY ShownInTime DEF LagBounded
<1> QED
  BY <1>1, TimeInvariant, PTL

\* setup() is left with a clock that is right: a date without a time is after
\* 2020, and a clock never set in 1970.
THEOREM SetupIsLeftInTime == Spec => SetupLeavesInTime
<1>1. ASSUME ClockInv, TimeInv, [Next]_vars, pc = "year", pc' = "loop"
      PROVE  TrueTime - Shown \in 0..MaxLag
  <2>1. sysTime >= Epoch /\ sysTime < Kiss
    BY <1>1
    DEF Next, Device, Now, Discard, SendRequest, Receive, Timeout, FirstSync,
        setSyncInterval, RetrySync, setSyncProvider, LeaveSetup, YearAccepted,
        ComposeDateTime, ReadField, Queue, Tick, Answer, Arrive, Lose, vars,
        deviceVars
  <2>2. ~kissed
    BY <1>1, <2>1, Constants DEF ClockInv, ClockTypeOK, TimeInv, CountedInTime
  <2> QED
    BY <1>1, <2>1, <2>2, ShownInTime
<1>2. ClockInv /\ TimeInv /\ [Next]_vars
        => [pc = "year" /\ pc' = "loop" => TrueTime - Shown \in 0..MaxLag]_vars
  BY <1>1
<1> QED
  BY <1>2, TimeInvariant, PTL DEF Spec, SetupLeavesInTime
-----------------------------------------------------------------------------
(* The end of setup().                                                     *)

\* Where now() came back to is where it was called; no wait outlasts its limit.
RoundInv ==
  /\ pc \in Returns => caller = pc
  /\ pc = "wait" => Since(beginWait) <= NtpTimeout

SetupInv == ClockInv /\ TimeInv /\ RestTypeOK /\ RoundInv

LEMMA InitRound == Init => RoundInv
BY DEF Init, RoundInv, Returns

\* A tick adds one to a wait that goes on.
LEMMA TickWait ==
  ASSUME ClockInv, Tick, Since(beginWait) <= MaxResolve + NtpTimeout
  PROVE  Since(beginWait)' = Since(beginWait) + 1
<1>1. Wrap \in Nat /\ MaxResolve \in Nat /\ MaxResolve + 3 + 1 < Wrap
      /\ Since(beginWait) \in Nat
  BY Constants, SinceIsNat DEF ClockInv
<1>2. ((millis - beginWait) % Wrap) + 1 < Wrap
  BY <1>1 DEF Since, NtpTimeout
<1>3. millis' = (millis + 1) % Wrap /\ beginWait' = beginWait
  BY DEF Tick, deviceVars
<1> QED
  BY <1>2, <1>3, SinceTick DEF Since, ClockInv, ClockTypeOK

LEMMA NextRound == ClockInv /\ RoundInv /\ [Next]_vars => RoundInv'
<1> SUFFICES ASSUME ClockInv, RoundInv, [Next]_vars PROVE RoundInv'
  OBVIOUS
<1> USE DEF RoundInv, timeVars, fieldVars, worldVars, deviceVars, Returns
<1>0. caller \in Returns
  BY DEF ClockInv, ClockTypeOK
<1>1. CASE UNCHANGED vars
  BY <1>1 DEF vars, Since
<1>2. CASE Now
  BY <1>0, <1>2 DEF Now, Return
<1>3. CASE Discard
  BY <1>3 DEF Discard
<1>4. CASE SendRequest
  <2>1. Since(beginWait)' = 0
    BY <1>4, SinceType, Constants DEF SendRequest, Since, ClockInv, ClockTypeOK
  <2> QED
    BY <1>4, <2>1 DEF SendRequest, NtpTimeout
<1>5. CASE Receive
  BY <1>0, <1>5 DEF Receive, Return
<1>6. CASE Timeout
  BY <1>0, <1>6 DEF Timeout, Return
<1>7. CASE FirstSync \/ RetrySync
  BY <1>7 DEF FirstSync, RetrySync, setSyncProvider
<1>8. CASE setSyncInterval
  BY <1>8 DEF setSyncInterval
<1>9. CASE LeaveSetup
  BY <1>9 DEF LeaveSetup
<1>10. CASE ComposeDateTime
  BY <1>10 DEF ComposeDateTime
<1>11. CASE ReadField
  BY <1>11 DEF ReadField
<1>12. CASE Queue
  BY <1>12 DEF Queue
<1>13. CASE Tick
  <2>1. pc' = pc /\ caller' = caller
    BY <1>13 DEF Tick
  <2>2. ASSUME pc = "wait" PROVE Since(beginWait)' <= NtpTimeout
    <3>1. Since(beginWait) < NtpTimeout /\ Since(beginWait) \in Nat
      BY <1>13, <2>2, SinceIsNat DEF Tick, ClockInv
    <3>2. Since(beginWait)' = Since(beginWait) + 1
      BY <1>13, <3>1, TickWait, Constants DEF NtpTimeout
    <3> QED
      BY <3>1, <3>2 DEF NtpTimeout
  <2> QED
    BY <2>1, <2>2 DEF Tick
<1>14. CASE Answer \/ Arrive \/ Lose
  BY <1>14 DEF Answer, Arrive, Lose, Since
<1> QED
  BY <1>1, <1>2, <1>3, <1>4, <1>5, <1>6, <1>7, <1>8, <1>9, <1>10, <1>11, <1>12,
     <1>13, <1>14
  DEF Next, Device

\* The rounds left after this one, and what there is to come of this one.
RoundsLeft == 2 * (2 - Counter) * CallLength
RestOfRound == CASE caller = "interval" -> 2 * CallLength
                 [] caller = "year" -> CallLength
                 [] OTHER -> 0

LEMMA RestOfSetupIs ==
  RestOfSetup = IF pc = "setup" THEN 7 * CallLength
                                ELSE RoundsLeft + RestOfCall + RestOfRound
BY DEF RestOfSetup, RoundsLeft, RestOfRound

LEMMA CallLengthType == CallLength \in Nat /\ CallLength = MaxResolve + 8
BY Constants DEF CallLength, NtpTimeout

LEMMA RoundsLeftIs ==
  ASSUME NEW c \in 0..2
  PROVE  /\ 2 * (2 - c) * CallLength \in 0..(4 * CallLength)
         /\ c < 2 => 2 * (2 - (c + 1)) * CallLength
                       = 2 * (2 - c) * CallLength - 2 * CallLength
<1>1. CallLength \in Nat
  BY CallLengthType
<1>2. CASE c = 0
  <2>1. 2 * (2 - c) = 4 /\ 2 * (2 - (c + 1)) = 2
    BY <1>2
  <2> QED
    BY <1>1, <1>2, <2>1
<1>3. CASE c = 1
  <2>1. 2 * (2 - c) = 2 /\ 2 * (2 - (c + 1)) = 0
    BY <1>3
  <2> QED
    BY <1>1, <1>3, <2>1
<1>4. CASE c = 2
  <2>1. 2 * (2 - c) = 0
    BY <1>4
  <2> QED
    BY <1>1, <1>4, <2>1
<1> QED
  BY <1>2, <1>3, <1>4

\* A call of now() in progress has fewer steps to go than a call has.
LEMMA RestOfCallType == SetupInv => RestOfCall \in 0..(CallLength - 1)
<1> SUFFICES ASSUME SetupInv PROVE RestOfCall \in 0..(CallLength - 1)
  OBVIOUS
<1>1. MaxResolve \in Nat /\ Since(beginWait) \in Nat
  BY Constants, SinceIsNat DEF SetupInv, ClockInv
<1>2. pc = "resolve" => Since(beginWait) <= MaxResolve
  BY DEF SetupInv, TimeInv, ReceivedInTime
<1>3. pc = "wait" => Since(beginWait) <= 3
  BY DEF SetupInv, RoundInv, NtpTimeout
<1> HIDE DEF Since
<1> QED
  BY <1>1, <1>2, <1>3, CallLengthType DEF RestOfCall, NtpTimeout

\* Within a call of now(): each step, and each tick of its waits, is one less.
LEMMA CallAdvances ==
  ASSUME SetupInv, SetupInv', caller # "field",
         Now \/ Discard \/ SendRequest \/ Receive \/ Timeout \/ Tick,
         InSetup
  PROVE  /\ pc # "setup" /\ pc' # "setup" /\ UNCHANGED <<caller, Counter>>
         /\ RestOfCall' < RestOfCall
<1>1. MaxResolve \in Nat /\ Since(beginWait) \in Nat /\ caller \in Returns
  BY Constants, SinceIsNat DEF SetupInv, ClockInv, ClockTypeOK
<1>2. Counter \in Int
  BY DEF SetupInv, RestTypeOK
<1>3. CASE Now
  <2>1. pc' \in {"discard", caller}
    BY <1>3 DEF Now, Return
  <2> QED
    BY <1>1, <1>3, <2>1, CallLengthType DEF Now, RestOfCall, Returns
<1>4. CASE Discard
  <2>1. Since(beginWait)' = 0
    BY <1>4, SinceType, Constants
    DEF Discard, Since, SetupInv, ClockInv, ClockTypeOK
  <2> HIDE DEF Since
  <2> QED
    BY <1>1, <1>4, <2>1, CallLengthType DEF Discard, RestOfCall, NtpTimeout
<1>5. CASE SendRequest
  <2>1. Since(beginWait)' = 0
    BY <1>5, SinceType, Constants
    DEF SendRequest, Since, SetupInv, ClockInv, ClockTypeOK
  <2>2. Since(beginWait) <= MaxResolve
    BY <1>5 DEF SendRequest, SetupInv, TimeInv, ReceivedInTime
  <2> HIDE DEF Since
  <2> QED
    BY <1>1, <1>5, <2>1, <2>2 DEF SendRequest, RestOfCall, NtpTimeout
<1>6. CASE Receive \/ Timeout
  <2>1. pc = "wait" /\ pc' = caller /\ UNCHANGED <<caller, Counter>>
    BY <1>6 DEF Receive, Timeout, Return
  <2>2. Since(beginWait) <= 3
    BY <2>1 DEF SetupInv, RoundInv, NtpTimeout
  <2> HIDE DEF Since
  <2> QED
    BY <1>1, <2>1, <2>2 DEF RestOfCall, Returns, NtpTimeout
<1>7. CASE Tick
  <2>1. pc' = pc /\ UNCHANGED <<caller, Counter>> /\ pc \in {"resolve", "wait"}
    BY <1>7 DEF Tick, deviceVars, InSetup
  <2>2. Since(beginWait) <= MaxResolve + NtpTimeout
    BY <1>1, <2>1
    DEF SetupInv, TimeInv, ReceivedInTime, RoundInv, NtpTimeout
  <2>3. Since(beginWait)' = Since(beginWait) + 1
    BY <1>7, <2>2, TickWait DEF SetupInv
  <2> HIDE DEF Since
  <2> QED
    BY <1>1, <2>1, <2>3 DEF RestOfCall, NtpTimeout
<1> QED
  BY <1>3, <1>4, <1>5, <1>6, <1>7

\* From one call of now() to the next.
LEMMA RoundAdvances ==
  ASSUME SetupInv, InSetup,
         FirstSync \/ setSyncInterval \/ RetrySync \/ LeaveSetup
  PROVE  ~InSetup' \/ RestOfSetup' <= RestOfSetup - 1
<1> DEFINE L == CallLength
<1>1. L \in Nat /\ L > 0 /\ Counter \in 0..2
  <2>1. Counter \in 0..2
    BY DEF SetupInv, RestTypeOK, InSetup
  <2> QED
    BY <2>1, CallLengthType, Constants
<1>2. RoundsLeft \in 0..(4 * L)
  BY <1>1, RoundsLeftIs DEF RoundsLeft
<1>3. pc' = "now" => RestOfCall' = L - 1
  BY DEF RestOfCall, CallLength
<1>4. pc \in Returns \cup {"setup"} => RestOfCall = 0
  BY DEF RestOfCall, Returns
<1>5. caller \in Returns
  BY DEF SetupInv, ClockInv, ClockTypeOK
<1>6. CASE FirstSync
  <2>1. pc = "setup" /\ pc' = "now" /\ caller' = "interval" /\ Counter' = Counter
    BY <1>6 DEF FirstSync, setSyncProvider
  <2>2. RoundsLeft' = RoundsLeft /\ RestOfRound' = 2 * L
    BY <2>1 DEF RoundsLeft, RestOfRound, CallLength
  <2>3. RestOfSetup = 7 * L /\ RestOfSetup' = RoundsLeft + (L - 1) + 2 * L
    BY <1>3, <2>1, <2>2, RestOfSetupIs DEF RestOfSetup, RoundsLeft, RestOfRound
  <2> HIDE DEF L
  <2> QED
    BY <1>1, <1>2, <2>3
<1>7. CASE RetrySync
  <2>1. pc = "year" /\ pc' = "now" /\ caller' = "retry" /\ Counter' = Counter
    BY <1>7 DEF RetrySync, setSyncProvider
  <2>2. caller = "year"
    BY <2>1 DEF SetupInv, RoundInv, Returns
  <2>3. RoundsLeft' = RoundsLeft /\ RestOfRound' = 0 /\ RestOfRound = L
    BY <2>1, <2>2 DEF RoundsLeft, RestOfRound, CallLength
  <2>4. RestOfSetup = RoundsLeft + 0 + L
    BY <1>4, <2>1, <2>3, RestOfSetupIs DEF Returns
  <2>5. RestOfSetup' = RoundsLeft + (L - 1) + 0
    BY <1>3, <2>1, <2>3 DEF RestOfSetup, RoundsLeft, RestOfRound
  <2> HIDE DEF L
  <2> QED
    BY <1>1, <1>2, <2>4, <2>5
<1>8. CASE setSyncInterval /\ pc = "interval"
  <2>1. pc' = "now" /\ caller' = "year" /\ Counter' = Counter
    BY <1>1, <1>8 DEF setSyncInterval
  <2>2. caller = "interval"
    BY <1>8 DEF SetupInv, RoundInv, Returns
  <2>3. RoundsLeft' = RoundsLeft /\ RestOfRound' = L /\ RestOfRound = 2 * L
    BY <2>1, <2>2 DEF RoundsLeft, RestOfRound, CallLength
  <2>4. RestOfSetup = RoundsLeft + 0 + 2 * L
    BY <1>4, <1>8, <2>3, RestOfSetupIs DEF Returns
  <2>5. RestOfSetup' = RoundsLeft + (L - 1) + L
    BY <1>3, <2>1, <2>3 DEF RestOfSetup, RoundsLeft, RestOfRound
  <2> HIDE DEF L
  <2> QED
    BY <1>1, <1>2, <2>4, <2>5
<1>9. CASE setSyncInterval /\ pc = "retry"
  <2>1. CASE Counter = 2
    <3>1. pc' = "asleep"
      BY <1>9, <2>1 DEF setSyncInterval
    <3> QED
      BY <3>1 DEF InSetup
  <2>2. CASE Counter < 2
    <3>1. pc' = "now" /\ caller' = "year" /\ Counter' = Counter + 1
      BY <1>1, <1>9, <2>2 DEF setSyncInterval
    <3>2. caller = "retry"
      BY <1>9 DEF SetupInv, RoundInv, Returns
    <3>3. RoundsLeft' = RoundsLeft - 2 * L
      BY <1>1, <2>2, <3>1, RoundsLeftIs DEF RoundsLeft, CallLength
    <3>4. RestOfRound' = L /\ RestOfRound = 0
      BY <3>1, <3>2 DEF RestOfRound, CallLength
    <3>5. RestOfSetup = RoundsLeft + 0 + 0
      BY <1>4, <1>9, <3>4, RestOfSetupIs DEF Returns
    <3>6. RestOfSetup' = (RoundsLeft - 2 * L) + (L - 1) + L
      BY <1>3, <3>1, <3>3, <3>4 DEF RestOfSetup, RoundsLeft, RestOfRound
    <3> HIDE DEF L
    <3> QED
      BY <1>1, <1>2, <3>5, <3>6
  <2> QED
    BY <1>1, <2>1, <2>2
<1>10. CASE LeaveSetup
  BY <1>10 DEF LeaveSetup, InSetup
<1> QED
  BY <1>6, <1>7, <1>8, <1>9, <1>10 DEF setSyncInterval

LEMMA RestOfSetupType == SetupInv /\ InSetup => RestOfSetup \in Nat
<1> SUFFICES ASSUME SetupInv, InSetup PROVE RestOfSetup \in Nat
  OBVIOUS
<1>1. CallLength \in Nat /\ Counter \in 0..2
  BY CallLengthType DEF SetupInv, RestTypeOK, InSetup
<1>2. RoundsLeft \in Nat
  BY <1>1, RoundsLeftIs DEF RoundsLeft
<1>3. RestOfRound \in Nat
  BY <1>1 DEF RestOfRound
<1> QED
  BY <1>1, <1>2, <1>3, RestOfCallType, RestOfSetupIs

\* For every length of the waits, every answer and every loss: setup() takes
\* less than 7 * (MaxResolve + 8) steps and ticks to loop() or to sleep.
THEOREM SetupAlwaysAdvances == Spec => SetupAdvances
<1>1. ASSUME SetupInv, SetupInv', Next, InSetup, <<pc, time>>' # <<pc, time>>
      PROVE  ~InSetup' \/ RestOfSetup' \in 0..(RestOfSetup - 1)
  <2> SUFFICES ASSUME InSetup' PROVE RestOfSetup' \in 0..(RestOfSetup - 1)
    OBVIOUS
  <2>1. RestOfSetup \in Nat /\ RestOfSetup' \in Nat
    <3>1. SetupInv' /\ InSetup' => (RestOfSetup \in Nat)'
      BY RestOfSetupType, PTL
    <3> QED
      BY <1>1, <3>1, RestOfSetupType
  <2>2. caller # "field" /\ pc # "loop" /\ pc # "message"
    BY <1>1 DEF InSetup
  <2>3. ~(Answer \/ Arrive \/ Lose)
    BY <1>1 DEF Answer, Arrive, Lose, deviceVars
  <2>4. ~(ComposeDateTime \/ ReadField \/ Queue)
    <3>1. pc # "field"
      BY <1>1, <2>2 DEF SetupInv, RoundInv, Returns
    <3> QED
      BY <2>2, <3>1 DEF ComposeDateTime, ReadField, Queue
  <2>5. CASE Now \/ Discard \/ SendRequest \/ Receive \/ Timeout \/ Tick
    <3>1. /\ pc # "setup" /\ pc' # "setup" /\ UNCHANGED <<caller, Counter>>
          /\ RestOfCall' < RestOfCall
      BY <1>1, <2>2, <2>5, CallAdvances
    <3>2. RoundsLeft' = RoundsLeft /\ RestOfRound' = RestOfRound
      BY <3>1 DEF RoundsLeft, RestOfRound, CallLength
    <3>3. RestOfSetup = RoundsLeft + RestOfCall + RestOfRound
      BY <3>1, RestOfSetupIs
    <3>4. RestOfSetup' = RoundsLeft + RestOfCall' + RestOfRound
      <4>1. RestOfSetup' = RoundsLeft' + RestOfCall' + RestOfRound'
        BY <3>1 DEF RestOfSetup, RoundsLeft, RestOfRound
      <4> QED
        BY <3>2, <4>1
    <3>5. RoundsLeft \in Nat /\ RestOfRound \in Nat
      <4>1. CallLength \in Nat /\ Counter \in 0..2
        BY <1>1, CallLengthType DEF SetupInv, RestTypeOK, InSetup
      <4>2. RoundsLeft \in Nat
        BY <4>1, RoundsLeftIs DEF RoundsLeft
      <4>3. RestOfRound \in Nat
        BY <4>1 DEF RestOfRound
      <4> QED
        BY <4>2, <4>3
    <3>6. RestOfCall \in Nat /\ RestOfCall' \in Nat
      <4>1. SetupInv' => (RestOfCall \in 0..(CallLength - 1))'
        BY RestOfCallType, PTL
      <4> QED
        BY <1>1, <4>1, RestOfCallType
    <3>7. RestOfCall' < RestOfCall
      BY <3>1
    <3>8. RoundsLeft + RestOfCall' + RestOfRound
            < RoundsLeft + RestOfCall + RestOfRound
      <4>1. \A a, b, c, d \in Nat : d < b => a + d + c < a + b + c
        OBVIOUS
      <4> QED
        BY <3>5, <3>6, <3>7, <4>1, Zenon
    <3>9. RestOfSetup' < RestOfSetup
      BY <3>3, <3>4, <3>8
    <3> QED
      BY <2>1, <3>9
  <2>6. CASE FirstSync \/ setSyncInterval \/ RetrySync \/ LeaveSetup
    BY <1>1, <2>1, <2>6, RoundAdvances
  <2> QED
    BY <1>1, <2>3, <2>4, <2>5, <2>6 DEF Next, Device
<1>2. SetupInv /\ SetupInv' /\ [Next]_vars
        => [InSetup /\ <<pc, time>>' # <<pc, time>>
              => ~InSetup' \/ RestOfSetup' \in 0..(RestOfSetup - 1)]_vars
  BY <1>1
<1>3. Init => SetupInv
  BY InitClock, InitTime, InitRest, InitRound DEF SetupInv
<1>4. SetupInv /\ [Next]_vars => SetupInv'
  BY NextClock, NextTime, NextRest, NextRound DEF SetupInv
<1> QED
  BY <1>2, <1>3, <1>4, PTL DEF Spec, SetupAdvances
=============================================================================
