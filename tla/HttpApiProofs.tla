--------------------------- MODULE HttpApiProofs ----------------------------
(***************************************************************************)
(* HTTPAPIEX_ExecuteRequest() for every set of answers of the shape HttpApi *)
(* assumes and every number of faults: one socket, answers to the last      *)
(* execution only, a fault for every attempt that fails, and the refinement *)
(* of HttpCall.  The invariant has four parts: where the connection stands  *)
(* (ConnInv), where in its answer the reader stands (ReadInv), how often    *)
(* the loop may still start over (BudgetInv), and what made it (FaultInv).  *)
(***************************************************************************)
EXTENDS HttpApi, SequenceTheorems, TLAPS

Sending == {"heads", "content"}
Reading == LineStages \cup BlockStages

ConnInv ==
  /\ pc = "idle" => k \in {-1, 2}
  /\ pc = "try" => k \in 0..2
  /\ pc \notin {"idle", "try"} => k = 2
  /\ k = 2 <=> state # "none"
  /\ is_connected <=> state \in {"open", "error"}
  /\ sslClient => state = "open"
  /\ state = "error" => pc \in BlockStages
  /\ pc = "open" => state = "closed"
  /\ pc \in Sending \cup Reading => state \in {"open", "error"}
  /\ ~sslClient => coming = <<>> /\ ~silent

\* What has been received and what is under way is answer a from unit i on.
Rest == received \o coming
Remains(a, i) ==
  /\ Len(Rest) = Len(a) - i + 1
  /\ \A m \in 1..Len(Rest) :
       Rest[m] = [kind |-> a[i + m - 1], of |-> executed]

\* Unit i of an answer of that shape is the next one for stage pc.
Position(a, b, announced, i) ==
  \/ pc = "status" /\ i = 1 /\ body = "none"
  \/ /\ pc = "headers" /\ i \in 2..b /\ body \in {"none", announced}
     /\ announced # "none" =>
          body = announced \/ \E m \in i..(b - 1) : a[m] = announced
     /\ i > 2 => executed \in headers
  \/ /\ pc \in {"sized", "size", "chunk", "crlf"} /\ executed \in headers
     /\ body = announced
     /\ \/ pc = "sized" /\ announced = "length" /\ i = b + 1
        \/ /\ announced = "chunked" /\ i > b
           /\ \/ pc = "size" /\ a[i - 1] \in {"blank", "data"}
              \/ pc = "chunk" /\ a[i - 1] = "size"
              \/ pc = "crlf" /\ a[i - 1] = "zero"

Following ==
  \E a \in Answers : \E b \in DOMAIN a, announced \in Bodies, i \in DOMAIN a :
    Shape(a, b, announced) /\ Position(a, b, announced, i) /\ Remains(a, i)

ReadInv ==
  /\ \A m \in DOMAIN received : received[m].of = executed
  /\ \A m \in DOMAIN coming : coming[m].of = executed
  /\ pc \notin Reading => received = <<>> /\ coming = <<>>
  /\ pc \in Sending \cup {"open"} => body = "none"
  /\ pc \in Reading /\ sslClient =>
       Following \/ (silent /\ received = <<>> /\ coming = <<>>)

\* The connections the loop may still create.
One(condition) == IF condition THEN 1 ELSE 0
Spare == One(k >= 1 /\ ~st[1]) + One(k >= 0 /\ ~st[0])
BudgetInv ==
  pc # "idle" => executed + Spare + One(k = 2 /\ pc \notin Reading) <= 3

\* The connection the loop holds has met its fault.
Broken == is_connected /\ (~sslClient \/ silent)
Needed == IF kept THEN 3 ELSE 1
FaultInv ==
  /\ pc # "idle" => /\ result = "none"
                    /\ callFaults + Spare + One(k = 2 /\ ~Broken) >= Needed
  /\ FaultsBeforeFailure

IInv == TypeOK /\ ConnInv /\ ReadInv /\ BudgetInv /\ FaultInv

-----------------------------------------------------------------------------
(* Units.                                                                  *)

LEMMA RestType ==
  ASSUME TypeOK
  PROVE  /\ Rest \in Seq(Unit) /\ Len(Rest) = Len(received) + Len(coming)
         /\ \A m \in 1..Len(Rest) :
              Rest[m] = IF m <= Len(received) THEN received[m]
                                              ELSE coming[m - Len(received)]
BY ConcatProperties DEF TypeOK, Rest

\* What can be read begins with the first unit that has not been.
LEMMA FirstOfRest ==
  ASSUME TypeOK, Buffered # <<>>
  PROVE  First = Rest[1] /\ Len(Rest) > 0
<1>1. /\ received \in Seq(Unit) /\ coming \in Seq(Unit) /\ silent \in BOOLEAN
      /\ Len(received) \in Nat /\ Len(coming) \in Nat
  BY LenProperties DEF TypeOK
<1>2. /\ Rest \in Seq(Unit) /\ Len(Rest) = Len(received) + Len(coming)
      /\ \A m \in 1..Len(Rest) :
           Rest[m] = IF m <= Len(received) THEN received[m]
                                           ELSE coming[m - Len(received)]
  BY RestType DEF TypeOK
<1>3. CASE silent
  <2>1. Buffered = received
    BY <1>1, <1>3, ConcatEmptySeq DEF Buffered
  <2>2. Len(received) > 0
    BY <1>1, <2>1, EmptySeq
  <2> QED
    BY <1>1, <1>2, <2>1, <2>2 DEF First
<1>4. CASE ~silent
  <2>1. Buffered = Rest
    BY <1>4 DEF Buffered, Rest
  <2>2. Len(Rest) > 0
    BY <1>2, <2>1, EmptySeq
  <2> QED
    BY <1>2, <2>1, <2>2 DEF First
<1> QED
  BY <1>1, <1>3, <1>4

\* Whoever takes a unit takes the first one that has not been read.
LEMMA TakeUnit ==
  ASSUME TypeOK, NEW completes \in BOOLEAN, Take(completes)
  PROVE  /\ received' \in Seq(Unit) /\ coming' \in Seq(Unit)
         /\ Len(Rest) > 0 /\ First = Rest[1] /\ First \in Unit
         /\ completes => received' = <<>>
         /\ Len(Rest) = 1 => coming' = <<>>
         /\ ~completes => /\ Len(Rest') = Len(Rest) - 1
                          /\ \A m \in 1..Len(Rest') : Rest'[m] = Rest[m + 1]
<1>1. /\ received \in Seq(Unit) /\ coming \in Seq(Unit) /\ silent \in BOOLEAN
      /\ Len(received) \in Nat /\ Len(coming) \in Nat
  BY LenProperties DEF TypeOK
<1>2. Buffered # <<>>
  BY DEF Take
<1>3. PICK n \in 0..Len(coming) :
        LET got == received \o SubSeq(coming, 1, n)
        IN /\ got # <<>> /\ (silent => n = 0)
           /\ received' = (IF completes THEN <<>> ELSE Tail(got))
           /\ coming' = SubSeq(coming, n + 1, Len(coming))
  BY DEF Take
<1> DEFINE early == SubSeq(coming, 1, n)
           got == received \o early
<1>4. got # <<>> /\ (silent => n = 0)
       /\ received' = (IF completes THEN <<>> ELSE Tail(got))
       /\ coming' = SubSeq(coming, n + 1, Len(coming))
  BY <1>3
<1> HIDE DEF got
<1>5. /\ early \in Seq(Unit) /\ Len(early) = n
      /\ \A m \in 1..n : early[m] = coming[m]
  BY <1>1, SubSeqProperties
<1> HIDE DEF early
<1>6. /\ coming' \in Seq(Unit) /\ Len(coming') = Len(coming) - n
      /\ \A m \in 1..(Len(coming) - n) : coming'[m] = coming[n + m]
  BY <1>1, <1>4, SubSeqProperties
<1>7. /\ got \in Seq(Unit) /\ Len(got) = Len(received) + n
      /\ \A m \in 1..Len(got) :
           got[m] = IF m <= Len(received) THEN received[m]
                                          ELSE early[m - Len(received)]
  BY <1>1, <1>5, ConcatProperties DEF got
<1>8. Len(got) > 0 /\ got # <<>>
  BY <1>7, <1>4, EmptySeq
<1>9. Rest \in Seq(Unit) /\ Len(Rest) = Len(received) + Len(coming)
      /\ \A m \in 1..Len(got) : got[m] = Rest[m]
  <2>1. /\ Rest \in Seq(Unit) /\ Len(Rest) = Len(received) + Len(coming)
        /\ \A m \in 1..Len(Rest) :
             Rest[m] = IF m <= Len(received) THEN received[m]
                                             ELSE coming[m - Len(received)]
    BY RestType
  <2>2. ASSUME NEW m \in 1..Len(got)
        PROVE  got[m] = Rest[m]
    <3>1. m \in 1..Len(Rest)
      BY <1>1, <1>7, <2>1
    <3>2. CASE m <= Len(received)
      BY <1>7, <2>1, <3>1, <3>2
    <3>3. CASE m > Len(received)
      <4>1. m - Len(received) \in 1..n
        BY <1>1, <1>7, <3>3
      <4>2. got[m] = early[m - Len(received)]
        BY <1>1, <1>7, <3>3
      <4>3. Rest[m] = coming[m - Len(received)]
        BY <1>1, <2>1, <3>1, <3>3
      <4> QED
        BY <1>5, <4>1, <4>2, <4>3
    <3> QED
      BY <1>1, <3>2, <3>3
  <2> QED
    BY <2>1, <2>2
<1>10. Len(Rest) > 0 /\ Rest[1] \in Unit
  BY <1>1, <1>7, <1>8, <1>9
<1>11. First = Rest[1]
  BY <1>2, FirstOfRest
<1>12. ASSUME ~completes
       PROVE  /\ received' \in Seq(Unit) /\ Len(received') = Len(got) - 1
              /\ \A m \in 1..(Len(got) - 1) : received'[m] = got[m + 1]
  BY <1>7, <1>8, <1>12, <1>4, HeadTailProperties
<1>13. received' \in Seq(Unit) /\ Len(received') \in Nat
  <2>1. completes => received' = <<>>
    BY <1>4
  <2> QED
    BY <1>12, <2>1, EmptySeq, LenProperties
<1>14. Len(Rest) = 1 => coming' = <<>>
  BY <1>1, <1>6, <1>7, <1>8, <1>9, EmptySeq
<1>15. ASSUME ~completes
       PROVE  /\ Len(Rest') = Len(Rest) - 1
              /\ \A m \in 1..Len(Rest') : Rest'[m] = Rest[m + 1]
  <2>1. /\ Rest' = received' \o coming'
        /\ Len(Rest') = Len(received') + Len(coming')
        /\ \A m \in 1..Len(Rest') :
             Rest'[m] = IF m <= Len(received') THEN received'[m]
                                              ELSE coming'[m - Len(received')]
    <3>1. /\ Len(Rest') = Len(received') + Len(coming')
          /\ \A m \in 1..(Len(received') + Len(coming')) :
               Rest'[m] = IF m <= Len(received') THEN received'[m]
                                                ELSE coming'[m - Len(received')]
      BY <1>6, <1>13, ConcatProperties DEF Rest
    <3> QED
      BY <3>1 DEF Rest
  <2>2. Len(received') = Len(received) + n - 1
    BY <1>7, <1>12, <1>15
  <2>3. Len(Rest') = Len(Rest) - 1
    BY <1>1, <1>6, <1>9, <2>1, <2>2
  <2>4. ASSUME NEW m \in 1..Len(Rest')
        PROVE  Rest'[m] = Rest[m + 1]
    <3>1. CASE m <= Len(received')
      BY <1>7, <1>8, <1>9, <1>12, <1>15, <2>1, <3>1
    <3>2. CASE m > Len(received')
      <4>1. Rest'[m] = coming'[m - Len(received')]
        BY <1>12, <1>15, <2>1, <3>2
      <4>2. m - Len(received') \in 1..(Len(coming) - n)
        BY <1>6, <1>7, <1>8, <1>12, <1>15, <2>1, <3>2
      <4>3. coming'[m - Len(received')] = coming[n + (m - Len(received'))]
        BY <1>6, <4>2
      <4>4. n + (m - Len(received')) = (m + 1) - Len(received)
        BY <1>1, <2>2
      <4>5. m + 1 \in 1..Len(Rest) /\ m + 1 > Len(received)
        BY <1>1, <1>7, <1>8, <1>9, <1>12, <1>15, <2>3, <3>2
      <4>6. Rest[m + 1] = coming[(m + 1) - Len(received)]
        BY <1>1, <4>5, RestType
      <4> QED
        BY <4>1, <4>3, <4>4, <4>6
    <3> QED
      BY <1>12, <1>15, <3>1, <3>2
  <2> QED
    BY <2>3, <2>4
<1> QED
  BY <1>6, <1>10, <1>11, <1>13, <1>14, <1>15, <1>4

-----------------------------------------------------------------------------
(* The resilient loop.                                                     *)

LEMMA InitIInv == Init => IInv
<1> SUFFICES ASSUME Init
             PROVE  IInv
  OBVIOUS
<1>1. MaxFaults \in Nat
  BY AnswerAssumption
<1>2. TypeOK
  <2>1. <<>> \in Seq(Unit)
    BY EmptySeq
  <2> QED
    BY <1>1, <2>1 DEF Init, TypeOK, Stages, LineStages, BlockStages, TlsStates,
                      Bodies
<1>3. ConnInv
  BY DEF Init, ConnInv, Sending, Reading, LineStages, BlockStages
<1>4. ReadInv
  <2>1. DOMAIN received = {} /\ DOMAIN coming = {}
    BY DEF Init
  <2> QED
    BY <2>1 DEF Init, ReadInv, Sending, Reading, LineStages, BlockStages
<1>5. BudgetInv /\ FaultInv
  BY DEF Init, BudgetInv, FaultInv, FaultsBeforeFailure
<1> QED
  BY <1>2, <1>3, <1>4, <1>5 DEF IInv

LEMMA StageTypes ==
  /\ Stages = {"idle", "try", "open", "heads", "content", "status", "headers",
               "size", "sized", "chunk", "crlf"}
  /\ Reading = {"status", "headers", "size", "sized", "chunk", "crlf"}
  /\ Sending = {"heads", "content"}
BY DEF Stages, Reading, Sending, LineStages, BlockStages

\* Between two attempts nothing is held and nothing has been read.
LEMMA NothingToRead ==
  ASSUME received' = <<>>, coming' = <<>>, pc' \notin Reading,
         pc' \in Sending \cup {"open"} => body' = "none"
  PROVE  ReadInv'
<1>1. DOMAIN received' = {} /\ DOMAIN coming' = {}
  OBVIOUS
<1> QED
  BY <1>1, StageTypes DEF ReadInv

\* One level back, off a connection that broke or with a fault of its own.
LEMMA BackFromConnection ==
  ASSUME IInv, pc \notin {"idle", "try"}, Back,
         received' = <<>>, state' = "none", is_connected' = FALSE,
         sslClient' = FALSE, coming' = <<>>, silent' = FALSE,
         UNCHANGED <<answerVars, executed, headers, kept>>,
         (Broken /\ NoFault) \/ Fault
  PROVE  IInv'
<1> USE StageTypes
<1>1. TypeOK /\ ConnInv /\ MaxFaults \in Nat
  BY AnswerAssumption DEF IInv
<1>2. /\ k = 2 /\ k' = 1 /\ pc' = "try" /\ result' = result
      /\ st' = [st EXCEPT ![2] = FALSE] /\ st \in [0..2 -> BOOLEAN]
  BY <1>1 DEF Back, ConnInv, TypeOK
<1>3. /\ st' \in [0..2 -> BOOLEAN] /\ st'[0] = st[0] /\ st'[1] = st[1]
  BY <1>2
<1>4. /\ callFaults' \in Nat /\ faults' \in 0..MaxFaults
      /\ callFaults' = callFaults + 1 \/ (Broken /\ callFaults' = callFaults)
  BY <1>1 DEF TypeOK, Fault, NoFault, faultVars
<1>5. TypeOK'
  <2>1. <<>> \in Seq(Unit)
    BY EmptySeq
  <2> QED
    <3>1. UNCHANGED <<content, body, executed, headers, kept, result>>
      BY <1>2 DEF answerVars
    <3>2. /\ pc' \in Stages /\ k' \in -1..2 /\ state' \in TlsStates
          /\ received' \in Seq(Unit) /\ coming' \in Seq(Unit)
      BY <1>2, <2>1 DEF TlsStates
    <3> QED
      BY <1>1, <1>3, <1>4, <3>1, <3>2 DEF TypeOK
<1>6. ConnInv'
  BY <1>2 DEF ConnInv
<1>7. ReadInv'
  BY <1>2, NothingToRead
<1>8. BudgetInv'
  BY <1>1, <1>2, <1>3 DEF IInv, BudgetInv, Spare, One, TypeOK
<1>9. FaultInv'
  <2>1. /\ result = "none" /\ result' = "none" /\ kept' = kept
        /\ callFaults + Spare + One(k = 2 /\ ~Broken) >= Needed
    BY <1>2 DEF IInv, FaultInv
  <2>2. Spare' = Spare /\ Spare \in Nat
    BY <1>2, <1>3 DEF Spare, One
  <2>3. Needed' = Needed /\ Needed \in Nat
    BY <2>1 DEF Needed
  <2>4. /\ One(k' = 2 /\ ~Broken') = 0 /\ One(k = 2 /\ ~Broken) \in {0, 1}
        /\ Broken => One(k = 2 /\ ~Broken) = 0
    BY <1>2 DEF One
  <2>5. callFaults \in Nat
    BY <1>1 DEF TypeOK
  <2>6. callFaults' + Spare' + One(k' = 2 /\ ~Broken') >= Needed'
    BY <1>4, <2>1, <2>2, <2>3, <2>4, <2>5
  <2> QED
    BY <2>1, <2>6 DEF FaultInv, FaultsBeforeFailure
<1> QED
  BY <1>5, <1>6, <1>7, <1>8, <1>9 DEF IInv

LEMMA FailStep ==
  ASSUME IInv, pc \notin {"idle", "try"}, Fail, (Broken /\ NoFault) \/ Fault
  PROVE  IInv'
<1>1. ConnInv
  BY DEF IInv
<1>2. /\ state' = "none" /\ is_connected' = FALSE
      /\ sslClient' = FALSE /\ coming' = <<>> /\ silent' = FALSE
  BY <1>1 DEF Fail, CloseConnection, ConnInv
<1> QED
  BY <1>2, BackFromConnection DEF Fail

\* The history of a call moves with the levels of the loop.
LEMMA CountsKept ==
  ASSUME FaultInv, pc # "idle", UNCHANGED <<result, kept, callFaults>>,
         result = "none" =>
           Spare' + One(k' = 2 /\ ~Broken') >= Spare + One(k = 2 /\ ~Broken),
         callFaults \in Nat, Spare \in Nat, Spare' \in Nat
  PROVE  FaultInv'
<1>1. result = "none" /\ callFaults + Spare + One(k = 2 /\ ~Broken) >= Needed
  BY DEF FaultInv
<1>2. /\ One(k = 2 /\ ~Broken) \in Nat /\ One(k' = 2 /\ ~Broken') \in Nat
      /\ Needed' = Needed /\ Needed \in Nat
  BY DEF One, Needed
<1>3. callFaults' + Spare' + One(k' = 2 /\ ~Broken') >= Needed'
  BY <1>1, <1>2
<1> QED
  BY <1>1, <1>3 DEF FaultInv, FaultsBeforeFailure

LEMMA CallStep ==
  ASSUME IInv, NEW withContent \in BOOLEAN, Call(withContent)
  PROVE  IInv'
<1> USE StageTypes
<1>1. TypeOK /\ ConnInv /\ ReadInv /\ MaxFaults \in Nat
  BY AnswerAssumption DEF IInv
<1>2. /\ pc = "idle" /\ pc' = "try" /\ k' = (IF k = -1 THEN 0 ELSE k)
      /\ st' = [l \in 0..2 |-> FALSE] /\ result' = "none" /\ executed' = 0
      /\ kept' = (k = 2)
      /\ callFaults' = (IF k = 2 /\ (~sslClient \/ silent) THEN 1 ELSE 0)
      /\ UNCHANGED <<state, is_connected, received, sslClient, silent, coming>>
  BY DEF Call, tlsVars, wireVars
<1>3. k \in {-1, 2} /\ k' \in {0, 2} /\ (k' = 2 <=> k = 2)
  BY <1>1, <1>2 DEF ConnInv
<1>4. TypeOK'
  <2>1. /\ content' \in BOOLEAN /\ body' = "none" /\ headers' = {}
        /\ kept' \in BOOLEAN /\ callFaults' \in Nat /\ faults' = faults
        /\ st' \in [0..2 -> BOOLEAN]
    BY <1>2 DEF Call
  <2> QED
    BY <1>1, <1>2, <1>3, <2>1 DEF TypeOK, Bodies
<1>5. ConnInv'
  BY <1>1, <1>2, <1>3 DEF ConnInv
<1>6. ReadInv'
  BY <1>1, <1>2, NothingToRead DEF ReadInv
<1>7. BudgetInv'
  BY <1>2, <1>3 DEF BudgetInv, Spare, One
<1>8. FaultInv'
  <2>1. CASE k = 2
    BY <1>1, <1>2, <1>3, <2>1
       DEF FaultInv, FaultsBeforeFailure, Spare, One, Broken, Needed, ConnInv
  <2>2. CASE k = -1
    BY <1>1, <1>2, <1>3, <2>2
       DEF FaultInv, FaultsBeforeFailure, Spare, One, Broken, Needed, ConnInv
  <2> QED
    BY <1>3, <2>1, <2>2
<1> QED
  BY <1>4, <1>5, <1>6, <1>7, <1>8 DEF IInv

LEMMA AlreadyTriedStep ==
  ASSUME IInv, AlreadyTried
  PROVE  IInv'
<1> USE StageTypes
<1>1. TypeOK /\ ConnInv /\ ReadInv /\ MaxFaults \in Nat
  BY AnswerAssumption DEF IInv
<1>2. /\ pc = "try" /\ k \in {0, 1} /\ st[k] /\ k' = k - 1
      /\ st' = [st EXCEPT ![k] = FALSE] /\ st \in [0..2 -> BOOLEAN]
      /\ pc' = (IF k = 0 THEN "idle" ELSE "try")
      /\ result' = (IF k = 0 THEN "failed" ELSE result)
      /\ UNCHANGED <<state, is_connected, received, content, body, sslClient,
                     silent, coming, executed, headers, kept, callFaults,
                     faults>>
  BY <1>1 DEF AlreadyTried, Back, NoFault, tlsVars, answerVars, wireVars,
              faultVars, ConnInv, TypeOK
<1>3. /\ st' \in [0..2 -> BOOLEAN] /\ st'[k] = FALSE
      /\ k = 1 => st'[0] = st[0]
  <2>1. CASE k = 0
    BY <1>2, <2>1
  <2>2. CASE k = 1
    <3>1. st' = [st EXCEPT ![1] = FALSE]
      BY <1>2, <2>2
    <3> QED
      BY <1>2, <2>2, <3>1
  <2> QED
    BY <1>2, <2>1, <2>2
<1>4. TypeOK'
  BY <1>1, <1>2, <1>3 DEF TypeOK
<1>5. ConnInv'
  BY <1>1, <1>2 DEF ConnInv
<1>6. ReadInv'
  BY <1>1, <1>2, NothingToRead DEF ReadInv
<1>7. Spare \in Nat /\ Spare' = Spare /\ (k = 0 => Spare = 0)
  BY <1>2, <1>3 DEF Spare, One
<1>8. BudgetInv'
  BY <1>1, <1>2, <1>7 DEF IInv, BudgetInv, One
<1>9. FaultInv'
  <2>1. CASE k = 1
    <3>1. /\ result' = result
          /\ One(k = 2 /\ ~Broken) = 0 /\ One(k' = 2 /\ ~Broken') = 0
      BY <1>2, <2>1 DEF One
    <3> QED
      BY <1>1, <1>2, <1>7, <3>1, CountsKept DEF IInv, TypeOK
  <2>2. CASE k = 0
    <3>1. callFaults >= Needed /\ Needed' = Needed
      <4>1. callFaults + Spare + One(k = 2 /\ ~Broken) >= Needed
        BY <1>2 DEF IInv, FaultInv
      <4>2. Spare = 0 /\ One(k = 2 /\ ~Broken) = 0 /\ callFaults \in Nat
        BY <1>1, <1>7, <2>2 DEF One, TypeOK
      <4> QED
        BY <1>2, <4>1, <4>2 DEF Needed
    <3> QED
      BY <1>2, <2>2, <3>1 DEF FaultInv, FaultsBeforeFailure, Needed
  <2> QED
    BY <1>2, <2>1, <2>2
<1> QED
  BY <1>4, <1>5, <1>6, <1>8, <1>9 DEF IInv

LEMMA OnwardStep ==
  ASSUME IInv, HTTPAPI_Init \/ HTTPAPI_CreateConnection
  PROVE  IInv'
<1> USE StageTypes
<1>1. TypeOK /\ ConnInv /\ ReadInv /\ MaxFaults \in Nat
  BY AnswerAssumption DEF IInv
<1>2. /\ pc = "try" /\ pc' = "try" /\ k \in {0, 1} /\ ~st[k] /\ k' = k + 1
      /\ st' = [st EXCEPT ![k] = TRUE, ![k + 1] = FALSE]
      /\ UNCHANGED <<content, body, sslClient, silent, coming, executed,
                     headers, result, kept, callFaults, faults>>
  BY DEF HTTPAPI_Init, HTTPAPI_CreateConnection, Onward, NoFault, answerVars,
         wireVars, historyVars, faultVars
<1>3. /\ k = 0 => UNCHANGED <<state, is_connected, received>>
      /\ k = 1 => state' = "closed" /\ is_connected' = FALSE /\ received' = <<>>
  BY DEF HTTPAPI_Init, HTTPAPI_CreateConnection, tlsVars
<1>4. /\ st \in [0..2 -> BOOLEAN] /\ st' \in [0..2 -> BOOLEAN]
      /\ st'[k] = TRUE /\ st'[k + 1] = FALSE /\ (k = 1 => st'[0] = st[0])
  <2>1. st \in [0..2 -> BOOLEAN]
    BY <1>1 DEF TypeOK
  <2>2. CASE k = 0
    <3> DEFINE marked == [st EXCEPT ![0] = TRUE]
    <3>1. st' = [marked EXCEPT ![1] = FALSE]
      BY <1>2, <2>2
    <3>2. marked \in [0..2 -> BOOLEAN] /\ marked[0] = TRUE
      BY <2>1
    <3> HIDE DEF marked
    <3>3. st' \in [0..2 -> BOOLEAN] /\ st'[0] = TRUE /\ st'[1] = FALSE
      BY <3>1, <3>2
    <3> QED
      BY <2>1, <2>2, <3>3
  <2>3. CASE k = 1
    <3> DEFINE marked == [st EXCEPT ![1] = TRUE]
    <3>1. st' = [marked EXCEPT ![2] = FALSE]
      BY <1>2, <2>3
    <3>2. marked \in [0..2 -> BOOLEAN] /\ marked[1] = TRUE /\ marked[0] = st[0]
      BY <2>1
    <3> HIDE DEF marked
    <3>3. /\ st' \in [0..2 -> BOOLEAN] /\ st'[1] = TRUE /\ st'[2] = FALSE
          /\ st'[0] = st[0]
      BY <3>1, <3>2
    <3> QED
      BY <2>1, <2>3, <3>3
  <2> QED
    BY <1>2, <2>2, <2>3
<1>5. received = <<>> /\ coming = <<>> /\ received' = <<>>
  BY <1>1, <1>2, <1>3 DEF ReadInv
<1>6. TypeOK'
  <2>1. /\ state' \in TlsStates /\ is_connected' \in BOOLEAN
        /\ received' \in Seq(Unit)
    BY <1>1, <1>2, <1>3, <1>5 DEF TypeOK, TlsStates
  <2>2. pc' \in Stages /\ k' \in -1..2
    BY <1>2
  <2> QED
    BY <1>1, <1>2, <1>4, <2>1, <2>2 DEF TypeOK
<1>7. ConnInv'
  BY <1>1, <1>2, <1>3 DEF ConnInv
<1>8. ReadInv'
  BY <1>2, <1>5, NothingToRead
<1>9. /\ Spare \in Nat /\ Spare' \in Nat
      /\ Spare' + One(k' = 2) = Spare + One(k = 2)
      /\ One(k' = 2 /\ ~Broken') = One(k' = 2)
      /\ One(k = 2 /\ ~Broken) = 0 /\ One(k = 2) = 0
  BY <1>2, <1>3, <1>4 DEF Spare, One, Broken
<1>10. BudgetInv'
  <2>1. executed + Spare + One(k = 2 /\ pc \notin Reading) <= 3
    BY <1>2 DEF IInv, BudgetInv
  <2>2. /\ One(k = 2 /\ pc \notin Reading) = One(k = 2)
        /\ One(k' = 2 /\ pc' \notin Reading) = One(k' = 2)
        /\ One(k' = 2) \in Nat
    BY <1>2 DEF One
  <2>3. executed \in Nat
    BY <1>1 DEF TypeOK
  <2> QED
    BY <1>2, <1>9, <2>1, <2>2, <2>3 DEF BudgetInv
<1>11. FaultInv'
  <2>1. FaultInv /\ callFaults \in Nat
    BY <1>1 DEF IInv, TypeOK
  <2>2. Spare' + One(k' = 2 /\ ~Broken') >= Spare + One(k = 2 /\ ~Broken)
    BY <1>9
  <2> QED
    BY <1>2, <1>9, <2>1, <2>2, CountsKept
<1> QED
  BY <1>6, <1>7, <1>8, <1>10, <1>11 DEF IInv

LEMMA HostNotFoundStep ==
  ASSUME IInv, HostNotFound
  PROVE  IInv'
<1> USE StageTypes
<1>1. TypeOK /\ ConnInv /\ ReadInv /\ MaxFaults \in Nat
  BY AnswerAssumption DEF IInv
<1>2. /\ pc = "try" /\ pc' = "try" /\ k = 1 /\ ~st[1] /\ k' = 0
      /\ st' = [st EXCEPT ![1] = FALSE] /\ st \in [0..2 -> BOOLEAN]
      /\ faults' = faults + 1 /\ callFaults' = callFaults + 1
      /\ faults < MaxFaults
      /\ UNCHANGED <<state, is_connected, received, content, body, sslClient,
                     silent, coming, executed, headers, kept, result>>
  BY <1>1 DEF HostNotFound, Back, Fault, tlsVars, answerVars, wireVars, TypeOK
<1>3. st' \in [0..2 -> BOOLEAN] /\ st'[0] = st[0]
  BY <1>2
<1>4. callFaults \in Nat /\ executed \in Nat
  BY <1>1 DEF TypeOK
<1>5. TypeOK'
  BY <1>1, <1>2, <1>3 DEF TypeOK
<1>6. ConnInv'
  BY <1>1, <1>2 DEF ConnInv
<1>7. ReadInv'
  BY <1>1, <1>2, NothingToRead DEF ReadInv
<1>8. Spare' \in Nat /\ Spare = Spare' + 1
  BY <1>2, <1>3 DEF Spare, One
<1>9. BudgetInv'
  <2>1. executed + Spare + One(k = 2 /\ pc \notin Reading) <= 3
    BY <1>2 DEF IInv, BudgetInv
  <2>2. /\ One(k = 2 /\ pc \notin Reading) = 0
        /\ One(k' = 2 /\ pc' \notin Reading) = 0
    BY <1>2 DEF One
  <2> QED
    BY <1>2, <1>4, <1>8, <2>1, <2>2 DEF BudgetInv
<1>10. FaultInv'
  <2>1. callFaults + Spare + One(k = 2 /\ ~Broken) >= Needed /\ result = "none"
    BY <1>2 DEF IInv, FaultInv
  <2>2. /\ One(k = 2 /\ ~Broken) = 0 /\ One(k' = 2 /\ ~Broken') = 0
        /\ Needed' = Needed /\ Needed \in Nat
    BY <1>2 DEF One, Needed
  <2>3. callFaults' + Spare' + One(k' = 2 /\ ~Broken') >= Needed'
    BY <1>2, <1>4, <1>8, <2>1, <2>2
  <2> QED
    BY <1>2, <2>1, <2>3 DEF FaultInv, FaultsBeforeFailure
<1> QED
  BY <1>5, <1>6, <1>7, <1>9, <1>10 DEF IInv

\* While the loop holds its connection, the step of the call goes on: what it
\* may still start does not change, and a fault it meets is counted.
LEMMA CallGoesOn ==
  ASSUME IInv, pc # "idle", pc' # "idle", k = 2,
         UNCHANGED <<k, st, result, kept>>,
         callFaults' \in Nat,
         (callFaults' = callFaults /\ (Broken' => Broken))
           \/ callFaults' = callFaults + 1
  PROVE  /\ FaultInv'
         /\ Spare' = Spare /\ Spare \in Nat
<1>1. result = "none" /\ callFaults + Spare + One(k = 2 /\ ~Broken) >= Needed
  BY DEF IInv, FaultInv
<1>2. Spare' = Spare /\ Spare \in Nat
  BY DEF Spare, One, IInv, TypeOK
<1>3. /\ One(k = 2 /\ ~Broken) \in {0, 1} /\ One(k' = 2 /\ ~Broken') \in {0, 1}
      /\ (Broken' => Broken) =>
           One(k' = 2 /\ ~Broken') >= One(k = 2 /\ ~Broken)
      /\ Needed' = Needed /\ Needed \in Nat /\ callFaults \in Nat
  BY DEF One, Needed, IInv, TypeOK
<1>4. callFaults' + Spare' + One(k' = 2 /\ ~Broken') >= Needed'
  BY <1>1, <1>2, <1>3
<1> QED
  BY <1>1, <1>2, <1>4 DEF FaultInv, FaultsBeforeFailure

LEMMA ExecuteRequestStep ==
  ASSUME IInv, HTTPAPI_ExecuteRequest
  PROVE  IInv'
<1> USE StageTypes
<1>1. TypeOK /\ ConnInv /\ ReadInv
  BY DEF IInv
<1>2. /\ pc = "try" /\ pc' = (IF is_connected THEN "heads" ELSE "open")
      /\ k = 2 /\ body' = "none"
      /\ UNCHANGED <<k, st, state, is_connected, received, content, sslClient,
                     silent, coming, executed, headers, result, kept,
                     callFaults, faults>>
  BY DEF HTTPAPI_ExecuteRequest, NoFault, stepVars, tlsVars, wireVars,
         historyVars, faultVars
<1>3. TypeOK'
  BY <1>1, <1>2 DEF TypeOK, Bodies
<1>4. ConnInv'
  <2>1. state \in {"closed", "open"}
    BY <1>1, <1>2 DEF ConnInv, TypeOK, TlsStates, BlockStages
  <2> QED
    BY <1>1, <1>2, <2>1 DEF ConnInv
<1>5. ReadInv'
  BY <1>1, <1>2, NothingToRead DEF ReadInv
<1>6. /\ callFaults' \in Nat /\ (Broken' <=> Broken)
  BY <1>1, <1>2 DEF TypeOK, Broken
<1>7. FaultInv' /\ Spare' = Spare
  BY <1>2, <1>6, CallGoesOn
<1>8. BudgetInv'
  BY <1>2, <1>7 DEF IInv, BudgetInv, One
<1> QED
  BY <1>3, <1>4, <1>5, <1>7, <1>8 DEF IInv

LEMMA OpenStep ==
  ASSUME IInv, OpenXIOConnection
  PROVE  IInv'
<1> USE StageTypes
<1>1. TypeOK /\ ConnInv /\ ReadInv
  BY DEF IInv
<1>2. /\ pc = "open" /\ pc' = "heads" /\ k = 2 /\ state' = "open"
      /\ is_connected' = TRUE /\ sslClient' = TRUE /\ silent' = FALSE
      /\ coming' = <<>>
      /\ UNCHANGED <<k, st, received, content, body, executed, headers, result,
                     kept, callFaults, faults>>
  BY <1>1 DEF OpenXIOConnection, NoFault, stepVars, answerVars, historyVars,
              faultVars, ConnInv
<1>3. TypeOK'
  <2>1. <<>> \in Seq(Unit)
    BY EmptySeq
  <2> QED
    BY <1>1, <1>2, <2>1 DEF TypeOK, TlsStates
<1>4. ConnInv'
  BY <1>1, <1>2 DEF ConnInv
<1>5. ReadInv'
  BY <1>1, <1>2, NothingToRead DEF ReadInv
<1>6. callFaults' \in Nat /\ ~Broken'
  BY <1>1, <1>2 DEF TypeOK, Broken
<1>7. FaultInv' /\ Spare' = Spare
  BY <1>2, <1>6, CallGoesOn
<1>8. BudgetInv'
  BY <1>2, <1>7 DEF IInv, BudgetInv, One
<1> QED
  BY <1>3, <1>4, <1>5, <1>7, <1>8 DEF IInv

LEMMA OpenFailsStep ==
  ASSUME IInv, OpenFails
  PROVE  IInv'
<1>1. ConnInv /\ ReadInv
  BY DEF IInv
<1>2. /\ pc = "open" /\ state = "closed" /\ ~sslClient /\ coming = <<>>
      /\ ~silent
  BY <1>1 DEF OpenFails, ConnInv
<1>3. /\ Fault /\ sslClient' = FALSE /\ silent' = FALSE /\ coming' = <<>>
      /\ UNCHANGED <<answerVars, executed, headers, kept>>
  BY <1>2 DEF OpenFails, wireVars, IInv, TypeOK
<1> QED
  BY <1>2, <1>3, BackFromConnection DEF OpenFails

-----------------------------------------------------------------------------
(* Sending.                                                                *)

\* The answer that starts on its way is all that can be read.
LEMMA AnswerArrives ==
  ASSUME IInv, pc \in Sending, HubAnswers, pc' = "status",
         UNCHANGED <<body, received, silent, headers>>
  PROVE  /\ ReadInv' /\ coming' \in Seq(Unit)
         /\ executed' \in {executed, executed + 1} /\ executed + 1 <= 3
<1> USE StageTypes
<1>1. TypeOK /\ ReadInv /\ k = 2
  BY DEF IInv, ConnInv
<1>2. received = <<>> /\ coming = <<>> /\ body = "none"
  BY <1>1 DEF ReadInv
<1>3. executed \in Nat /\ executed + 1 <= 3
  <2>1. executed + Spare + One(k = 2 /\ pc \notin Reading) <= 3
    BY DEF IInv, BudgetInv
  <2>2. Spare \in Nat /\ One(k = 2 /\ pc \notin Reading) = 1
    BY <1>1 DEF Spare, One
  <2> QED
    BY <1>1, <2>1, <2>2 DEF TypeOK
<1>4. CASE silent
  <2>1. UNCHANGED <<executed, coming>>
    BY <1>4 DEF HubAnswers
  <2>2. DOMAIN received' = {} /\ DOMAIN coming' = {}
    BY <1>2, <2>1
  <2> QED
    BY <1>1, <1>2, <1>3, <1>4, <2>1, <2>2 DEF ReadInv, TypeOK
<1>5. CASE ~silent
  <2>1. PICK a \in Answers :
          /\ executed' = executed + 1
          /\ coming' = coming \o
               [i \in DOMAIN a |-> [kind |-> a[i], of |-> executed + 1]]
    BY <1>5 DEF HubAnswers
  <2>2. PICK b \in DOMAIN a, announced \in Bodies : Shape(a, b, announced)
    BY AnswerAssumption
  <2>3. a \in Seq(Kinds) /\ DOMAIN a = 1..Len(a) /\ Len(a) \in Nat /\ Len(a) > 2
    BY <2>2, LenProperties DEF Shape
  <2> DEFINE answer == [i \in 1..Len(a) |-> [kind |-> a[i], of |-> executed + 1]]
  <2>4. \A i \in 1..Len(a) : answer[i] \in Unit
    BY <1>3, <2>3 DEF Unit
  <2>5. answer \in Seq(Unit) /\ Len(answer) = Len(a)
    BY <2>3, <2>4
  <2>6. coming' = answer /\ Rest' = answer
    BY <1>2, <2>1, <2>3, <2>5, ConcatEmptySeq DEF Rest
  <2>7. Remains(a, 1)'
    <3>1. Len(Rest') = Len(a) - 1 + 1
      BY <2>3, <2>5, <2>6
    <3>2. ASSUME NEW m \in 1..Len(Rest')
          PROVE  Rest'[m] = [kind |-> a[1 + m - 1], of |-> executed']
      <4>1. m \in 1..Len(a) /\ 1 + m - 1 = m
        BY <2>3, <2>5, <2>6
      <4> QED
        BY <2>1, <2>6, <4>1
    <3> QED
      BY <3>1, <3>2 DEF Remains
  <2>8. Position(a, b, announced, 1)'
    BY <1>2 DEF Position
  <2>9. Following'
    <3>1. 1 \in DOMAIN a /\ Shape(a, b, announced)'
      BY <2>2, <2>3 DEF Shape
    <3> QED
      BY <2>7, <2>8, <3>1 DEF Following
  <2>10. \A m \in DOMAIN coming' : coming'[m].of = executed'
    BY <2>1, <2>6
  <2>11. DOMAIN received' = {}
    BY <1>2
  <2> QED
    BY <1>3, <2>1, <2>5, <2>6, <2>9, <2>10, <2>11 DEF ReadInv
<1> QED
  BY <1>1, <1>4, <1>5 DEF TypeOK

LEMMA SendStep ==
  ASSUME IInv, SendHeadsToXIO \/ SendContentToXIO
  PROVE  IInv'
<1> USE StageTypes
<1>1. TypeOK /\ ConnInv /\ ReadInv
  BY DEF IInv
<1>2. /\ pc \in Sending /\ sslClient /\ k = 2
      /\ UNCHANGED <<k, st, state, is_connected, received, content, body,
                     sslClient, silent, headers, result, kept, callFaults,
                     faults>>
  BY <1>1 DEF SendHeadsToXIO, SendContentToXIO, NoFault, stepVars, tlsVars,
              answerVars, faultVars, ConnInv
<1>3. \/ pc' = "content" /\ UNCHANGED <<executed, coming>>
      \/ pc' = "status" /\ HubAnswers
  BY DEF SendHeadsToXIO, SendContentToXIO
<1>4. /\ ReadInv' /\ coming' \in Seq(Unit) /\ executed' \in 0..3
      /\ executed' + One(k' = 2 /\ pc' \notin Reading)
           <= executed + One(k = 2 /\ pc \notin Reading)
  <2>1. CASE pc' = "content" /\ UNCHANGED <<executed, coming>>
    BY <1>1, <1>2, <2>1, NothingToRead DEF ReadInv, TypeOK, One
  <2>2. CASE pc' = "status" /\ HubAnswers
    <3>1. /\ ReadInv' /\ coming' \in Seq(Unit)
          /\ executed' \in {executed, executed + 1} /\ executed + 1 <= 3
      BY <1>2, <2>2, AnswerArrives
    <3>2. /\ One(k = 2 /\ pc \notin Reading) = 1
          /\ One(k' = 2 /\ pc' \notin Reading) = 0
      BY <1>2, <2>2 DEF One
    <3>3. executed \in 0..3
      BY <1>1 DEF TypeOK
    <3> QED
      BY <3>1, <3>2, <3>3
  <2> QED
    BY <1>3, <2>1, <2>2
<1>5. TypeOK'
  <2>1. pc' \in Stages
    BY <1>3
  <2> QED
    BY <1>1, <1>2, <1>4, <2>1 DEF TypeOK
<1>6. ConnInv'
  BY <1>1, <1>2, <1>3 DEF ConnInv, BlockStages
<1>7. callFaults' \in Nat /\ (Broken' <=> Broken)
  BY <1>1, <1>2 DEF TypeOK, Broken
<1>8. FaultInv' /\ Spare' = Spare /\ Spare \in Nat
  BY <1>2, <1>3, <1>7, CallGoesOn
<1>9. BudgetInv'
  <2>1. executed + Spare + One(k = 2 /\ pc \notin Reading) <= 3
    BY <1>2 DEF IInv, BudgetInv
  <2>2. /\ executed \in Nat /\ One(k = 2 /\ pc \notin Reading) \in Nat
        /\ One(k' = 2 /\ pc' \notin Reading) \in Nat
    BY <1>1 DEF TypeOK, One
  <2> QED
    BY <1>4, <1>8, <2>1, <2>2 DEF BudgetInv
<1> QED
  BY <1>4, <1>5, <1>6, <1>8, <1>9 DEF IInv

LEMMA WriteFailsStep ==
  ASSUME IInv, WriteFails
  PROVE  IInv'
<1>1. ConnInv
  BY DEF IInv
<1>2. pc \in Sending /\ Broken /\ NoFault
  BY <1>1, StageTypes DEF WriteFails, Broken, ConnInv
<1> QED
  BY <1>2, StageTypes, FailStep DEF WriteFails

-----------------------------------------------------------------------------
(* Receiving.                                                              *)

\* As long as there is something to read, the reader stands at a unit of an
\* answer to the last execution, and what follows is the rest of that answer.
LEMMA ReaderFollows ==
  ASSUME IInv, pc \in Reading, sslClient, Buffered # <<>>
  PROVE  Following
<1>1. TypeOK /\ ReadInv
  BY DEF IInv
<1>2. CASE silent /\ received = <<>> /\ coming = <<>>
  <2>1. Buffered = <<>>
    BY <1>2, EmptySeq, ConcatEmptySeq DEF Buffered
  <2> QED
    BY <2>1
<1> QED
  BY <1>1, <1>2 DEF ReadInv

LEMMA NextUnit ==
  ASSUME IInv, pc \in Reading, NEW completes \in BOOLEAN, Take(completes)
  PROVE  \E a \in Answers : \E b \in DOMAIN a, announced \in Bodies,
                               i \in DOMAIN a :
           /\ Shape(a, b, announced) /\ Position(a, b, announced, i)
           /\ First = [kind |-> a[i], of |-> executed]
           /\ i = Len(a) => coming' = <<>>
           /\ ~completes => Remains(a, i + 1)'
<1>1. TypeOK
  BY DEF IInv
<1>2. sslClient /\ Buffered # <<>> /\ executed' = executed
  BY DEF Take
<1>3. PICK a \in Answers : \E b \in DOMAIN a, announced \in Bodies,
                              i \in DOMAIN a :
        /\ Shape(a, b, announced) /\ Position(a, b, announced, i)
        /\ Remains(a, i)
  BY <1>2, ReaderFollows DEF Following
<1>4. PICK b \in DOMAIN a, announced \in Bodies, i \in DOMAIN a :
        /\ Shape(a, b, announced) /\ Position(a, b, announced, i)
        /\ Remains(a, i)
  BY <1>3
<1>5. a \in Seq(Kinds) /\ Len(a) \in Nat /\ i \in 1..Len(a)
  BY <1>4, LenProperties DEF Shape
<1>6. /\ Len(Rest) > 0 /\ First = Rest[1]
      /\ Len(Rest) = 1 => coming' = <<>>
      /\ ~completes => /\ Len(Rest') = Len(Rest) - 1
                       /\ \A m \in 1..Len(Rest') : Rest'[m] = Rest[m + 1]
  BY <1>1, TakeUnit
<1>7. /\ Len(Rest) = Len(a) - i + 1
      /\ \A m \in 1..Len(Rest) :
           Rest[m] = [kind |-> a[i + m - 1], of |-> executed]
  BY <1>4 DEF Remains
<1>8. First = [kind |-> a[i], of |-> executed]
  <2>1. 1 \in 1..Len(Rest) /\ i + 1 - 1 = i
    BY <1>5, <1>6, <1>7
  <2> QED
    BY <1>6, <1>7, <2>1
<1>9. i = Len(a) => coming' = <<>>
  BY <1>5, <1>6, <1>7
<1>10. ASSUME ~completes
       PROVE  Remains(a, i + 1)'
  <2>1. Len(Rest') = Len(a) - (i + 1) + 1
    BY <1>5, <1>6, <1>7, <1>10
  <2>2. ASSUME NEW m \in 1..Len(Rest')
        PROVE  Rest'[m] = [kind |-> a[(i + 1) + m - 1], of |-> executed']
    <3>1. m + 1 \in 1..Len(Rest) /\ i + (m + 1) - 1 = (i + 1) + m - 1
      BY <1>5, <1>6, <1>7, <1>10
    <3>2. Rest'[m] = Rest[m + 1]
      BY <1>6, <1>10
    <3> QED
      BY <1>2, <1>7, <3>1, <3>2
  <2> QED
    BY <2>1, <2>2 DEF Remains
<1> QED
  BY <1>4, <1>8, <1>9, <1>10

\* What remains of an answer is fresh in both of its halves.
LEMMA FreshHalves ==
  ASSUME NEW r \in Seq(Unit), NEW c \in Seq(Unit), NEW e,
         \A m \in 1..Len(r \o c) : (r \o c)[m].of = e
  PROVE  /\ \A m \in DOMAIN r : r[m].of = e
         /\ \A m \in DOMAIN c : c[m].of = e
<1>1. /\ Len(r) \in Nat /\ Len(c) \in Nat
      /\ DOMAIN r = 1..Len(r) /\ DOMAIN c = 1..Len(c)
  BY LenProperties
<1>2. /\ Len(r \o c) = Len(r) + Len(c)
      /\ \A m \in 1..(Len(r) + Len(c)) :
           (r \o c)[m] = IF m <= Len(r) THEN r[m] ELSE c[m - Len(r)]
  BY ConcatProperties
<1>3. ASSUME NEW m \in 1..Len(r)
      PROVE  r[m].of = e
  BY <1>1, <1>2
<1>4. ASSUME NEW m \in 1..Len(c)
      PROVE  c[m].of = e
  <2>1. Len(r) + m \in 1..(Len(r) + Len(c)) /\ Len(r) + m > Len(r)
        /\ (Len(r) + m) - Len(r) = m
    BY <1>1
  <2>2. (r \o c)[Len(r) + m] = c[m]
    BY <1>2, <2>1
  <2> QED
    BY <1>2, <2>1, <2>2
<1> QED
  BY <1>1, <1>3, <1>4

\* The reader goes on to the next unit of the same answer.
LEMMA ReaderGoesOn ==
  ASSUME IInv, pc \in Reading, Take(FALSE), pc' \in Reading,
         NEW a \in Answers, NEW b \in DOMAIN a, NEW announced \in Bodies,
         NEW i \in DOMAIN a, i + 1 \in DOMAIN a, Shape(a, b, announced),
         Position(a, b, announced, i + 1)', Remains(a, i + 1)'
  PROVE  ReadInv'
<1>1. Following'
  <2>1. Shape(a, b, announced)'
    BY DEF Shape
  <2> QED
    BY <2>1 DEF Following
<1>2. received' \in Seq(Unit) /\ coming' \in Seq(Unit)
  BY TakeUnit DEF IInv
<1>3. \A m \in 1..Len(received' \o coming') :
        (received' \o coming')[m].of = executed'
  <2>1. \A m \in 1..Len(Rest') :
          Rest'[m] = [kind |-> a[(i + 1) + m - 1], of |-> executed']
    BY DEF Remains
  <2>2. Rest' = received' \o coming'
    BY DEF Rest
  <2>3. ASSUME NEW m \in 1..Len(Rest')
        PROVE  Rest'[m].of = executed'
    <3>1. Rest'[m] = [kind |-> a[(i + 1) + m - 1], of |-> executed']
      BY <2>1
    <3> QED
      BY <3>1
  <2> QED
    BY <2>2, <2>3
<1>4. /\ \A m \in DOMAIN received' : received'[m].of = executed'
      /\ \A m \in DOMAIN coming' : coming'[m].of = executed'
  BY <1>2, <1>3, FreshHalves
<1> QED
  BY <1>1, <1>4, StageTypes DEF ReadInv

\* What the other parts of the invariant need of a step of the reader.
LEMMA ReaderStep ==
  ASSUME IInv, pc \in Reading, NEW completes \in BOOLEAN, Take(completes),
         headers' \subseteq 1..3, body' \in Bodies, ReadInv',
         state # "error" \/ pc' \in BlockStages,
         \/ pc' \in Reading /\ UNCHANGED result
         \/ Done
  PROVE  IInv'
<1> USE StageTypes
<1>1. TypeOK /\ ConnInv
  BY DEF IInv
<1>2. /\ UNCHANGED <<k, st, state, is_connected, content, sslClient, silent,
                     executed, kept, callFaults, faults>>
      /\ k = 2 /\ sslClient
  BY <1>1 DEF Take, NoFault, stepVars, faultVars, ConnInv
<1>3. received' \in Seq(Unit) /\ coming' \in Seq(Unit)
  BY <1>1, TakeUnit
<1>4. TypeOK'
  <2>1. pc' \in Stages /\ result' \in {"none", "ok", "failed", "lost"}
    BY <1>1 DEF Done, TypeOK
  <2> QED
    BY <1>1, <1>2, <1>3, <2>1 DEF TypeOK
<1>5. ConnInv'
  BY <1>1, <1>2 DEF ConnInv, Done, LineStages, BlockStages
<1>6. BudgetInv'
  <2>1. CASE Done
    BY <2>1 DEF BudgetInv, Done
  <2>2. CASE pc' \in Reading /\ UNCHANGED result
    BY <1>2, <2>2 DEF IInv, BudgetInv, Spare, One
  <2> QED
    BY <2>1, <2>2
<1>7. FaultInv'
  <2>1. CASE Done
    BY <2>1 DEF FaultInv, FaultsBeforeFailure, Done
  <2>2. CASE pc' \in Reading /\ UNCHANGED result
    <3>1. callFaults' \in Nat /\ (Broken' <=> Broken)
      BY <1>1, <1>2 DEF TypeOK, Broken
    <3> QED
      BY <1>2, <2>2, <3>1, CallGoesOn
  <2> QED
    BY <2>1, <2>2
<1> QED
  BY <1>4, <1>5, <1>6, <1>7 DEF IInv

LEMMA ShapeFacts ==
  ASSUME NEW a, NEW b, NEW announced, Shape(a, b, announced)
  PROVE  /\ a \in Seq(Kinds) /\ Len(a) \in Nat /\ DOMAIN a = 1..Len(a)
         /\ b \in 3..Len(a) /\ announced \in Bodies
         /\ a[1] = "status" /\ a[b] = "blank"
         /\ \A i \in 2..(b - 1) : /\ a[i] # "blank"
                                  /\ a[i] \in {"header", announced} \ {"none"}
BY LenProperties DEF Shape, Bodies

LEMMA ReceiveStatusStep ==
  ASSUME IInv, ReceiveStatus
  PROVE  IInv'
<1> USE StageTypes
<1>1. /\ pc = "status" /\ pc' = "headers" /\ Take(FALSE)
      /\ UNCHANGED <<headers, result, body, executed>>
  BY DEF ReceiveStatus, Take
<1>2. PICK a \in Answers : \E b \in DOMAIN a, announced \in Bodies,
                              i \in DOMAIN a :
        /\ Shape(a, b, announced) /\ Position(a, b, announced, i)
        /\ Remains(a, i + 1)'
  BY <1>1, NextUnit
<1>3. PICK b \in DOMAIN a, announced \in Bodies, i \in DOMAIN a :
        /\ Shape(a, b, announced) /\ Position(a, b, announced, i)
        /\ Remains(a, i + 1)'
  BY <1>2
<1>4. i = 1 /\ body = "none"
  BY <1>1, <1>3 DEF Position
<1>5. DOMAIN a = 1..Len(a) /\ Len(a) \in Nat /\ b \in 3..Len(a)
  BY <1>3, ShapeFacts
<1>6. announced # "none" => \E m \in 2..(b - 1) : a[m] = announced
  BY <1>3, <1>5 DEF Shape
<1>7. Position(a, b, announced, i + 1)'
  BY <1>1, <1>4, <1>5, <1>6 DEF Position
<1>8. i + 1 \in DOMAIN a
  BY <1>4, <1>5
<1>9. ReadInv'
  BY <1>1, <1>3, <1>7, <1>8, ReaderGoesOn
<1> QED
  BY <1>1, <1>9, ReaderStep DEF IInv, TypeOK, ConnInv, BlockStages

LEMMA ReceiveHeaderStep ==
  ASSUME IInv, ReceiveHeader
  PROVE  /\ IInv' /\ headers' = headers \cup {executed}
         /\ executed \in 1..3
<1> USE StageTypes
<1>1. /\ pc = "headers" /\ pc' = "headers" /\ Take(FALSE)
      /\ First.kind # "blank" /\ headers' = headers \cup {First.of}
      /\ body' = (IF First.kind \in {"length", "chunked"} THEN First.kind
                                                          ELSE body)
      /\ UNCHANGED <<result, executed>>
  BY DEF ReceiveHeader, Take
<1>2. PICK a \in Answers : \E b \in DOMAIN a, announced \in Bodies,
                              i \in DOMAIN a :
        /\ Shape(a, b, announced) /\ Position(a, b, announced, i)
        /\ First = [kind |-> a[i], of |-> executed]
        /\ Remains(a, i + 1)'
  BY <1>1, NextUnit
<1>3. PICK b \in DOMAIN a, announced \in Bodies, i \in DOMAIN a :
        /\ Shape(a, b, announced) /\ Position(a, b, announced, i)
        /\ First = [kind |-> a[i], of |-> executed]
        /\ Remains(a, i + 1)'
  BY <1>2
<1>4. First.kind = a[i] /\ First.of = executed /\ First \in Unit
  BY <1>1, <1>3, TakeUnit DEF IInv
<1>5. executed \in 1..3
  BY <1>4 DEF Unit
<1>6. /\ DOMAIN a = 1..Len(a) /\ Len(a) \in Nat /\ b \in 3..Len(a)
      /\ a[b] = "blank" /\ announced \in Bodies
      /\ \A m \in 2..(b - 1) : a[m] \in {"header", announced} \ {"none"}
  BY <1>3, ShapeFacts
<1>7. /\ i \in 2..b /\ body \in {"none", announced}
      /\ announced # "none" =>
           body = announced \/ \E m \in i..(b - 1) : a[m] = announced
  BY <1>1, <1>3 DEF Position
<1>8. i \in 2..(b - 1) /\ i + 1 \in 2..b /\ i + 1 \in DOMAIN a
  BY <1>1, <1>4, <1>6, <1>7
<1>9. a[i] \in {"header", announced} \ {"none"}
  BY <1>6, <1>8
<1>10. /\ body' \in {"none", announced}
       /\ a[i] = announced /\ announced # "none" => body' = announced
       /\ body = announced => body' = announced
  BY <1>1, <1>4, <1>6, <1>7, <1>9 DEF Bodies
<1>11. announced # "none" =>
         body' = announced \/ \E m \in (i + 1)..(b - 1) : a[m] = announced
  <2> SUFFICES ASSUME announced # "none", body' # announced
               PROVE  \E m \in (i + 1)..(b - 1) : a[m] = announced
    OBVIOUS
  <2>1. PICK m \in i..(b - 1) : a[m] = announced
    BY <1>7, <1>10
  <2>2. m # i
    BY <1>10, <2>1
  <2>3. m \in (i + 1)..(b - 1)
    BY <1>8, <2>1, <2>2
  <2> QED
    BY <2>1, <2>3
<1>12. executed' \in headers'
  BY <1>1, <1>4
<1>13. Position(a, b, announced, i + 1)'
  BY <1>1, <1>8, <1>10, <1>11, <1>12 DEF Position
<1>14. ReadInv'
  BY <1>1, <1>3, <1>8, <1>13, ReaderGoesOn
<1>15. headers' \subseteq 1..3 /\ body' \in Bodies
  BY <1>1, <1>4, <1>5, <1>6, <1>10 DEF IInv, TypeOK, Bodies
<1> QED
  BY <1>1, <1>4, <1>5, <1>14, <1>15, ReaderStep DEF IInv, ConnInv, BlockStages

LEMMA EndOfHeadersStep ==
  ASSUME IInv, EndOfHeaders
  PROVE  IInv' /\ executed \in headers
<1> USE StageTypes
<1>1. /\ pc = "headers" /\ Take(body = "none") /\ First.kind = "blank"
      /\ UNCHANGED <<headers, body, executed>>
      /\ \/ body = "none" /\ Done
         \/ body = "length" /\ pc' = "sized" /\ UNCHANGED result
         \/ body = "chunked" /\ pc' = "size" /\ UNCHANGED result
  BY DEF EndOfHeaders, Take
<1>2. (body = "none") \in BOOLEAN
  OBVIOUS
<1>3. PICK a \in Answers : \E b \in DOMAIN a, announced \in Bodies,
                              i \in DOMAIN a :
        /\ Shape(a, b, announced) /\ Position(a, b, announced, i)
        /\ First = [kind |-> a[i], of |-> executed]
        /\ i = Len(a) => coming' = <<>>
        /\ ~(body = "none") => Remains(a, i + 1)'
  BY <1>1, <1>2, NextUnit
<1>4. PICK b \in DOMAIN a, announced \in Bodies, i \in DOMAIN a :
        /\ Shape(a, b, announced) /\ Position(a, b, announced, i)
        /\ First = [kind |-> a[i], of |-> executed]
        /\ i = Len(a) => coming' = <<>>
        /\ ~(body = "none") => Remains(a, i + 1)'
  BY <1>3
<1>5. /\ DOMAIN a = 1..Len(a) /\ Len(a) \in Nat /\ b \in 3..Len(a)
      /\ announced \in Bodies
      /\ \A m \in 2..(b - 1) : a[m] # "blank"
  BY <1>4, ShapeFacts
<1>6. /\ i \in 2..b /\ body \in {"none", announced}
      /\ announced # "none" =>
           body = announced \/ \E m \in i..(b - 1) : a[m] = announced
      /\ i > 2 => executed \in headers
  BY <1>1, <1>4 DEF Position
<1>7. a[i] = "blank"
  BY <1>1, <1>4
<1>8. i = b
  BY <1>5, <1>6, <1>7
<1>9. executed \in headers /\ body = announced
  BY <1>5, <1>6, <1>8
<1>10. ReadInv'
  <2>1. CASE body = "none"
    <3>1. Len(a) = b /\ Done
      BY <1>1, <1>4, <1>9, <2>1 DEF Shape
    <3>2. coming' = <<>> /\ received' = <<>>
      BY <1>4, <1>8, <2>1, <3>1, <1>1, TakeUnit DEF IInv
    <3> QED
      BY <3>1, <3>2, NothingToRead DEF Done
  <2>2. CASE body # "none"
    <3>1. /\ Take(FALSE) /\ Remains(a, i + 1)'
          /\ \/ body = "length" /\ pc' = "sized"
             \/ body = "chunked" /\ pc' = "size"
      <4>1. (body = "none") = FALSE
        BY <2>2
      <4> QED
        BY <1>1, <1>4, <2>2, <4>1
    <3>2. Len(a) > b /\ i + 1 \in DOMAIN a /\ i + 1 > b /\ (i + 1) - 1 = b
      BY <1>4, <1>5, <1>8, <1>9, <3>1 DEF Shape
    <3>3. Position(a, b, announced, i + 1)'
      BY <1>1, <1>7, <1>8, <1>9, <3>1, <3>2 DEF Position
    <3> QED
      BY <1>1, <1>4, <3>1, <3>2, <3>3, ReaderGoesOn
  <2> QED
    BY <2>1, <2>2
<1>11. headers' \subseteq 1..3 /\ body' \in Bodies /\ state # "error"
  BY <1>1 DEF IInv, TypeOK, ConnInv, BlockStages
<1>12. (pc' \in Reading /\ UNCHANGED result) \/ Done
  BY <1>1
<1> QED
  BY <1>1, <1>2, <1>9, <1>10, <1>11, <1>12, ReaderStep

\* Chunks alternate and end.
LEMMA ChunkFacts ==
  ASSUME NEW a, NEW b, Shape(a, b, "chunked")
  PROVE  /\ Len(a) > b
         /\ \A i \in (b + 1)..Len(a) :
              /\ a[i - 1] \in {"blank", "data"} =>
                   a[i] \in {"size", "zero"} /\ i < Len(a)
              /\ a[i - 1] = "size" => a[i] = "data" /\ i < Len(a)
              /\ a[i - 1] = "zero" => a[i] = "crlf" /\ i = Len(a)
<1>1. /\ Len(a) \in Nat /\ b \in 3..Len(a) /\ Len(a) > b /\ a[Len(a)] = "crlf"
      /\ \A i \in (b + 1)..Len(a) : a[i] \in AfterUnit[a[i - 1]]
  BY ShapeFacts DEF Shape
<1>2. /\ AfterUnit["blank"] = {"size", "zero"}
      /\ AfterUnit["data"] = {"size", "zero"}
      /\ AfterUnit["size"] = {"data"} /\ AfterUnit["zero"] = {"crlf"}
      /\ AfterUnit["crlf"] = {}
  BY DEF AfterUnit
<1>3. ASSUME NEW i \in (b + 1)..Len(a)
      PROVE  /\ a[i - 1] \in {"blank", "data"} =>
                  a[i] \in {"size", "zero"} /\ i < Len(a)
             /\ a[i - 1] = "size" => a[i] = "data" /\ i < Len(a)
             /\ a[i - 1] = "zero" => a[i] = "crlf" /\ i = Len(a)
  <2>1. a[i] \in AfterUnit[a[i - 1]]
    BY <1>1
  <2>2. a[i] # "crlf" => i < Len(a)
    BY <1>1
  <2>3. a[i] = "crlf" => i = Len(a)
    <3> SUFFICES ASSUME a[i] = "crlf", i # Len(a)
                 PROVE  FALSE
      OBVIOUS
    <3>1. i + 1 \in (b + 1)..Len(a) /\ (i + 1) - 1 = i
      BY <1>1
    <3>2. a[i + 1] \in AfterUnit[a[(i + 1) - 1]]
      BY <1>1, <3>1
    <3> QED
      BY <1>2, <3>1, <3>2
  <2> QED
    BY <1>2, <2>1, <2>2, <2>3
<1> QED
  BY <1>1, <1>3

LEMMA ReceiveSizeStep ==
  ASSUME IInv, ReceiveSize
  PROVE  IInv'
<1> USE StageTypes
<1>1. /\ pc = "size" /\ Take(FALSE)
      /\ UNCHANGED <<headers, result, body, executed>>
      /\ \/ First.kind = "size" /\ pc' = "chunk"
         \/ First.kind = "zero" /\ pc' = "crlf"
  BY DEF ReceiveSize, Take
<1>2. PICK a \in Answers : \E b \in DOMAIN a, announced \in Bodies,
                              i \in DOMAIN a :
        /\ Shape(a, b, announced) /\ Position(a, b, announced, i)
        /\ First = [kind |-> a[i], of |-> executed]
        /\ Remains(a, i + 1)'
  BY <1>1, NextUnit
<1>3. PICK b \in DOMAIN a, announced \in Bodies, i \in DOMAIN a :
        /\ Shape(a, b, announced) /\ Position(a, b, announced, i)
        /\ First = [kind |-> a[i], of |-> executed]
        /\ Remains(a, i + 1)'
  BY <1>2
<1>4. DOMAIN a = 1..Len(a) /\ Len(a) \in Nat /\ b \in 3..Len(a)
  BY <1>3, ShapeFacts
<1>5. /\ announced = "chunked" /\ i > b /\ a[i - 1] \in {"blank", "data"}
      /\ body = announced /\ executed \in headers
  BY <1>1, <1>3 DEF Position
<1>6. i \in (b + 1)..Len(a)
  BY <1>4, <1>5
<1>7. i < Len(a)
  BY <1>3, <1>5, <1>6, ChunkFacts
<1>8. i + 1 \in DOMAIN a /\ i + 1 > b /\ (i + 1) - 1 = i
  BY <1>4, <1>6, <1>7
<1>9. Position(a, b, announced, i + 1)'
  BY <1>1, <1>3, <1>5, <1>8 DEF Position
<1>10. ReadInv'
  BY <1>1, <1>3, <1>8, <1>9, ReaderGoesOn
<1>11. headers' \subseteq 1..3 /\ body' \in Bodies /\ state # "error"
  BY <1>1 DEF IInv, TypeOK, ConnInv, BlockStages
<1> QED
  BY <1>1, <1>10, <1>11, ReaderStep

LEMMA ReceiveBlockStep ==
  ASSUME IInv, ReceiveBlock
  PROVE  IInv' /\ executed \in headers
<1> USE StageTypes
<1>1. /\ pc \in {"sized", "chunk", "crlf"} /\ state = "open"
      /\ Take(pc # "chunk")
      /\ UNCHANGED <<headers, body, executed>>
      /\ \/ pc = "chunk" /\ pc' = "size" /\ UNCHANGED result
         \/ pc # "chunk" /\ Done
  BY DEF ReceiveBlock, Take, BlockStages
<1>2. (pc # "chunk") \in BOOLEAN
  OBVIOUS
<1>3. PICK a \in Answers : \E b \in DOMAIN a, announced \in Bodies,
                              i \in DOMAIN a :
        /\ Shape(a, b, announced) /\ Position(a, b, announced, i)
        /\ i = Len(a) => coming' = <<>>
        /\ ~(pc # "chunk") => Remains(a, i + 1)'
  BY <1>1, <1>2, NextUnit
<1>4. PICK b \in DOMAIN a, announced \in Bodies, i \in DOMAIN a :
        /\ Shape(a, b, announced) /\ Position(a, b, announced, i)
        /\ i = Len(a) => coming' = <<>>
        /\ ~(pc # "chunk") => Remains(a, i + 1)'
  BY <1>3
<1>5. DOMAIN a = 1..Len(a) /\ Len(a) \in Nat /\ b \in 3..Len(a)
  BY <1>4, ShapeFacts
<1>6. /\ executed \in headers /\ body = announced
      /\ \/ pc = "sized" /\ announced = "length" /\ i = b + 1
         \/ /\ announced = "chunked" /\ i > b
            /\ \/ pc = "chunk" /\ a[i - 1] = "size"
               \/ pc = "crlf" /\ a[i - 1] = "zero"
  BY <1>1, <1>4 DEF Position
<1>7. ReadInv'
  <2>1. CASE pc = "chunk"
    <3>1. pc' = "size" /\ Take(FALSE) /\ Remains(a, i + 1)'
      <4>1. (pc # "chunk") = FALSE
        BY <2>1
      <4> QED
        BY <1>1, <1>4, <2>1, <4>1
    <3>2. i \in (b + 1)..Len(a) /\ announced = "chunked"
      BY <1>5, <1>6, <2>1
    <3>3. a[i] = "data" /\ i < Len(a)
      BY <1>4, <1>6, <2>1, <3>2, ChunkFacts
    <3>4. i + 1 \in DOMAIN a /\ i + 1 > b /\ (i + 1) - 1 = i
      BY <1>5, <3>2, <3>3
    <3>5. Position(a, b, announced, i + 1)'
      BY <1>1, <1>6, <3>1, <3>2, <3>3, <3>4 DEF Position
    <3> QED
      BY <1>1, <1>4, <3>1, <3>4, <3>5, ReaderGoesOn
  <2>2. CASE pc # "chunk"
    <3>1. i = Len(a)
      <4>1. CASE pc = "sized"
        BY <1>4, <1>6, <4>1 DEF Shape
      <4>2. CASE pc = "crlf"
        <5>1. i \in (b + 1)..Len(a) /\ announced = "chunked" /\ a[i - 1] = "zero"
          BY <1>5, <1>6, <4>2
        <5> QED
          BY <1>4, <5>1, ChunkFacts
      <4> QED
        BY <1>1, <2>2, <4>1, <4>2
    <3>2. coming' = <<>> /\ received' = <<>> /\ Done
      <4>1. (pc # "chunk") = TRUE
        BY <2>2
      <4> QED
        BY <1>1, <1>4, <2>2, <3>1, <4>1, TakeUnit DEF IInv
    <3> QED
      BY <3>2, NothingToRead DEF Done
  <2> QED
    BY <2>1, <2>2
<1>8. headers' \subseteq 1..3 /\ body' \in Bodies /\ state # "error"
  BY <1>1 DEF IInv, TypeOK
<1>9. (pc' \in Reading /\ UNCHANGED result) \/ Done
  BY <1>1
<1> QED
  BY <1>1, <1>2, <1>6, <1>7, <1>8, <1>9, ReaderStep

-----------------------------------------------------------------------------
(* Failures and faults.                                                    *)

\* A reader that gives up has met a fault: the answer never ends early.
LEMMA ReadFailsStep ==
  ASSUME IInv, LineOnDeadSocket \/ LineTimeout \/ NotAnHttpAnswer
  PROVE  IInv'
<1> USE StageTypes
<1>1. TypeOK /\ ConnInv /\ ReadInv
  BY DEF IInv
<1>2. pc \in Reading /\ Fail
  BY DEF LineOnDeadSocket, LineTimeout, NotAnHttpAnswer, Reading, LineStages,
         BlockStages
<1>3. pc \in Reading /\ is_connected
  BY <1>1, <1>2 DEF ConnInv
<1>4. CASE LineOnDeadSocket
  BY <1>2, <1>3, <1>4, FailStep DEF LineOnDeadSocket, Broken
<1>5. CASE LineTimeout
  <2>1. silent
    <3> SUFFICES ASSUME ~silent
                 PROVE  FALSE
      BY <1>1 DEF TypeOK
    <3>1. Rest = <<>>
      BY <1>5 DEF LineTimeout, Buffered, Rest
    <3>2. Following \/ (received = <<>> /\ coming = <<>> /\ silent)
      BY <1>1, <1>3, <1>5 DEF ReadInv, LineTimeout
    <3>3. PICK a \in Answers : \E b \in DOMAIN a, announced \in Bodies,
                                  i \in DOMAIN a :
            Shape(a, b, announced) /\ Remains(a, i)
      BY <3>2 DEF Following
    <3>4. PICK b \in DOMAIN a, announced \in Bodies, i \in DOMAIN a :
            Shape(a, b, announced) /\ Remains(a, i)
      BY <3>3
    <3>5. i \in 1..Len(a) /\ Len(a) \in Nat /\ Len(Rest) = Len(a) - i + 1
      BY <3>4, ShapeFacts DEF Remains
    <3>6. Len(Rest) = 0
      BY <3>1, EmptySeq
    <3> QED
      BY <3>5, <3>6
  <2> QED
    BY <1>2, <1>3, <1>5, <2>1, FailStep DEF LineTimeout, Broken
<1>6. CASE NotAnHttpAnswer
  <2>1. ASSUME pc = "status" PROVE First.kind = "status"
    <3>1. pc = "status" /\ sslClient /\ Buffered # <<>>
      BY <1>6, <2>1 DEF NotAnHttpAnswer
    <3>2. PICK a \in Answers : \E b \in DOMAIN a, announced \in Bodies,
                                  i \in DOMAIN a :
            /\ Shape(a, b, announced) /\ Position(a, b, announced, i)
            /\ Remains(a, i)
      BY <1>3, <3>1, ReaderFollows DEF Following
    <3>3. PICK b \in DOMAIN a, announced \in Bodies, i \in DOMAIN a :
            /\ Shape(a, b, announced) /\ Position(a, b, announced, i)
            /\ Remains(a, i)
      BY <3>2
    <3>4. i = 1 /\ a[1] = "status" /\ Len(a) \in Nat /\ i \in 1..Len(a)
      BY <3>1, <3>3, ShapeFacts DEF Position
    <3>5. /\ 1 \in 1..Len(Rest) /\ 1 + 1 - 1 = 1
          /\ Rest[1] = [kind |-> a[1 + 1 - 1], of |-> executed]
      BY <3>3, <3>4 DEF Remains
    <3>6. First = Rest[1]
      BY <1>1, <3>1, <3>5, FirstOfRest
    <3> QED
      BY <3>4, <3>5, <3>6
  <2>2. Fault
    BY <1>6, <2>1 DEF NotAnHttpAnswer
  <2> QED
    BY <1>2, <1>3, <2>2, FailStep
<1> QED
  BY <1>4, <1>5, <1>6

LEMMA BlockOnDeadSocketStep ==
  ASSUME IInv, BlockOnDeadSocket
  PROVE  IInv'
<1> USE StageTypes
<1>1. TypeOK /\ ConnInv /\ ReadInv
  BY DEF IInv
<1>2. /\ pc \in BlockStages /\ ~sslClient /\ k = 2 /\ state' = "error"
      /\ state = "open"
      /\ UNCHANGED <<pc, k, st, is_connected, received, content, body, sslClient,
                     silent, coming, executed, headers, result, kept,
                     callFaults, faults>>
  BY <1>1 DEF BlockOnDeadSocket, NoFault, stepVars, answerVars, wireVars,
              historyVars, faultVars, ConnInv, BlockStages
<1>3. pc \in Reading
  BY <1>2 DEF Reading
<1>4. TypeOK'
  BY <1>1, <1>2 DEF TypeOK, TlsStates
<1>5. ConnInv'
  BY <1>1, <1>2, <1>3 DEF ConnInv
<1>6. ReadInv'
  BY <1>1, <1>2, <1>3 DEF ReadInv
<1>7. callFaults' \in Nat /\ (Broken' <=> Broken)
  BY <1>1, <1>2 DEF TypeOK, Broken
<1>8. FaultInv' /\ Spare' = Spare
  BY <1>2, <1>3, <1>7, CallGoesOn
<1>9. BudgetInv'
  BY <1>2, <1>3, <1>8 DEF IInv, BudgetInv
<1> QED
  BY <1>4, <1>5, <1>6, <1>8, <1>9 DEF IInv

LEMMA WatchdogStep ==
  ASSUME IInv, Watchdog
  PROVE  IInv'
<1> USE StageTypes
<1>1. TypeOK /\ ConnInv
  BY DEF IInv
<1>2. /\ state = "error" /\ pc' = "idle" /\ k' = -1
      /\ st' = [l \in 0..2 |-> FALSE] /\ state' = "none"
      /\ is_connected' = FALSE /\ received' = <<>> /\ result' = "lost"
      /\ UNCHANGED <<content, body, sslClient, silent, coming, executed, headers,
                     kept, callFaults, faults>>
  BY DEF Watchdog, NoFault, answerVars, wireVars, faultVars
<1>3. ~sslClient /\ coming = <<>> /\ ~silent
  BY <1>1, <1>2 DEF ConnInv
<1>4. TypeOK'
  <2>1. <<>> \in Seq(Unit) /\ st' \in [0..2 -> BOOLEAN]
    BY <1>2, EmptySeq
  <2> QED
    <3>1. /\ pc' \in Stages /\ k' \in -1..2 /\ state' \in TlsStates
          /\ received' \in Seq(Unit) /\ is_connected' \in BOOLEAN
      BY <1>2, <2>1 DEF TlsStates
    <3> QED
      BY <1>1, <1>2, <2>1, <3>1 DEF TypeOK
<1>5. ConnInv'
  BY <1>2, <1>3 DEF ConnInv
<1>6. ReadInv'
  BY <1>2, <1>3, NothingToRead
<1>7. BudgetInv' /\ FaultInv'
  BY <1>2 DEF BudgetInv, FaultInv, FaultsBeforeFailure
<1> QED
  BY <1>4, <1>5, <1>6, <1>7 DEF IInv

\* What the parts about the loop need of a fault of the connection.
LEMMA FaultStep ==
  ASSUME IInv, sslClient, Fault, ReadInv', coming' \in Seq(Unit),
         UNCHANGED <<pc, stepVars, tlsVars, answerVars, historyVars>>,
         sslClient' \in BOOLEAN, silent' \in BOOLEAN,
         ~sslClient' => coming' = <<>> /\ ~silent'
  PROVE  IInv'
<1>1. TypeOK /\ ConnInv /\ MaxFaults \in Nat
  BY AnswerAssumption DEF IInv
<1>2. /\ UNCHANGED <<pc, k, st, state, is_connected, received, content, body,
                     executed, headers, result, kept>>
      /\ faults' = faults + 1 /\ callFaults' = callFaults + 1
      /\ faults < MaxFaults
  BY DEF Fault, stepVars, tlsVars, answerVars, historyVars
<1>3. /\ k = 2 /\ state = "open" /\ callFaults \in Nat /\ callFaults' \in Nat
      /\ faults' \in 0..MaxFaults
  BY <1>1, <1>2 DEF ConnInv, TypeOK
<1>4. TypeOK'
  BY <1>1, <1>2, <1>3 DEF TypeOK
<1>5. ConnInv'
  BY <1>1, <1>2, <1>3 DEF ConnInv
<1>6. BudgetInv'
  BY <1>2 DEF IInv, BudgetInv, Spare, One
<1>7. FaultInv'
  <2>1. CASE pc = "idle"
    <3>1. FaultsBeforeFailure'
      BY <1>2, <1>3 DEF IInv, FaultInv, FaultsBeforeFailure
    <3> QED
      BY <1>2, <2>1, <3>1 DEF FaultInv
  <2>2. CASE pc # "idle"
    BY <1>2, <1>3, <2>2, CallGoesOn
  <2> QED
    BY <2>1, <2>2
<1> QED
  BY <1>4, <1>5, <1>6, <1>7 DEF IInv

LEMMA DropStep ==
  ASSUME IInv, Drop
  PROVE  IInv'
<1>1. TypeOK /\ ReadInv
  BY DEF IInv
<1>2. /\ sslClient /\ Fault /\ sslClient' = FALSE /\ silent' = FALSE
      /\ coming' = <<>>
      /\ UNCHANGED <<pc, stepVars, tlsVars, answerVars, historyVars>>
  BY DEF Drop
<1>3. UNCHANGED <<pc, received, body, executed>>
  BY <1>2 DEF tlsVars, answerVars, historyVars
<1>4. coming' \in Seq(Unit) /\ DOMAIN coming' = {}
  BY <1>2, EmptySeq
<1>5. ReadInv'
  BY <1>1, <1>2, <1>3, <1>4 DEF ReadInv
<1> QED
  BY <1>2, <1>4, <1>5, FaultStep

LEMMA FollowingKept ==
  ASSUME UNCHANGED <<pc, received, coming, body, executed, headers>>, Following
  PROVE  Following'
<1>1. PICK a \in Answers : \E b \in DOMAIN a, announced \in Bodies,
                              i \in DOMAIN a :
        /\ Shape(a, b, announced) /\ Position(a, b, announced, i)
        /\ Remains(a, i)
  BY DEF Following
<1>2. PICK b \in DOMAIN a, announced \in Bodies, i \in DOMAIN a :
        /\ Shape(a, b, announced) /\ Position(a, b, announced, i)
        /\ Remains(a, i)
  BY <1>1
<1>3. Shape(a, b, announced)'
  BY <1>2 DEF Shape
<1>4. Position(a, b, announced, i)'
  BY <1>2 DEF Position
<1>5. Remains(a, i)'
  BY <1>2 DEF Remains, Rest
<1> QED
  BY <1>3, <1>4, <1>5 DEF Following

LEMMA SilenceStep ==
  ASSUME IInv, Silence
  PROVE  IInv'
<1>1. TypeOK /\ ReadInv
  BY DEF IInv
<1>2. /\ sslClient /\ Fault /\ sslClient' = TRUE /\ silent' = TRUE
      /\ coming' = coming
      /\ UNCHANGED <<pc, stepVars, tlsVars, answerVars, historyVars>>
  BY <1>1 DEF Silence, TypeOK
<1>3. UNCHANGED <<pc, received, coming, body, executed, headers>>
  BY <1>2 DEF tlsVars, answerVars, historyVars
<1>4. Following => Following'
  BY <1>3, FollowingKept
<1>5. ReadInv'
  BY <1>1, <1>2, <1>3, <1>4 DEF ReadInv
<1>6. coming' \in Seq(Unit)
  BY <1>1, <1>2 DEF TypeOK
<1> QED
  BY <1>2, <1>5, <1>6, FaultStep

LEMMA StutterStep ==
  ASSUME IInv, UNCHANGED vars
  PROVE  IInv'
<1>1. UNCHANGED <<pc, k, st, state, is_connected, received, content, body,
                  sslClient, silent, coming, executed, headers, result, kept,
                  callFaults, faults>>
  BY DEF vars, stepVars, tlsVars, answerVars, wireVars, historyVars, faultVars
<1>2. Following => Following'
  BY <1>1, FollowingKept
<1>3. TypeOK' /\ ConnInv' /\ ReadInv'
  BY <1>1, <1>2 DEF IInv, TypeOK, ConnInv, ReadInv
<1>4. BudgetInv' /\ FaultInv'
  BY <1>1 DEF IInv, BudgetInv, FaultInv, FaultsBeforeFailure, Spare, One, Broken,
              Needed
<1> QED
  BY <1>3, <1>4 DEF IInv

LEMMA NextIInv == IInv /\ [Next]_vars => IInv'
<1> SUFFICES ASSUME IInv, [Next]_vars
             PROVE  IInv'
  OBVIOUS
<1>1. CASE AlreadyTried
  BY <1>1, AlreadyTriedStep
<1>2. CASE HTTPAPI_Init \/ HTTPAPI_CreateConnection
  BY <1>2, OnwardStep
<1>3. CASE HostNotFound
  BY <1>3, HostNotFoundStep
<1>4. CASE HTTPAPI_ExecuteRequest
  BY <1>4, ExecuteRequestStep
<1>5. CASE OpenXIOConnection
  BY <1>5, OpenStep
<1>6. CASE OpenFails
  BY <1>6, OpenFailsStep
<1>7. CASE WriteFails
  BY <1>7, WriteFailsStep
<1>8. CASE SendHeadsToXIO \/ SendContentToXIO
  BY <1>8, SendStep
<1>9. CASE LineOnDeadSocket \/ LineTimeout \/ NotAnHttpAnswer
  BY <1>9, ReadFailsStep
<1>10. CASE ReceiveStatus
  BY <1>10, ReceiveStatusStep
<1>11. CASE ReceiveHeader
  BY <1>11, ReceiveHeaderStep
<1>12. CASE EndOfHeaders
  BY <1>12, EndOfHeadersStep
<1>13. CASE ReceiveSize
  BY <1>13, ReceiveSizeStep
<1>14. CASE ReceiveBlock
  BY <1>14, ReceiveBlockStep
<1>15. CASE BlockOnDeadSocket
  BY <1>15, BlockOnDeadSocketStep
<1>16. CASE Watchdog
  BY <1>16, WatchdogStep
<1>17. CASE Drop
  BY <1>17, DropStep
<1>18. CASE Silence
  BY <1>18, SilenceStep
<1>19. ASSUME NEW c \in BOOLEAN, Call(c)
       PROVE  IInv'
  BY <1>19, CallStep
<1>20. CASE UNCHANGED vars
  BY <1>20, StutterStep
<1> QED
  BY <1>1, <1>2, <1>3, <1>4, <1>5, <1>6, <1>7, <1>8, <1>9, <1>10, <1>11, <1>12,
     <1>13, <1>14, <1>15, <1>16, <1>17, <1>18, <1>19, <1>20 DEF Next, Device

LEMMA Invariance == Spec => []IInv
BY InitIInv, NextIInv, PTL DEF Spec

-----------------------------------------------------------------------------
(* The theorems.                                                           *)

\* Whatever the answers and the faults, every variable of the client, the
\* adapter and the connection stays in its type; in particular no request is
\* carried out more than three times in one call of httpapiex.c.
THEOREM TypeCorrect == Spec => []TypeOK
<1>1. IInv => TypeOK
  BY DEF IInv
<1> QED
  BY <1>1, Invariance, PTL

\* The one WiFiClientSecure is connected only behind a live connection handle
\* of httpapi_compact.c in state OPEN, which will stop it.
THEOREM OneConnectionHeld == Spec => []OneConnection
<1>1. IInv => OneConnection
  BY DEF IInv, ConnInv, OneConnection
<1> QED
  BY <1>1, Invariance, PTL

\* What the reader of httpapi_compact.c can see is the answer to the request it
\* sent last, never one left over.
THEOREM AnswersStayFresh == Spec => []AnswersAreFresh
<1>1. IInv => AnswersAreFresh
  <2> SUFFICES ASSUME IInv
               PROVE  AnswersAreFresh
    OBVIOUS
  <2>1. /\ received \in Seq(Unit) /\ coming \in Seq(Unit)
        /\ silent \in BOOLEAN /\ ReadInv
    BY DEF IInv, TypeOK
  <2>2. /\ DOMAIN received = 1..Len(received) /\ DOMAIN coming = 1..Len(coming)
        /\ Len(received) \in Nat /\ Len(coming) \in Nat
    BY <2>1, LenProperties
  <2>3. \A i \in DOMAIN Buffered : Buffered[i].of = executed
    <3>1. CASE silent
      <4>1. Buffered = received
        BY <2>1, <3>1, ConcatEmptySeq DEF Buffered
      <4> QED
        BY <2>1, <4>1 DEF ReadInv
    <3>2. CASE ~silent
      <4>1. Buffered = Rest
        BY <3>2 DEF Buffered, Rest
      <4>2. /\ Rest \in Seq(Unit) /\ Len(Rest) = Len(received) + Len(coming)
            /\ \A m \in 1..Len(Rest) :
                 Rest[m] = IF m <= Len(received) THEN received[m]
                                                 ELSE coming[m - Len(received)]
        BY RestType DEF IInv
      <4>3. ASSUME NEW m \in 1..Len(Rest)
            PROVE  Rest[m].of = executed
        <5>1. CASE m <= Len(received)
          BY <2>1, <2>2, <4>2, <5>1 DEF ReadInv
        <5>2. CASE m > Len(received)
          <6>1. m - Len(received) \in 1..Len(coming)
            BY <2>2, <4>2, <5>2
          <6>2. Rest[m] = coming[m - Len(received)]
            BY <2>2, <4>2, <5>2
          <6> QED
            BY <2>1, <2>2, <6>1, <6>2 DEF ReadInv
        <5> QED
          BY <2>2, <5>1, <5>2
      <4>4. DOMAIN Rest = 1..Len(Rest)
        BY <4>2, LenProperties
      <4> QED
        BY <4>1, <4>3, <4>4
    <3> QED
      BY <2>1, <3>1, <3>2
  <2>4. pc = "idle" => Buffered = <<>>
    <3>1. pc = "idle" => received = <<>> /\ coming = <<>>
      BY <2>1, StageTypes DEF ReadInv
    <3> QED
      BY <3>1, EmptySeq, ConcatEmptySeq DEF Buffered
  <2> QED
    BY <2>3, <2>4 DEF AnswersAreFresh
<1> QED
  BY <1>1, Invariance, PTL

\* The resilient loop of httpapiex.c gives up only after a fault for each of
\* the attempts it has.
THEOREM FailureNeedsFaults == Spec => []FaultsBeforeFailure
<1>1. IInv => FaultsBeforeFailure
  BY DEF IInv, FaultInv
<1> QED
  BY <1>1, Invariance, PTL

\* A call is a call of HttpCall: it begins, the hub carries its request out at
\* most three times, header lines are of the last execution, and it returns
\* HTTPAPI_OK only with the answer to that one.
THEOREM CallImplemented == Spec => ImplementsHttpCall
<1> USE StageTypes
<1>1. Init => Call_!CallInit
  BY DEF Init, Call_!CallInit
<1>2. IInv /\ [Next]_vars => [Call_!CallNext]_(Call_!callVars)
  <2> SUFFICES ASSUME IInv, [Next]_vars
               PROVE  [Call_!CallNext]_(Call_!callVars)
    OBVIOUS
  <2> USE DEF Call_!callVars
  <2>0. TypeOK /\ ConnInv
    BY DEF IInv
  <2>1. CASE UNCHANGED vars \/ Drop \/ Silence
    BY <2>1 DEF vars, historyVars, Drop, Silence
  <2>2. CASE \E c \in BOOLEAN : Call(c)
    <3>1. Call_!Begin
      BY <2>2 DEF Call, Call_!Begin
    <3> QED
      BY <3>1 DEF Call_!CallNext
  <2>3. CASE \/ HTTPAPI_Init \/ HTTPAPI_CreateConnection
             \/ HTTPAPI_ExecuteRequest \/ OpenXIOConnection
             \/ ReceiveStatus \/ ReceiveSize \/ BlockOnDeadSocket
    <3>1. pc # "idle" /\ pc' # "idle" /\ UNCHANGED <<executed, headers, result>>
      BY <2>3 DEF HTTPAPI_Init, HTTPAPI_CreateConnection, Onward, BlockStages,
                  HTTPAPI_ExecuteRequest, OpenXIOConnection, ReceiveStatus,
                  ReceiveSize, BlockOnDeadSocket, historyVars, Take
    <3> QED
      BY <3>1
  <2>4. CASE \/ AlreadyTried \/ HostNotFound \/ OpenFails \/ WriteFails
             \/ LineOnDeadSocket \/ LineTimeout \/ NotAnHttpAnswer
    <3>1. pc # "idle" /\ Back /\ UNCHANGED <<executed, headers>>
      BY <2>4 DEF AlreadyTried, HostNotFound, OpenFails, WriteFails, Fail,
                  LineOnDeadSocket, LineTimeout, NotAnHttpAnswer, LineStages
    <3>2. CASE k = 0
      <4>1. Call_!GiveUp
        BY <3>1, <3>2 DEF Back, Call_!GiveUp
      <4> QED
        BY <4>1 DEF Call_!CallNext
    <3>3. CASE k # 0
      BY <3>1, <3>3 DEF Back
    <3> QED
      BY <3>2, <3>3
  <2>5. CASE SendHeadsToXIO \/ SendContentToXIO
    <3>1. /\ pc \in Sending /\ pc' \notin {"idle"} /\ UNCHANGED <<headers, result>>
          /\ UNCHANGED <<executed, coming>> \/ (HubAnswers /\ pc' = "status")
          /\ UNCHANGED <<body, received, silent>>
      BY <2>5 DEF SendHeadsToXIO, SendContentToXIO, tlsVars, answerVars
    <3>2. executed' = executed \/ (executed' = executed + 1 /\ executed + 1 <= 3)
      BY <3>1, AnswerArrives
    <3>3. CASE executed' = executed
      BY <3>1, <3>3
    <3>4. CASE executed' = executed + 1 /\ executed + 1 <= 3
      <4>1. executed < 3
        BY <2>0, <3>4 DEF TypeOK
      <4>2. Call_!Execute
        BY <3>1, <3>4, <4>1 DEF Call_!Execute
      <4> QED
        BY <4>2 DEF Call_!CallNext
    <3> QED
      BY <3>2, <3>3, <3>4
  <2>6. CASE ReceiveHeader
    <3>1. headers' = headers \cup {executed} /\ executed \in 1..3
      BY <2>6, ReceiveHeaderStep
    <3>2. Call_!Gather
      BY <2>6, <3>1 DEF ReceiveHeader, Take, Call_!Gather
    <3> QED
      BY <3>2 DEF Call_!CallNext
  <2>7. CASE EndOfHeaders \/ ReceiveBlock
    <3>1. /\ executed \in headers /\ pc # "idle"
          /\ UNCHANGED <<executed, headers>>
          /\ Done \/ (pc' # "idle" /\ UNCHANGED result)
      BY <2>7, EndOfHeadersStep, ReceiveBlockStep
         DEF EndOfHeaders, ReceiveBlock, Take, BlockStages
    <3>2. CASE Done
      <4>1. Call_!Return
        BY <3>1, <3>2 DEF Done, Call_!Return
      <4> QED
        BY <4>1 DEF Call_!CallNext
    <3>3. CASE pc' # "idle" /\ UNCHANGED result
      BY <3>1, <3>3
    <3> QED
      BY <3>1, <3>2, <3>3
  <2>8. CASE Watchdog
    <3>1. Call_!Reset
      BY <2>8 DEF Watchdog, Call_!Reset
    <3> QED
      BY <3>1 DEF Call_!CallNext
  <2> QED
    BY <2>1, <2>2, <2>3, <2>4, <2>5, <2>6, <2>7, <2>8 DEF Next, Device
<1> QED
  BY <1>1, <1>2, Invariance, PTL DEF Spec, ImplementsHttpCall, Call_!CallSpec

-----------------------------------------------------------------------------
(* A call advances.                                                        *)

\* The three counts are natural numbers; the last is of what has not been read.
LeftInv ==
  /\ pc # "idle" => AttemptsLeft \in Nat
  /\ StagesLeft \in 0..4
  /\ UnitsLeft = Len(Rest) + (IF state = "error" THEN 0 ELSE 1)
  /\ Len(Rest) \in Nat

LEMMA LeftTypes == IInv => LeftInv
<1> SUFFICES ASSUME IInv PROVE LeftInv
  OBVIOUS
<1>1. TypeOK /\ ConnInv
  BY DEF IInv
<1>2. pc # "idle" => k \in 0..2
  BY <1>1 DEF ConnInv
<1>3. Rest \in Seq(Unit) /\ Len(Rest) = Len(received) + Len(coming)
  BY <1>1, RestType
<1>4. UnitsLeft = Len(Rest) + (IF state = "error" THEN 0 ELSE 1)
  BY <1>3 DEF UnitsLeft
<1> QED
  BY <1>2, <1>3, <1>4 DEF LeftInv, AttemptsLeft, StagesLeft

LEMMA LeftTypesNext == IInv' => LeftInv'
BY LeftTypes, PTL

\* One level back, or onward by a step now marked as tried.
LEMMA BackAdvances ==
  ASSUME IInv, IInv', Back, pc # "idle", k = 2 \/ st[k] \/ k = 1
  PROVE  pc' = "idle" \/ AttemptsLeft' \in 0..(AttemptsLeft - 1)
<1>1. k \in 0..2 /\ st \in [0..2 -> BOOLEAN]
  BY DEF IInv, ConnInv, TypeOK
<1>2. CASE k = 0
  BY <1>2 DEF Back
<1>3. CASE k # 0
  <2>1. /\ k' = k - 1 /\ pc' = "try" /\ st' = [st EXCEPT ![k] = FALSE]
    BY <1>3 DEF Back
  <2>2. st'[0] = st[0] /\ (k = 2 => st'[1] = st[1])
    <3>1. CASE k = 1
      BY <1>1, <2>1, <3>1
    <3>2. CASE k = 2
      BY <1>1, <2>1, <3>2
    <3> QED
      BY <1>1, <1>3, <3>1, <3>2
  <2>3. AttemptsLeft' \in Nat
    BY <2>1, LeftTypesNext DEF LeftInv
  <2> QED
    BY <1>1, <1>3, <2>1, <2>2, <2>3 DEF AttemptsLeft
<1> QED
  BY <1>2, <1>3

LEMMA OnwardAdvances ==
  ASSUME IInv, IInv', Onward, pc = "try", k < 2, ~st[k]
  PROVE  AttemptsLeft' \in 0..(AttemptsLeft - 1)
<1>1. k \in 0..1 /\ st \in [0..2 -> BOOLEAN]
  BY DEF IInv, ConnInv, TypeOK
<1>2. /\ k' = k + 1 /\ pc' = "try"
      /\ st' = [st EXCEPT ![k] = TRUE, ![k + 1] = FALSE]
  BY DEF Onward
<1>3. st'[k] = TRUE /\ (k = 1 => st'[0] = st[0]) /\ (k = 0 => st'[1] = FALSE)
  <2>1. CASE k = 0
    BY <1>1, <1>2, <2>1
  <2>2. CASE k = 1
    BY <1>1, <1>2, <2>2
  <2>3. k = 0 \/ k = 1
    BY <1>1
  <2> QED
    BY <2>1, <2>2, <2>3, Zenon
<1>4. AttemptsLeft' \in Nat
  BY <1>2, LeftTypesNext DEF LeftInv
<1> QED
  BY <1>1, <1>2, <1>3, <1>4 DEF AttemptsLeft

\* A unit is read.
LEMMA UnitAdvances ==
  ASSUME IInv, IInv', Take(FALSE), pc \in Reading, pc' \in Reading
  PROVE  Onwards
<1>1. Len(Rest') = Len(Rest) - 1
  BY TakeUnit DEF IInv
<1>2. UNCHANGED <<k, st, state>>
  BY DEF Take, stepVars
<1>3. /\ UnitsLeft = Len(Rest) + (IF state = "error" THEN 0 ELSE 1)
      /\ UnitsLeft' = Len(Rest') + (IF state' = "error" THEN 0 ELSE 1)
      /\ Len(Rest) \in Nat /\ Len(Rest') \in Nat
  BY LeftTypes, LeftTypesNext DEF LeftInv
<1>4. UnitsLeft' \in 0..(UnitsLeft - 1)
  BY <1>1, <1>2, <1>3
<1>5. AttemptsLeft' = AttemptsLeft
  BY <1>2 DEF AttemptsLeft
<1>6. StagesLeft = 0 /\ StagesLeft' = 0
  BY StageTypes DEF StagesLeft
<1> QED
  BY <1>4, <1>5, <1>6 DEF Onwards

\* What ends an attempt goes one level back.
LEMMA EndOfAttempt ==
  ASSUME IInv, IInv', AlreadyTried \/ HostNotFound \/ OpenFails \/ WriteFails
                        \/ LineOnDeadSocket \/ LineTimeout \/ NotAnHttpAnswer
  PROVE  pc' = "idle" \/ Onwards
<1>1. Back /\ pc # "idle"
  BY DEF AlreadyTried, HostNotFound, OpenFails, WriteFails, Fail, LineOnDeadSocket,
         LineTimeout, NotAnHttpAnswer, LineStages
<1>2. CASE AlreadyTried
  BY <1>1, <1>2, BackAdvances DEF AlreadyTried, Onwards
<1>3. CASE HostNotFound
  BY <1>1, <1>3, BackAdvances DEF HostNotFound, Onwards
<1>4. CASE ~AlreadyTried /\ ~HostNotFound
  <2>1. k = 2
    BY <1>4 DEF OpenFails, WriteFails, LineOnDeadSocket, LineTimeout,
                NotAnHttpAnswer, LineStages, IInv, ConnInv
  <2> QED
    BY <1>1, <2>1, BackAdvances DEF Onwards
<1> QED
  BY <1>2, <1>3, <1>4

\* The stages before the answer.
LEMMA StageAdvances ==
  ASSUME IInv, IInv', \/ HTTPAPI_ExecuteRequest \/ OpenXIOConnection
                      \/ SendHeadsToXIO \/ SendContentToXIO
  PROVE  Onwards
<1>1. UNCHANGED <<k, st>>
  BY DEF HTTPAPI_ExecuteRequest, OpenXIOConnection, SendHeadsToXIO,
         SendContentToXIO, stepVars
<1>2. AttemptsLeft' = AttemptsLeft
  BY <1>1 DEF AttemptsLeft
<1>3. \/ pc = "try" /\ pc' \in {"open", "heads"}
      \/ pc = "open" /\ pc' = "heads"
      \/ pc = "heads" /\ pc' \in {"content", "status"}
      \/ pc = "content" /\ pc' = "status"
  BY DEF HTTPAPI_ExecuteRequest, OpenXIOConnection, SendHeadsToXIO,
         SendContentToXIO
<1>4. StagesLeft' \in 0..(StagesLeft - 1)
  <2>1. CASE pc = "try"
    BY <1>3, <2>1 DEF StagesLeft
  <2>2. CASE pc = "open"
    BY <1>3, <2>2 DEF StagesLeft
  <2>3. CASE pc \in {"heads", "content"}
    BY <1>3, <2>3 DEF StagesLeft
  <2> QED
    BY <1>3, <2>1, <2>2, <2>3
<1> QED
  BY <1>2, <1>4 DEF Onwards

\* The answer, unit by unit; its last unit ends the call.
LEMMA AnswerAdvances ==
  ASSUME IInv, IInv', \/ ReceiveStatus \/ ReceiveHeader \/ EndOfHeaders
                      \/ ReceiveSize \/ ReceiveBlock
  PROVE  pc' = "idle" \/ Onwards
<1> USE StageTypes
<1>1. CASE ReceiveStatus \/ ReceiveHeader \/ ReceiveSize
  <2>1. Take(FALSE) /\ pc \in Reading /\ pc' \in Reading
    BY <1>1 DEF ReceiveStatus, ReceiveHeader, ReceiveSize
  <2> QED
    BY <2>1, UnitAdvances
<1>2. CASE EndOfHeaders
  <2>1. CASE body = "none"
    BY <1>2, <2>1 DEF EndOfHeaders, Done
  <2>2. CASE body # "none"
    <3>1. (body = "none") = FALSE
      BY <2>2
    <3>2. Take(FALSE)
      BY <1>2, <3>1 DEF EndOfHeaders
    <3>3. pc \in Reading /\ pc' \in Reading
      BY <1>2, <2>2 DEF EndOfHeaders
    <3> QED
      BY <3>2, <3>3, UnitAdvances
  <2> QED
    BY <2>1, <2>2
<1>3. CASE ReceiveBlock
  <2>1. CASE pc # "chunk"
    BY <1>3, <2>1 DEF ReceiveBlock, Done
  <2>2. CASE pc = "chunk"
    <3>1. (pc # "chunk") = FALSE
      BY <2>2
    <3>2. Take(FALSE)
      BY <1>3, <3>1 DEF ReceiveBlock
    <3>3. pc \in Reading /\ pc' \in Reading
      BY <1>3, <2>2 DEF ReceiveBlock
    <3> QED
      BY <3>2, <3>3, UnitAdvances
  <2> QED
    BY <2>1, <2>2
<1> QED
  BY <1>1, <1>2, <1>3

\* A block on a dead socket has one round before the watchdog ends it.
LEMMA DeadBlockAdvances ==
  ASSUME IInv, IInv', BlockOnDeadSocket
  PROVE  Onwards
<1>1. /\ UNCHANGED <<pc, k, st, received, coming>>
      /\ state = "open" /\ state' = "error"
  BY DEF BlockOnDeadSocket, stepVars, wireVars
<1>2. AttemptsLeft' = AttemptsLeft /\ StagesLeft' = StagesLeft
  BY <1>1 DEF AttemptsLeft, StagesLeft
<1>3. Len(Rest') = Len(Rest)
  BY <1>1 DEF Rest
<1>4. UnitsLeft = Len(Rest) + 1 /\ UnitsLeft' = Len(Rest) /\ Len(Rest) \in Nat
  BY <1>1, <1>3, LeftTypes, LeftTypesNext DEF LeftInv
<1> QED
  BY <1>2, <1>4 DEF Onwards

\* The connection breaks under the call: nothing is set back.
LEMMA FaultSetsNothingBack ==
  ASSUME IInv, IInv', Drop \/ Silence
  PROVE  /\ faults' > faults
         /\ UNCHANGED <<AttemptsLeft, StagesLeft>> /\ UnitsLeft' <= UnitsLeft
<1>1. /\ UNCHANGED <<pc, k, st, received, state>> /\ faults' = faults + 1
      /\ coming' = <<>> \/ coming' = coming
  BY DEF Drop, Silence, Fault, stepVars, tlsVars
<1>2. UNCHANGED <<AttemptsLeft, StagesLeft>>
  BY <1>1 DEF AttemptsLeft, StagesLeft
<1>3. /\ faults \in Nat /\ Len(coming) \in Nat /\ Len(received) \in Nat
  BY DEF IInv, TypeOK
<1>4. UnitsLeft' <= UnitsLeft
  <2>1. Len(coming') <= Len(coming)
    BY <1>1, <1>3, EmptySeq
  <2>2. Len(coming') \in Nat
    BY <1>1, <1>3, EmptySeq
  <2> QED
    BY <1>1, <1>3, <2>1, <2>2 DEF UnitsLeft
<1> QED
  BY <1>1, <1>2, <1>3, <1>4

\* For answers of any length, any number of faults and either kind of request:
\* no step of the recovery or of the readers leads back to where the call was
\* before; a call that takes steps comes to its end.
THEOREM CallAlwaysAdvances == Spec => CallAdvances
<1> DEFINE Advances ==
      \/ pc' = "idle" \/ Onwards
      \/ /\ faults' > faults
         /\ UNCHANGED <<AttemptsLeft, StagesLeft>> /\ UnitsLeft' <= UnitsLeft
<1>1. ASSUME IInv, IInv', Next, pc # "idle"
      PROVE  Advances
  <2>1. CASE Drop \/ Silence
    BY <1>1, <2>1, FaultSetsNothingBack
  <2>2. CASE \E c \in BOOLEAN : Call(c)
    BY <1>1, <2>2 DEF Call
  <2>3. CASE Watchdog
    BY <2>3 DEF Watchdog
  <2>4. CASE HTTPAPI_Init \/ HTTPAPI_CreateConnection
    <3>1. Onward /\ pc = "try" /\ k < 2 /\ ~st[k]
      BY <2>4 DEF HTTPAPI_Init, HTTPAPI_CreateConnection
    <3> QED
      BY <1>1, <3>1, OnwardAdvances DEF Onwards
  <2> QED
    BY <1>1, <2>1, <2>2, <2>3, <2>4, EndOfAttempt, StageAdvances, AnswerAdvances,
       DeadBlockAdvances
    DEF Next, Device
<1>2. IInv /\ IInv' /\ [Next]_vars => [pc # "idle" => Advances]_vars
  BY <1>1
<1> QED
  BY <1>2, Invariance, PTL DEF Spec, CallAdvances
=============================================================================
