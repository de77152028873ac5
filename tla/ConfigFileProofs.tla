-------------------------- MODULE ConfigFileProofs --------------------------
(***************************************************************************)
(* Proofs about ConfigFile, for every set of connection strings and         *)
(* intervals and every number of edits and faults: what keeps the           *)
(* connection string in flash, that GetDeviceId() finds the device's id, and *)
(* which ids the access point's buffer holds.                               *)
(* The latter is an induction over the rounds of its loop, which the library *)
(* of proofs offers for an operator and no installed prover can apply; here  *)
(* it is got from the well-foundedness of <, for a set of numbers.           *)
(***************************************************************************)
EXTENDS ConfigFile, WellFoundedInduction, SequenceTheorems, TLAPS

-----------------------------------------------------------------------------
(* The JSON buffer.                                                        *)

\* saveConfig() drops no member: the nine of them, with copies of strings as
\* long as struct Config and the WiFi standard let them be, fit into the 400
\* bytes of its buffer (Config.ino:68), to the last byte.
THEOREM ConfigFits ==
  \A cs \in CSLengths, sn \in SNLengths, sp \in SPLengths :
    Allocated(cs, sn, sp) <= BufferCapacity
<1> SUFFICES ASSUME NEW cs \in CSLengths, NEW sn \in SNLengths,
                    NEW sp \in SPLengths
             PROVE  Allocated(cs, sn, sp) <= BufferCapacity
  OBVIOUS
<1>1. Padded(cs + 1) <= 180
  BY DEF Padded, CSLengths
<1>2. Padded(sn + 1) <= 36
  BY DEF Padded, SNLengths
<1>3. Padded(sp + 1) <= 32
  BY DEF Padded, SPLengths
<1>4. /\ Padded(cs + 1) \in Int /\ Padded(sn + 1) \in Int
      /\ Padded(sp + 1) \in Int
  BY DEF Padded, CSLengths, SNLengths, SPLengths
<1> QED
  BY <1>1, <1>2, <1>3, <1>4
  DEF Allocated, ObjectSize, Members, NodeSize, BufferCapacity

-----------------------------------------------------------------------------
(* The connection string.                                                  *)

MemoryTypeOK ==
  /\ pc \in {"off", "run", "delay", "save", "write"}
  /\ configFile \in Configs \cup {Torn}
  /\ DeviceConfig \in Configs
  /\ causes \in Nat

\* What a boot has loaded, and every form since, came from the device's owner:
\* without it a save would not keep the connection string in flash.
MemoryIsEntered == causes = 0 /\ pc # "off" => DeviceConfig.cs \in entered

IInv == MemoryTypeOK /\ MemoryIsEntered /\ ProvisioningSurvives

LEMMA BlankIsConfig == Blank \in Configs /\ Blank.cs = <<>>
BY StringAssumption DEF Blank, Configs

LEMMA TornIsNoConfig == \A c \in Configs : c # Torn
BY StringAssumption DEF Configs

LEMMA InitInv == Init => IInv
BY BlankIsConfig, TornIsNoConfig
DEF Init, IInv, MemoryTypeOK, MemoryIsEntered, ProvisioningSurvives, Provisioned

LEMMA NextInv == IInv /\ [Next]_vars => IInv'
<1> SUFFICES ASSUME IInv, [Next]_vars PROVE IInv'
  OBVIOUS
<1> USE BlankIsConfig, TornIsNoConfig
<1> USE DEF IInv, MemoryTypeOK, MemoryIsEntered, ProvisioningSurvives,
            Provisioned, deviceVars
<1>1. CASE UNCHANGED vars
  BY <1>1 DEF vars
<1>2. CASE Load
  BY <1>2 DEF Load, Boot
<1>3. CASE LoadNothing
  BY <1>3 DEF LoadNothing, Boot
<1>4. CASE LoadFails
  BY <1>4 DEF LoadFails, Boot
<1>5. CASE OpenForWriting
  BY <1>5 DEF OpenForWriting
<1>6. CASE OpenFails
  BY <1>6 DEF OpenFails
<1>7. CASE PrintConfig
  BY <1>7 DEF PrintConfig
<1>8. CASE Reset
  BY <1>8 DEF Reset
<1>9. CASE Crash
  BY <1>9 DEF Crash
<1>10. CASE handleSubmit
  BY <1>10 DEF handleSubmit, Served, Configs
<1>11. CASE handleSetupSubmit
  BY <1>11 DEF handleSetupSubmit, Served, Configs
<1>12. CASE Delay
  BY <1>12 DEF Delay
<1>13. CASE ClearWIFI
  BY <1>13 DEF ClearWIFI, Configs
<1>14. CASE ConfigInterval
  BY <1>14 DEF ConfigInterval, Configs
<1> QED
  BY <1>1, <1>2, <1>3, <1>4, <1>5, <1>6, <1>7, <1>8, <1>9, <1>10, <1>11,
     <1>12, <1>13, <1>14 DEF Next

\* However often the network is cleared, submitted and reconfigured, saves fail
\* and the device is reset or loses its supply, the connection string in flash
\* is one the device was given, unless a crash fell between open and print or
\* a load failed.
THEOREM ProvisioningIsKept == Spec => []ProvisioningSurvives
<1>1. IInv => ProvisioningSurvives
  BY DEF IInv
<1> QED
  BY InitInv, NextInv, <1>1, PTL DEF Spec

-----------------------------------------------------------------------------
(* Induction over the naturals, from the well-foundedness of <.              *)

\* The order of the numbers as a relation.
LEMMA LessIsWellFounded ==
  \E R : IsWellFoundedOn(R, Nat) /\ \A a, b \in Nat : <<a, b>> \in R <=> a < b
<1>1. IsWellFoundedOn(OpToRel(<, Nat), Nat)
  BY NatLessThanWellFounded
<1>2. \A a, b \in Nat : <<a, b>> \in OpToRel(<, Nat) <=> a < b
  BY DEF OpToRel
<1>3. QED
  BY <1>1, <1>2

\* A set of numbers has a least one.
LEMMA LeastNumber ==
  ASSUME NEW T \in SUBSET Nat, T # {}
  PROVE  \E m \in T : \A k \in T : m <= k
<1>1. PICK R : /\ IsWellFoundedOn(R, Nat)
               /\ \A a, b \in Nat : <<a, b>> \in R <=> a < b
  BY LessIsWellFounded
<1>2. IsWellFoundedOn(R, Nat)
  BY <1>1
<1>3. \E x \in T : \A y \in T : ~ (<<y, x>> \in R)
  BY <1>2, WFMin
<1>4. PICK x \in T : \A y \in T : ~ (<<y, x>> \in R)
  BY <1>3
<1>5. x \in Nat /\ \A y \in T : y \in Nat /\ ~(y < x)
  BY <1>1, <1>4
<1>6. \A y \in T : x <= y
  BY <1>5
<1>7. QED
  BY <1>6

\* Induction, over the set of the numbers that have the property.
LEMMA Induction ==
  ASSUME NEW T \in SUBSET Nat, 0 \in T, \A n \in T : n + 1 \in T
  PROVE  T = Nat
<1> SUFFICES ASSUME Nat \ T # {} PROVE FALSE
  OBVIOUS
<1>1. PICK m \in Nat \ T : \A k \in Nat \ T : m <= k
  BY LeastNumber
<1>2. m # 0 /\ m - 1 \in Nat
  BY <1>1
<1>3. m - 1 \in T
  BY <1>1, <1>2
<1>4. (m - 1) + 1 \in T
  BY <1>3
<1>5. QED
  BY <1>1, <1>4

-----------------------------------------------------------------------------
(* The access point's name.                                                *)

ScanStates(cs) == [runStr : 1..(Len(cs) + 1), ustate : {0, 1},
                   start : 0..(Len(cs) + 1)]
ScanStart == [runStr |-> 1, ustate |-> 0, start |-> 0]

\* What a run of the loop is: the function that ScannedId() names scan.
IsScan(cs, scan) ==
  scan = [k \in 0..(2 * Len(cs)) |->
            IF k = 0 THEN [runStr |-> 1, ustate |-> 0, start |-> 0]
                     ELSE ScanRound(cs, scan[k - 1])]
Scan(cs) == CHOOSE scan : IsScan(cs, scan)

\* The function Scan(cs) is the one ScannedId() computes with.
LEMMA ScanIsRun ==
  ASSUME NEW cs
  PROVE  ScannedId(cs) =
           LET end == Scan(cs)[2 * Len(cs)]
           IN IF end.start = 0 THEN <<>>
              ELSE SubSeq(cs, end.start, end.runStr - 1)
BY DEF ScannedId, Scan, IsScan

\* The loop can be run for any number of rounds.
LEMMA ScanExists == ASSUME NEW cs \in Seq(Tokens) PROVE \E scan : IsScan(cs, scan)
<1> DEFINE Runs(n, f) ==
      f = [k \in 0..n |-> IF k = 0 THEN ScanStart ELSE ScanRound(cs, f[k - 1])]
<1> DEFINE T == {n \in Nat : \E f : Runs(n, f)}
<1>1. 0 \in T
  <2> DEFINE f == [k \in 0..0 |-> ScanStart]
  <2>1. Runs(0, f)
    OBVIOUS
  <2> QED
    BY <2>1
<1>2. ASSUME NEW n \in T PROVE n + 1 \in T
  <2>1. PICK f : Runs(n, f)
    OBVIOUS
  <2> DEFINE g == [k \in 0..(n + 1) |->
                     IF k = n + 1 THEN ScanRound(cs, f[n]) ELSE f[k]]
  <2>2. n \in Nat
    OBVIOUS
  <2>3. ASSUME NEW k \in 0..(n + 1)
        PROVE  g[k] = IF k = 0 THEN ScanStart ELSE ScanRound(cs, g[k - 1])
    <3>1. CASE k = n + 1
      BY <2>2, <3>1
    <3>2. CASE k # n + 1
      <4>1. k \in 0..n /\ g[k] = f[k]
        BY <2>2, <3>2
      <4>2. f[k] = IF k = 0 THEN ScanStart ELSE ScanRound(cs, f[k - 1])
        BY <2>1, <4>1
      <4>3. k # 0 => g[k - 1] = f[k - 1]
        BY <2>2, <4>1
      <4> QED
        BY <4>1, <4>2, <4>3
    <3> QED
      BY <3>1, <3>2
  <2>4. Runs(n + 1, g)
    BY <2>3
  <2> HIDE DEF g, Runs
  <2>5. \E h : Runs(n + 1, h)
    BY <2>4
  <2> QED
    BY <2>2, <2>5
<1>3. T = Nat
  <2> HIDE DEF T
  <2>1. T \in SUBSET Nat
    BY DEF T
  <2> QED
    BY <1>1, <1>2, <2>1, Induction
<1>4. 2 * Len(cs) \in Nat
  OBVIOUS
<1>5. QED
  BY <1>3, <1>4 DEF IsScan, ScanStart

\* What the loop knows: a field begins at runStr in state 0 and not in state 1,
\* and no head of a field is passed before the one that start follows.
ScanKnows(cs, runStr, ustate, start) ==
  /\ start = 0 =>
       \A i \in FieldHeads(cs) : i >= runStr /\ (ustate = 1 => i > runStr)
  /\ ustate = 0 => start = 0 /\ (runStr = 1 \/ cs[runStr - 1] = "semicolon")
  /\ start # 0 =>
       /\ start <= runStr /\ start - 1 \in FieldHeads(cs)
       /\ \A i \in FieldHeads(cs) : start - 1 <= i
       /\ \A j \in start..(runStr - 1) : cs[j] # "semicolon"
ScanInv(cs, s) ==
  s \in ScanStates(cs) /\ ScanKnows(cs, s.runStr, s.ustate, s.start)

\* The loop has ended.
ScanEnded(cs, s) ==
  \/ s.runStr = Len(cs) + 1
  \/ s.ustate = 1 /\ s.start # 0 /\ cs[s.runStr] = "semicolon"

\* The state as three numbers.
LEMMA ScanState ==
  ASSUME NEW cs \in Seq(Tokens), NEW s \in ScanStates(cs)
  PROVE  /\ s.runStr \in 1..(Len(cs) + 1) /\ s.ustate \in {0, 1}
         /\ s.start \in 0..(Len(cs) + 1) /\ Len(cs) \in Nat
         /\ s = [runStr |-> s.runStr, ustate |-> s.ustate, start |-> s.start]
BY DEF ScanStates

\* A round keeps what the loop knows.
LEMMA ScanRoundInv ==
  ASSUME NEW cs \in Seq(Tokens), NEW s, ScanInv(cs, s)
  PROVE  ScanInv(cs, ScanRound(cs, s))
<1>1. s \in ScanStates(cs) /\ ScanKnows(cs, s.runStr, s.ustate, s.start)
  BY DEF ScanInv
<1> DEFINE r == s.runStr u == s.ustate b == s.start n == Len(cs)
<1>2. /\ r \in 1..(n + 1) /\ u \in {0, 1} /\ b \in 0..(n + 1) /\ n \in Nat
      /\ s = [runStr |-> r, ustate |-> u, start |-> b]
  BY <1>1, ScanState
<1>3. ScanKnows(cs, r, u, b)
  BY <1>1
<1>4. /\ FieldHeads(cs) \subseteq 1..n
      /\ \A i \in 1..n : i \in FieldHeads(cs) <=>
           cs[i] = "key" /\ (i = 1 \/ cs[i - 1] = "semicolon")
  BY <1>2 DEF FieldHeads
<1>5. ASSUME NEW x \in 1..(n + 1), NEW y \in {0, 1}, NEW z \in 0..(n + 1),
             ScanKnows(cs, x, y, z)
      PROVE  ScanInv(cs, [runStr |-> x, ustate |-> y, start |-> z])
  BY <1>5 DEF ScanInv, ScanStates
<1> DEFINE t == ScanRound(cs, s)
<1>6. CASE r > n
  BY <1>1, <1>6 DEF ScanInv, ScanRound
<1>7. CASE r <= n /\ u = 0 /\ cs[r] = "key"
  <2>1. t = [runStr |-> r + 1, ustate |-> 1, start |-> r + 1]
    BY <1>2, <1>7 DEF ScanRound
  <2> HIDE DEF r, u, b, n
  <2>2. r \in FieldHeads(cs) /\ \A i \in FieldHeads(cs) : r <= i
    BY <1>2, <1>3, <1>4, <1>7 DEF ScanKnows
  <2>3. ScanKnows(cs, r + 1, 1, r + 1) /\ r + 1 \in 1..(n + 1)
    BY <1>2, <1>7, <2>2 DEF ScanKnows
  <2> QED
    BY <1>5, <2>1, <2>3
<1>8. CASE r <= n /\ u = 0 /\ cs[r] # "key"
  <2>1. t = [runStr |-> r, ustate |-> 1, start |-> b]
    BY <1>2, <1>8 DEF ScanRound
  <2> HIDE DEF r, u, b, n
  <2>2. b = 0 /\ r \notin FieldHeads(cs) /\ \A i \in FieldHeads(cs) : r <= i
    BY <1>2, <1>3, <1>4, <1>8 DEF ScanKnows
  <2>3. ScanKnows(cs, r, 1, b)
    BY <1>2, <1>4, <2>2 DEF ScanKnows
  <2> QED
    BY <1>2, <1>5, <2>1, <2>3
<1>9. CASE r <= n /\ u = 1 /\ cs[r] # "semicolon"
  <2>1. t = [runStr |-> r + 1, ustate |-> 1, start |-> b]
    BY <1>2, <1>9 DEF ScanRound
  <2> HIDE DEF r, u, b, n
  <2>2. r + 1 \notin FieldHeads(cs)
    BY <1>2, <1>4, <1>9
  <2>3. b = 0 => \A i \in FieldHeads(cs) : i > r + 1
    BY <1>2, <1>3, <1>4, <1>9, <2>2 DEF ScanKnows
  <2>4. b # 0 => \A j \in b..((r + 1) - 1) : cs[j] # "semicolon"
    BY <1>2, <1>3, <1>9 DEF ScanKnows
  <2>5. ScanKnows(cs, r + 1, 1, b) /\ r + 1 \in 1..(n + 1)
    BY <1>2, <1>3, <1>4, <1>9, <2>3, <2>4 DEF ScanKnows
  <2> QED
    BY <1>2, <1>5, <2>1, <2>5
<1>10. CASE r <= n /\ u = 1 /\ cs[r] = "semicolon" /\ b = 0
  <2>1. t = [runStr |-> r + 1, ustate |-> 0, start |-> 0]
    BY <1>2, <1>10 DEF ScanRound
  <2> HIDE DEF r, u, b, n
  <2>2. \A i \in FieldHeads(cs) : i >= r + 1
    BY <1>2, <1>3, <1>4, <1>10 DEF ScanKnows
  <2>3. ScanKnows(cs, r + 1, 0, 0) /\ r + 1 \in 1..(n + 1)
    BY <1>2, <1>10, <2>2 DEF ScanKnows
  <2> QED
    BY <1>2, <1>5, <2>1, <2>3
<1>11. CASE r <= n /\ u = 1 /\ cs[r] = "semicolon" /\ b # 0
  BY <1>11 DEF ScanRound
<1>12. QED
  <2> HIDE DEF r, u, b, n
  <2> QED
    BY <1>2, <1>6, <1>7, <1>8, <1>9, <1>10, <1>11

\* Every round that is not the last brings the loop nearer to its end.
ScanProgress(s) == 2 * (s.runStr - 1) + s.ustate

\* A round ends the loop, or brings it nearer.
LEMMA ScanRoundProgress ==
  ASSUME NEW cs \in Seq(Tokens), NEW s, ScanInv(cs, s)
  PROVE  /\ ScanProgress(s) \in Nat
         /\ \/ ScanEnded(cs, s) /\ ScanRound(cs, s) = s
            \/ /\ ~ScanEnded(cs, s)
               /\ ScanProgress(ScanRound(cs, s)) >= ScanProgress(s) + 1
               /\ ScanProgress(s) < 2 * Len(cs)
<1>1. s \in ScanStates(cs) /\ ScanKnows(cs, s.runStr, s.ustate, s.start)
  BY DEF ScanInv
<1> DEFINE r == s.runStr u == s.ustate b == s.start n == Len(cs)
<1>2. /\ r \in 1..(n + 1) /\ u \in {0, 1} /\ b \in 0..(n + 1) /\ n \in Nat
      /\ s = [runStr |-> r, ustate |-> u, start |-> b]
  BY <1>1, ScanState
<1>3. \A x, y, z : ScanProgress([runStr |-> x, ustate |-> y, start |-> z])
                    = 2 * (x - 1) + y
  BY DEF ScanProgress
<1>4. ScanProgress(s) = 2 * (r - 1) + u
  BY DEF ScanProgress
<1>5. ScanEnded(cs, s) <=>
        r = n + 1 \/ (u = 1 /\ b # 0 /\ cs[r] = "semicolon")
  BY DEF ScanEnded
<1>6. CASE ScanEnded(cs, s)
  BY <1>2, <1>4, <1>5, <1>6 DEF ScanRound
<1>7. CASE ~ScanEnded(cs, s)
  <2>1. /\ r <= n /\ ~(u = 1 /\ b # 0 /\ cs[r] = "semicolon")
    BY <1>2, <1>5, <1>7
  <2>2. \E x \in {r, r + 1}, y \in {0, 1}, z \in {b, r + 1, 0} :
          /\ ScanRound(cs, s) = [runStr |-> x, ustate |-> y, start |-> z]
          /\ x = r + 1 \/ (u = 0 /\ y = 1)
    <3>1. CASE u = 0 /\ cs[r] = "key"
      BY <1>2, <2>1, <3>1 DEF ScanRound
    <3>2. CASE u = 0 /\ cs[r] # "key"
      <4>1. ScanRound(cs, s) = [runStr |-> r, ustate |-> 1, start |-> b]
        BY <1>2, <2>1, <3>2 DEF ScanRound
      <4> QED
        BY <3>2, <4>1
    <3>3. CASE u = 1 /\ cs[r] # "semicolon"
      <4>1. ScanRound(cs, s) = [runStr |-> r + 1, ustate |-> 1, start |-> b]
        BY <1>2, <2>1, <3>3 DEF ScanRound
      <4> QED
        BY <4>1
    <3>4. CASE u = 1 /\ cs[r] = "semicolon"
      BY <1>2, <2>1, <3>4 DEF ScanRound
    <3> QED
      BY <1>2, <3>1, <3>2, <3>3, <3>4
  <2>3. PICK x \in {r, r + 1}, y \in {0, 1}, z \in {b, r + 1, 0} :
          /\ ScanRound(cs, s) = [runStr |-> x, ustate |-> y, start |-> z]
          /\ x = r + 1 \/ (u = 0 /\ y = 1)
    BY <2>2
  <2>4. ScanProgress(ScanRound(cs, s)) = 2 * (x - 1) + y
    BY <1>3, <2>3
  <2> HIDE DEF r, u, b
  <2> QED
    BY <1>2, <1>4, <1>7, <2>1, <2>3, <2>4
<1>8. QED
  BY <1>6, <1>7

\* Two rounds for each token are enough, for every connection string.
LEMMA ScanEnds ==
  ASSUME NEW cs \in Seq(Tokens)
  PROVE  LET end == Scan(cs)[2 * Len(cs)]
         IN ScanInv(cs, end) /\ ScanEnded(cs, end)
<1> DEFINE N == 2 * Len(cs)
           scan == Scan(cs)
           T == {k \in Nat : k <= N =>
                   /\ ScanInv(cs, scan[k])
                   /\ ScanEnded(cs, scan[k]) \/ ScanProgress(scan[k]) >= k}
<1>1. N \in Nat /\ Len(cs) \in Nat
  OBVIOUS
<1>2. IsScan(cs, scan)
  BY ScanExists DEF Scan
<1> HIDE DEF scan, N
<1>3. \A k \in 0..N :
        scan[k] = IF k = 0 THEN ScanStart ELSE ScanRound(cs, scan[k - 1])
  BY <1>2 DEF IsScan, ScanStart, N
<1>4. 0 \in T
  <2>1. scan[0] = ScanStart
    BY <1>1, <1>3
  <2>2. ScanInv(cs, ScanStart) /\ ScanProgress(ScanStart) >= 0
    <3>1. ScanKnows(cs, 1, 0, 0)
      BY <1>1 DEF ScanKnows, FieldHeads
    <3>2. ScanStart \in ScanStates(cs)
      BY <1>1 DEF ScanStart, ScanStates
    <3> QED
      BY <3>1, <3>2 DEF ScanInv, ScanStart, ScanProgress
  <2> QED
    BY <2>1, <2>2
<1>5. ASSUME NEW k \in T PROVE k + 1 \in T
  <2> SUFFICES ASSUME k + 1 <= N
               PROVE  /\ ScanInv(cs, scan[k + 1])
                      /\ \/ ScanEnded(cs, scan[k + 1])
                         \/ ScanProgress(scan[k + 1]) >= k + 1
    OBVIOUS
  <2>1. k \in Nat /\ k + 1 \in 0..N /\ k + 1 # 0 /\ (k + 1) - 1 = k /\ k <= N
    BY <1>1
  <2>2. scan[k + 1] = ScanRound(cs, scan[k])
    BY <1>3, <2>1
  <2>3. /\ ScanInv(cs, scan[k])
        /\ ScanEnded(cs, scan[k]) \/ ScanProgress(scan[k]) >= k
    BY <2>1
  <2>4. ScanInv(cs, scan[k + 1])
    BY <2>2, <2>3, ScanRoundInv
  <2>5. CASE ScanEnded(cs, scan[k])
    <3>1. scan[k + 1] = scan[k]
      BY <2>2, <2>3, <2>5, ScanRoundProgress
    <3> QED
      BY <2>4, <2>5, <3>1
  <2>6. CASE ~ScanEnded(cs, scan[k])
    <3>1. /\ ScanProgress(scan[k + 1]) >= ScanProgress(scan[k]) + 1
      BY <2>2, <2>3, <2>6, ScanRoundProgress
    <3>2. ScanProgress(scan[k]) \in Nat /\ ScanProgress(scan[k + 1]) \in Nat
      BY <2>3, <2>4, ScanRoundProgress
    <3> QED
      BY <2>1, <2>3, <2>4, <2>6, <3>1, <3>2
  <2> QED
    BY <2>5, <2>6
<1>6. T = Nat
  <2> HIDE DEF T
  <2>1. T \in SUBSET Nat
    BY DEF T
  <2> QED
    BY <1>4, <1>5, <2>1, Induction
<1>7. /\ ScanInv(cs, scan[N])
      /\ ScanEnded(cs, scan[N]) \/ ScanProgress(scan[N]) >= N
  BY <1>1, <1>6
<1>8. ScanEnded(cs, scan[N])
  <2>1. ScanProgress(scan[N]) \in Nat
    BY <1>7, ScanRoundProgress
  <2>2. ~ScanEnded(cs, scan[N]) => ScanProgress(scan[N]) < N
    BY <1>7, ScanRoundProgress DEF N
  <2> QED
    BY <1>1, <1>7, <2>1, <2>2
<1>9. QED
  BY <1>7, <1>8 DEF scan, N

\* What Least picks.
LEMMA LeastIs ==
  ASSUME NEW T \in SUBSET Nat, NEW m \in T, \A k \in T : m <= k
  PROVE  Least(T) = m
<1>1. \A i \in T : (\A j \in T : i <= j) => i = m
  OBVIOUS
<1>2. QED
  BY <1>1 DEF Least

\* The scan finds the device's id in every connection string: the first field
\* that begins with DeviceId=, whatever text of whatever fields precedes it, up
\* to the end of that field (IOTHub.ino:317-377).
THEOREM DeviceIdIsFound ==
  \A cs \in Seq(Tokens) : ScannedId(cs) = DeviceIdField(cs)
<1> SUFFICES ASSUME NEW cs \in Seq(Tokens)
             PROVE  ScannedId(cs) = DeviceIdField(cs)
  OBVIOUS
<1>1. PICK s : /\ s = Scan(cs)[2 * Len(cs)]
               /\ ScanInv(cs, s) /\ ScanEnded(cs, s)
  BY ScanEnds
<1> DEFINE r == s.runStr b == s.start n == Len(cs)
<1>2. /\ r \in 1..(n + 1) /\ b \in 0..(n + 1) /\ n \in Nat
      /\ ScanKnows(cs, r, s.ustate, b)
      /\ r = n + 1 \/ (b # 0 /\ cs[r] = "semicolon")
  BY <1>1, ScanState DEF ScanInv, ScanEnded
<1>3. ScannedId(cs) = IF b = 0 THEN <<>> ELSE SubSeq(cs, b, r - 1)
  BY <1>1, ScanIsRun
<1>4. /\ FieldHeads(cs) \subseteq 1..n
      /\ \A i \in FieldHeads(cs) : cs[i] = "key"
  BY <1>2 DEF FieldHeads
<1> HIDE DEF r, b
<1>5. CASE b = 0
  <2>1. FieldHeads(cs) = {}
    BY <1>2, <1>4, <1>5 DEF ScanKnows
  <2> QED
    BY <1>3, <1>5, <2>1 DEF DeviceIdField
<1>6. CASE b # 0
  <2> DEFINE ends == {j \in (b - 1)..n : cs[j] = "semicolon"} \cup {n + 1}
  <2>1. /\ b - 1 \in FieldHeads(cs) /\ b <= r
        /\ \A i \in FieldHeads(cs) : b - 1 <= i
        /\ \A j \in b..(r - 1) : cs[j] # "semicolon"
    BY <1>2, <1>6 DEF ScanKnows
  <2>2. Least(FieldHeads(cs)) = b - 1
    BY <1>2, <1>4, <2>1, LeastIs
  <2>3. b - 1 \in Nat /\ cs[b - 1] = "key"
    BY <1>4, <2>1
  <2>4. r \in ends
    BY <1>2, <2>1
  <2>5. \A j \in ends : r <= j
    BY <1>2, <2>1, <2>3
  <2>6. ends \in SUBSET Nat
    BY <1>2, <2>3
  <2> HIDE DEF ends
  <2>7. Least(ends) = r
    BY <2>4, <2>5, <2>6, LeastIs
  <2>8. DeviceIdField(cs) = SubSeq(cs, (b - 1) + 1, r - 1)
    BY <2>1, <2>2, <2>7 DEF DeviceIdField, ends
  <2>9. (b - 1) + 1 = b
    BY <1>2
  <2> QED
    BY <1>3, <1>6, <2>8, <2>9
<1>7. QED
  BY <1>5, <1>6

\* An id is part of a connection string.
LEMMA DeviceIdType == \A cs \in Seq(Tokens) : ScannedId(cs) \in Seq(Tokens)
<1> SUFFICES ASSUME NEW cs \in Seq(Tokens) PROVE ScannedId(cs) \in Seq(Tokens)
  OBVIOUS
<1>1. PICK s : s = Scan(cs)[2 * Len(cs)] /\ s \in ScanStates(cs)
  BY ScanEnds DEF ScanInv
<1>2. s.runStr \in 1..(Len(cs) + 1) /\ s.start \in 0..(Len(cs) + 1)
      /\ Len(cs) \in Nat
  BY <1>1, ScanState
<1>3. s.start # 0 => SubSeq(cs, s.start, s.runStr - 1) \in Seq(Tokens)
  <2> SUFFICES ASSUME s.start # 0
               PROVE  SubSeq(cs, s.start, s.runStr - 1) \in Seq(Tokens)
    OBVIOUS
  <2>1. \A i \in s.start..(s.runStr - 1) : cs[i] \in Tokens
    BY <1>2
  <2> QED
    BY <1>2, <2>1, SubSeqProperties
<1>4. ScannedId(cs) = IF s.start = 0 THEN <<>>
                        ELSE SubSeq(cs, s.start, s.runStr - 1)
  BY <1>1, ScanIsRun
<1>5. <<>> \in Seq(Tokens)
  OBVIOUS
<1>6. QED
  BY <1>3, <1>4, <1>5

\* The empty string has no field.
LEMMA EmptyHasNoId == DeviceIdField(<<>>) = <<>>
BY DEF DeviceIdField, FieldHeads

\* What GetDeviceId() returns and copies.
LEMMA CopyIs ==
  ASSUME NEW cs \in Seq(Tokens)
  PROVE  LET id == DeviceIdField(cs)
             copy == GetDeviceId(cs, MAX_DEVICE_ID_SIZE)
         IN /\ id \in Seq(Tokens) /\ copy.result = Len(id)
            /\ copy.deviceID \in Seq(Tokens)
            /\ Len(copy.deviceID) = IF Len(id) < 20 THEN Len(id) ELSE 19
            /\ Len(id) < 20 => copy.deviceID = id
<1> DEFINE id == DeviceIdField(cs)
           n == IF Len(id) < 20 THEN Len(id) ELSE 19
<1>1. ScannedId(cs) = id /\ id \in Seq(Tokens)
  BY DeviceIdIsFound, DeviceIdType
<1>2. GetDeviceId(cs, MAX_DEVICE_ID_SIZE)
        = [result |-> Len(id), deviceID |-> SubSeq(id, 1, n)]
  BY <1>1 DEF GetDeviceId, MAX_DEVICE_ID_SIZE
<1> HIDE DEF id
<1>3. n \in 0..Len(id) /\ n \in Nat /\ Len(id) \in Nat
  BY <1>1
<1>4. SubSeq(id, 1, n) \in Seq(Tokens) /\ Len(SubSeq(id, 1, n)) = n
  BY <1>1, <1>3
<1>5. Len(id) < 20 => SubSeq(id, 1, n) = id
  BY <1>1, <1>3
<1>6. QED
  BY <1>1, <1>2, <1>4, <1>5 DEF id

\* Exactly the ids of more than 16 characters overrun ssid[20] of
\* InitAccessPoint(), by one byte to three: GetDeviceId() is told the size of
\* the whole buffer (WIFI.ino:96) and strcat() appends to what it left.
THEOREM OverrunIsExact ==
  \A config \in Configs :
    LET id == DeviceIdField(config.cs) IN
    /\ Overrun(config) \in 0..3
    /\ Overrun(config) > 0 <=> Len(id) > 16
    /\ NameFits(id) => InitAccessPoint(config) = Append(id, "_AP")
<1> SUFFICES ASSUME NEW config \in Configs
             PROVE  LET id == DeviceIdField(config.cs) IN
                    /\ Overrun(config) \in 0..3
                    /\ Overrun(config) > 0 <=> Len(id) > 16
                    /\ NameFits(id) => InitAccessPoint(config) = Append(id, "_AP")
  OBVIOUS
<1> DEFINE cs == config.cs
           id == DeviceIdField(cs)
           copy == GetDeviceId(cs, MAX_DEVICE_ID_SIZE)
<1>1. cs \in Seq(Tokens)
  BY StringAssumption DEF Configs
<1> HIDE DEF cs
<1>2. /\ id \in Seq(Tokens) /\ copy.result = Len(id)
      /\ Len(copy.deviceID) = IF Len(id) < 20 THEN Len(id) ELSE 19
      /\ Len(id) < 20 => copy.deviceID = id
  BY <1>1, CopyIs
<1>3. id # <<>> => cs # <<>>
  BY EmptyHasNoId
<1> HIDE DEF id, copy
<1>4. Len(id) \in Nat /\ (Len(id) = 0 <=> id = <<>>)
  BY <1>2
<1>5. Overrun(config) =
        IF Len(copy.deviceID) = 0 \/ Len(copy.deviceID) + 4 <= 20 THEN 0
        ELSE Len(copy.deviceID) + 4 - 20
  BY DEF Overrun, SuffixSize, MAX_DEVICE_ID_SIZE, copy, cs
<1>6. Overrun(config) \in 0..3 /\ (Overrun(config) > 0 <=> Len(id) > 16)
  <2>1. \A l, k, o \in Int :
          /\ l >= 0 /\ k = (IF l < 20 THEN l ELSE 19)
          /\ o = (IF k = 0 \/ k + 4 <= 20 THEN 0 ELSE k + 4 - 20)
          => o \in 0..3 /\ (o > 0 <=> l > 16)
    OBVIOUS
  <2> DEFINE l == Len(id) k == Len(copy.deviceID) o == Overrun(config)
  <2>2. /\ l >= 0 /\ k = (IF l < 20 THEN l ELSE 19)
        /\ o = (IF k = 0 \/ k + 4 <= 20 THEN 0 ELSE k + 4 - 20)
    BY <1>2, <1>4, <1>5
  <2>3. l \in Int
    BY <1>4
  <2> HIDE DEF l, k, o
  <2>4. k \in Int
    BY <2>2, <2>3
  <2>5. o \in Int
    BY <2>2, <2>4
  <2>6. o \in 0..3 /\ (o > 0 <=> l > 16)
    BY <2>1, <2>2, <2>3, <2>4, <2>5
  <2> QED
    BY <2>6 DEF o, l
<1>7. ASSUME NameFits(id) PROVE InitAccessPoint(config) = Append(id, "_AP")
  <2>1. id # <<>> /\ Len(id) + 4 <= 20
    BY <1>7 DEF NameFits, SuffixSize, MAX_DEVICE_ID_SIZE
  <2>2. cs # <<>> /\ copy.result # 0 /\ copy.deviceID = id
    BY <1>2, <1>3, <1>4, <2>1
  <2> QED
    BY <2>2 DEF InitAccessPoint, copy, cs
<1>8. QED
  BY <1>6, <1>7 DEF id, cs

\* At every boot and for every connection string whose id has at most 16
\* characters, wherever it stands, the access point comes up and is named after
\* the device it configures.
THEOREM AccessPointIsNamed == Spec => NamedAfterDevice
<1>1. IInv /\ [Next]_vars =>
        [pc = "off" /\ AP' /\ NameFits(DeviceIdField(DeviceConfig'.cs)) =>
           /\ pc' = "run" /\ overrun' = 0
           /\ softAP' = Append(DeviceIdField(DeviceConfig'.cs), "_AP")]_vars
  <2> SUFFICES ASSUME IInv, Next, pc = "off", AP',
                      NameFits(DeviceIdField(DeviceConfig'.cs))
               PROVE  /\ pc' = "run" /\ overrun' = 0
                      /\ softAP' = Append(DeviceIdField(DeviceConfig'.cs), "_AP")
    OBVIOUS
  <2>1. PICK config \in Configs : Boot(config)
    BY BlankIsConfig
    DEF IInv, MemoryTypeOK, Next, Load, LoadNothing, LoadFails, OpenForWriting,
        OpenFails, PrintConfig, Reset, Crash, handleSubmit, handleSetupSubmit,
        Delay, ClearWIFI, ConfigInterval, Served, vars
  <2>2. /\ DeviceConfig' = config /\ softAP' = InitAccessPoint(config)
        /\ overrun' = Overrun(config)
        /\ pc' = "run" \/ overrun' > 0
    BY <2>1 DEF Boot
  <2>3. NameFits(DeviceIdField(config.cs))
    BY <2>2
  <2>4. Len(DeviceIdField(config.cs)) <= 16
    <3>1. config.cs \in Seq(Tokens)
      BY StringAssumption DEF Configs
    <3>2. Len(DeviceIdField(config.cs)) \in Nat
      BY <3>1, CopyIs
    <3> QED
      BY <2>3, <3>2 DEF NameFits, SuffixSize, MAX_DEVICE_ID_SIZE
  <2>5. /\ Overrun(config) \in 0..3
        /\ Overrun(config) > 0 <=> Len(DeviceIdField(config.cs)) > 16
        /\ InitAccessPoint(config) = Append(DeviceIdField(config.cs), "_AP")
    BY <2>3, OverrunIsExact
  <2>6. Len(DeviceIdField(config.cs)) \in Nat
    BY CopyIs, StringAssumption DEF Configs
  <2>7. Overrun(config) = 0
    BY <2>4, <2>5, <2>6
  <2> QED
    BY <2>2, <2>5, <2>7
<1>2. QED
  BY <1>1, InitInv, NextInv, PTL DEF Spec, NamedAfterDevice

-----------------------------------------------------------------------------
(* The types.                                                              *)

Names == Seq(Tokens \cup {"_AP"})

\* Each event that may destroy a configuration is a fault.
HistoryTypeOK ==
  /\ AP \in BOOLEAN /\ resetDevice \in BOOLEAN
  /\ softAP \in {<<"none">>, <<"kept">>, <<"default">>} \cup Names
  /\ overrun \in 0..3
  /\ entered \subseteq ConnectionStrings
  /\ causes \in Nat /\ faults \in 0..MaxFaults /\ causes <= faults
  /\ edits \in 0..MaxEdits

\* A step that counts a cause counts a fault.
LEMMA HistoryTypes == IInv /\ HistoryTypeOK /\ [Next]_vars => HistoryTypeOK'
<1> SUFFICES ASSUME IInv, HistoryTypeOK, [Next]_vars PROVE HistoryTypeOK'
  OBVIOUS
<1> USE StringAssumption DEF HistoryTypeOK, deviceVars
<1>1. ASSUME NEW config \in Configs, Boot(config)
      PROVE  /\ AP' \in BOOLEAN /\ resetDevice' \in BOOLEAN
             /\ softAP' \in {<<"none">>, <<"kept">>, <<"default">>} \cup Names
             /\ overrun' \in 0..3
             /\ UNCHANGED <<entered, edits>>
  <2> DEFINE copy == GetDeviceId(config.cs, MAX_DEVICE_ID_SIZE)
  <2>1. config.cs \in Seq(Tokens)
    BY DEF Configs
  <2>2. InitAccessPoint(config) \in {<<"kept">>, <<"default">>} \cup Names
    <3>1. copy.deviceID \in Seq(Tokens)
      BY <2>1, CopyIs
    <3> HIDE DEF copy
    <3>2. copy.deviceID \in Names /\ "_AP" \in Tokens \cup {"_AP"}
      BY <3>1 DEF Names
    <3>3. Append(copy.deviceID, "_AP") \in Names
      BY <3>2, AppendProperties DEF Names
    <3> QED
      BY <3>3 DEF InitAccessPoint, copy
  <2>3. Overrun(config) \in 0..3
    BY OverrunIsExact
  <2>4. /\ AP' \in BOOLEAN /\ resetDevice' \in BOOLEAN
        /\ UNCHANGED <<entered, edits>>
    BY <1>1 DEF Boot
  <2>5. softAP' \in {<<"none">>, <<"kept">>, <<"default">>} \cup Names
    BY <1>1, <2>2 DEF Boot
  <2>6. overrun' \in 0..3
    BY <1>1, <2>3 DEF Boot
  <2> QED
    BY <2>4, <2>5, <2>6
<1>2. CASE Load \/ LoadNothing \/ LoadFails
  <2>1. PICK config \in Configs : Boot(config)
    BY <1>2, BlankIsConfig DEF IInv, MemoryTypeOK, Load, LoadNothing, LoadFails
  <2>2. \/ UNCHANGED <<causes, faults>>
        \/ causes' = causes + 1 /\ faults' = faults + 1 /\ faults < MaxFaults
    BY <1>2 DEF Load, LoadNothing, LoadFails, Fault, NoFault
  <2> QED
    BY <1>1, <2>1, <2>2
<1>3. CASE OpenForWriting \/ PrintConfig \/ Reset \/ Delay
  BY <1>3 DEF OpenForWriting, PrintConfig, Reset, Delay, NoFault
<1>4. CASE OpenFails \/ Crash
  BY <1>4 DEF OpenFails, Crash, Fault
<1>5. CASE handleSubmit \/ ClearWIFI \/ ConfigInterval
  <2>1. /\ UNCHANGED <<AP, softAP, overrun, entered, causes, faults>>
        /\ edits' = edits + 1 /\ edits < MaxEdits
        /\ resetDevice' \in BOOLEAN
    BY <1>5 DEF handleSubmit, ClearWIFI, ConfigInterval, Edit, NoFault
  <2> QED
    BY <2>1
<1>6. CASE handleSetupSubmit
  BY <1>6 DEF handleSetupSubmit, Edit, NoFault
<1>7. CASE UNCHANGED vars
  BY <1>7 DEF vars
<1>8. QED
  BY <1>2, <1>3, <1>4, <1>5, <1>6, <1>7 DEF Next

\* Every variable keeps its type: what is in RAM and in flash is a configuration
\* or nothing, and the access point has a name of its own or part of what was
\* entered.
THEOREM TypeCorrect == Spec => []TypeOK
<1>1. Init => HistoryTypeOK
  <2> SUFFICES ASSUME Init PROVE HistoryTypeOK
    OBVIOUS
  <2>1. Provisioned \in ConnectionStrings
    BY StringAssumption DEF Init, Provisioned, Configs
  <2>2. AP \in BOOLEAN /\ resetDevice \in BOOLEAN
    BY DEF Init
  <2>3. /\ softAP \in {<<"none">>, <<"kept">>, <<"default">>} \cup Names
        /\ overrun \in 0..3
    BY DEF Init
  <2>4. /\ causes \in Nat /\ faults \in 0..MaxFaults /\ causes <= faults
        /\ edits \in 0..MaxEdits /\ entered = {Provisioned}
    BY StringAssumption DEF Init
  <2> QED
    BY <2>1, <2>2, <2>3, <2>4 DEF HistoryTypeOK
<1>2. IInv /\ HistoryTypeOK => TypeOK
  BY StringAssumption DEF IInv, MemoryTypeOK, HistoryTypeOK, TypeOK, Names
<1>3. QED
  BY <1>1, <1>2, InitInv, NextInv, HistoryTypes, PTL DEF Spec
=============================================================================
