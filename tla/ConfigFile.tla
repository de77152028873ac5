----------------------------- MODULE ConfigFile -----------------------------
(***************************************************************************)
(* /config.json and everything that writes it: the two forms of the access  *)
(* point, the reset switch, and the commands ClearWIFI and ConfigInterval.  *)
(* Each saves the whole of DeviceConfig as it is in RAM.  saveConfig() opens *)
(* the file with "w", which empties it, and prints: a reset in between      *)
(* leaves a file that does not parse.  DeviceState has the save as one      *)
(* step and the connection string as present or absent; here the steps and  *)
(* the string are apart.                                                    *)
(***************************************************************************)
EXTENDS Integers, Sequences

CONSTANTS
  ConnectionStrings,  \* what may be entered, in Tokens; <<>> is the empty one
  Intervals,          \* values of the intervals, all five together
  MaxEdits,           \* bound: submissions, clears and commands
  MaxFaults,          \* bound: faults in one behaviour
  Torn                \* a file cut short, or missing: it does not parse

\* What GetDeviceId() tells apart: the nine characters "DeviceId=", and single
\* characters: ";", and two that stand for all others.
Tokens == {"key", "semicolon", "a", "b"}

ASSUME StringAssumption ==
  /\ ConnectionStrings \subseteq Seq(Tokens) /\ <<>> \in ConnectionStrings
  /\ 0 \in Intervals /\ MaxEdits \in Nat /\ MaxFaults \in Nat
  /\ Torn \notin [cs : ConnectionStrings, ssid : BOOLEAN, interval : Intervals]

VARIABLES
  pc,            \* "off"; "run": setup() or loop(); "delay": the 2 s of
                 \* handleSetupSubmit(); "save", "write": in saveConfig()
  configFile,
  DeviceConfig, AP, resetDevice,
  softAP,        \* the access point's name; see InitAccessPoint
  overrun,       \* bytes the last boot wrote behind the buffer of that name
  \* history: the connection strings the device was given; the events that may
  \* destroy a configuration; the two budgets
  entered, causes, edits, faults

deviceVars == <<DeviceConfig, AP, resetDevice, softAP, overrun>>
vars == <<pc, configFile, deviceVars, entered, causes, edits, faults>>

Configs == [cs : ConnectionStrings, ssid : BOOLEAN, interval : Intervals]
Blank == [cs |-> <<>>, ssid |-> FALSE, interval |-> 0]

TypeOK ==
  /\ pc \in {"off", "run", "delay", "save", "write"}
  /\ configFile \in Configs \cup {Torn}
  /\ DeviceConfig \in Configs
  /\ AP \in BOOLEAN /\ resetDevice \in BOOLEAN
  /\ softAP \in {<<"none">>, <<"kept">>, <<"default">>}
                \cup Seq(Tokens \cup {"_AP"})
  /\ overrun \in 0..3
  /\ entered \subseteq ConnectionStrings
  /\ causes \in 0..MaxFaults
  /\ edits \in 0..MaxEdits /\ faults \in 0..MaxFaults

\* The connection string in flash; a file that does not parse has none.
Provisioned == IF configFile = Torn THEN <<>> ELSE configFile.cs

\* A device is delivered with a file or without one.
Init ==
  /\ pc = "off" /\ configFile \in Configs \cup {Torn}
  /\ DeviceConfig = Blank /\ AP = FALSE /\ resetDevice = FALSE
  /\ softAP = <<"none">> /\ overrun = 0 /\ entered = {Provisioned}
  /\ causes = 0 /\ edits = 0 /\ faults = 0

Fault == faults < MaxFaults /\ faults' = faults + 1
NoFault == faults' = faults
Edit == edits < MaxEdits /\ edits' = edits + 1

-----------------------------------------------------------------------------
(* The access point's name.                                                *)

\* Mutant: a field that is no DeviceId does not end the search.
ScanRoundAnywhere(cs, s) ==
  IF s.runStr > Len(cs) THEN s
  ELSE IF s.ustate = 0
       THEN IF cs[s.runStr] = "key"
            THEN [runStr |-> s.runStr + 1, ustate |-> 1, start |-> s.runStr + 1]
            ELSE [s EXCEPT !.runStr = @ + 1]
  ELSE IF cs[s.runStr] = "semicolon" THEN s
  ELSE [s EXCEPT !.runStr = @ + 1]

\* A round of GetDeviceId()'s loop, which changes nothing once it has ended: at
\* '\0', or at the ";" after the id.  In state 0 a field begins at runStr; in
\* state 1 runStr is inside a field.  start is where the id begins, 0 for NULL.
ScanRound(cs, s) ==
  IF s.runStr > Len(cs) THEN s
  ELSE IF s.ustate = 0
       THEN IF cs[s.runStr] = "key"
            THEN [runStr |-> s.runStr + 1, ustate |-> 1, start |-> s.runStr + 1]
            ELSE [s EXCEPT !.ustate = 1]
  ELSE IF cs[s.runStr] # "semicolon" THEN [s EXCEPT !.runStr = @ + 1]
  ELSE IF s.start = 0 THEN [runStr |-> s.runStr + 1, ustate |-> 0, start |-> 0]
  ELSE s

\* The id the loop finds.  Two rounds for each token are enough: see ScanEnds in
\* ConfigFileProofs.
ScannedId(cs) ==
  LET scan[k \in 0..(2 * Len(cs))] ==
        IF k = 0 THEN [runStr |-> 1, ustate |-> 0, start |-> 0]
                 ELSE ScanRound(cs, scan[k - 1])
      end == scan[2 * Len(cs)]
  IN IF end.start = 0 THEN <<>> ELSE SubSeq(cs, end.start, end.runStr - 1)

\* A token of an id is one character: no id holds "DeviceId=" in itself.
ASSUME IdAssumption ==
  \A cs \in ConnectionStrings : \A i \in DOMAIN ScannedId(cs) : ScannedId(cs)[i] # "key"

\* The result is the length of the whole id; no more than size - 1 characters of
\* it, and '\0', are copied to deviceID.
GetDeviceId(cs, size) ==
  LET id == ScannedId(cs) IN
  [result |-> Len(id),
   deviceID |-> SubSeq(id, 1, IF Len(id) < size THEN Len(id) ELSE size - 1)]

MAX_DEVICE_ID_SIZE == 20    \* the buffer of InitAccessPoint()
SuffixSize == 4             \* strcat() writes "_AP" and '\0'

\* InitAccessPoint(): without a connection string the default name, else the id
\* as it was copied with "_AP"; if there is none softAP() is not called, and
\* the chip keeps whatever name it had.
InitAccessPoint(config) ==
  LET id == GetDeviceId(config.cs, MAX_DEVICE_ID_SIZE) IN
  IF config.cs = <<>> THEN <<"default">>
  ELSE IF id.result = 0 THEN <<"kept">>
  ELSE Append(id.deviceID, "_AP")

\* The bytes strcat() writes behind the 20 of ssid: the copy leaves no room for
\* what is appended.
Overrun(config) ==
  LET used == Len(GetDeviceId(config.cs, MAX_DEVICE_ID_SIZE).deviceID) IN
  IF used = 0 \/ used + SuffixSize <= MAX_DEVICE_ID_SIZE THEN 0
  ELSE used + SuffixSize - MAX_DEVICE_ID_SIZE

-----------------------------------------------------------------------------
(* Boot and save.                                                          *)

\* setup(): a load that fails, for whatever reason, leaves DeviceConfig blank.
\* What lies behind ssid is undefined: a boot that writes there goes on, or ends
\* in an exception and a restart.
Boot(config) ==
  /\ pc = "off"
  /\ DeviceConfig' = config
  /\ AP' = (config.cs = <<>> \/ ~config.ssid)
  /\ softAP' = (IF AP' THEN InitAccessPoint(config) ELSE <<"none">>)
  /\ overrun' = (IF AP' THEN Overrun(config) ELSE 0)
  /\ pc' = "run" \/ (overrun' > 0 /\ pc' = "off")
  /\ resetDevice' = FALSE
  /\ UNCHANGED <<configFile, entered, edits>>

Load == /\ configFile # Torn /\ Boot(configFile)
        /\ NoFault /\ UNCHANGED causes
LoadNothing == /\ configFile = Torn /\ Boot(Blank)
               /\ NoFault /\ UNCHANGED causes
LoadFails == /\ configFile # Torn /\ Boot(Blank)
             /\ Fault /\ causes' = causes + 1

\* saveConfig(): SPIFFS.open(.., "w") and json.printTo().
OpenForWriting ==
  /\ pc = "save" /\ pc' = "write"
  /\ configFile' = Torn
  /\ NoFault /\ UNCHANGED <<deviceVars, entered, causes, edits>>

OpenFails ==
  /\ pc = "save" /\ pc' = "run"
  /\ Fault /\ UNCHANGED <<configFile, deviceVars, entered, causes, edits>>

PrintConfig ==
  /\ pc = "write" /\ pc' = "run"
  /\ configFile' = DeviceConfig
  /\ NoFault /\ UNCHANGED <<deviceVars, entered, causes, edits>>

\* loop() resets the device some rounds after resetDevice was set; until then
\* more submissions may come.  A station also sleeps, or restarts in connect().
Reset ==
  /\ pc = "run" /\ (resetDevice \/ ~AP)
  /\ pc' = "off"
  /\ NoFault
  /\ UNCHANGED <<configFile, deviceVars, entered, causes, edits>>

\* The battery fails, the watchdog bites: at any point.
Crash ==
  /\ pc # "off" /\ pc' = "off"
  /\ Fault /\ causes' = causes + (IF pc = "write" THEN 1 ELSE 0)
  /\ UNCHANGED <<configFile, deviceVars, entered, edits>>

-----------------------------------------------------------------------------
(* What changes DeviceConfig.                                              *)

Served == pc = "run" /\ AP

\* Mutant: the form's other fields are saved as the form has them, empty.
handleSubmitAfresh ==
  /\ Served /\ Edit /\ pc' = "save"
  /\ \E filled \in BOOLEAN : DeviceConfig' = [Blank EXCEPT !.ssid = filled]
  /\ resetDevice' = TRUE
  /\ NoFault /\ UNCHANGED <<configFile, AP, softAP, overrun, entered, causes>>

handleSubmit ==
  /\ Served /\ Edit /\ pc' = "save"
  /\ \E filled \in BOOLEAN :
       DeviceConfig' = [DeviceConfig EXCEPT !.ssid = filled]
  /\ resetDevice' = TRUE
  /\ NoFault /\ UNCHANGED <<configFile, AP, softAP, overrun, entered, causes>>

\* Mutant: the new connection string is appended to the old one.
handleSetupSubmitAppending ==
  /\ Served /\ Edit /\ pc' = "delay"
  /\ \E cs \in ConnectionStrings :
       /\ DeviceConfig' = [DeviceConfig EXCEPT !.cs = @ \o cs]
       /\ entered' = entered \cup {cs}
  /\ resetDevice' = TRUE
  /\ NoFault /\ UNCHANGED <<configFile, AP, softAP, overrun, causes>>

\* The delay(2000) comes before the save.
handleSetupSubmit ==
  /\ Served /\ Edit /\ pc' = "delay"
  /\ \E cs \in ConnectionStrings :
       /\ DeviceConfig' = [DeviceConfig EXCEPT !.cs = cs]
       /\ entered' = entered \cup {cs}
  /\ resetDevice' = TRUE
  /\ NoFault /\ UNCHANGED <<configFile, AP, softAP, overrun, causes>>

Delay ==
  /\ pc = "delay" /\ pc' = "save"
  /\ NoFault /\ UNCHANGED <<configFile, deviceVars, entered, causes, edits>>

\* CheckWIFIReset() after a long hold, in either mode, and the command.
ClearWIFI ==
  /\ pc = "run" /\ Edit /\ pc' = "save"
  /\ DeviceConfig' = [DeviceConfig EXCEPT !.ssid = FALSE]
  /\ resetDevice' = TRUE
  /\ NoFault /\ UNCHANGED <<configFile, AP, softAP, overrun, entered, causes>>

\* ReceiveMessageCallback() with properties: a ConfigInterval, or a command it
\* does not know, for which commandID is what the stack held.
ConfigInterval ==
  /\ pc = "run" /\ ~AP /\ Edit /\ pc' = "save"
  /\ \E i \in Intervals : DeviceConfig' = [DeviceConfig EXCEPT !.interval = i]
  /\ NoFault
  /\ UNCHANGED <<configFile, AP, resetDevice, softAP, overrun, entered, causes>>

Next ==
  \/ Load \/ LoadNothing \/ LoadFails
  \/ OpenForWriting \/ OpenFails \/ PrintConfig \/ Reset \/ Crash
  \/ handleSubmit \/ handleSetupSubmit \/ Delay \/ ClearWIFI \/ ConfigInterval

Spec == Init /\ [][Next]_vars

-----------------------------------------------------------------------------
(* The JSON buffer of saveConfig(): ArduinoJson keeps an object, a node for  *)
(* each of nine members, and a copy of each string that is a char array,     *)
(* each rounded up to words.  A member that does not fit is left out.        *)

BufferCapacity == 400
ObjectSize == 8
NodeSize == 16
Members == 9
Padded(bytes) == ((bytes + 3) \div 4) * 4
Allocated(csLen, snLen, spLen) ==
  ObjectSize + Members * NodeSize
    + Padded(csLen + 1) + Padded(snLen + 1) + Padded(spLen + 1)

\* The longest strings: the arrays of struct Config for the connection string
\* and the passphrase, the standard's 32 bytes for the network's name.
CSLengths == 0..179
SNLengths == 0..32
SPLengths == 0..31

-----------------------------------------------------------------------------
(* Properties.                                                             *)

\* Outside saveConfig() the file holds a connection string the device was given:
\* clearing the network, submitting it, changing the intervals, failed saves,
\* sleeps and crashes do not touch it.  Two things can: a crash between open
\* and print, and a save on top of a load that failed.
ProvisioningSurvives ==
  causes = 0 /\ pc # "write" => Provisioned \in entered

\* The reference for the scan: the first field that begins with DeviceId=, up
\* to the end of that field.
FieldHeads(cs) == {i \in DOMAIN cs : /\ cs[i] = "key"
                                     /\ i = 1 \/ cs[i - 1] = "semicolon"}
Least(S) == CHOOSE i \in S : \A j \in S : i <= j
DeviceIdField(cs) ==
  IF FieldHeads(cs) = {} THEN <<>>
  ELSE LET first == Least(FieldHeads(cs))
           ends == {j \in first..Len(cs) : cs[j] = "semicolon"} \cup {Len(cs) + 1}
       IN SubSeq(cs, first + 1, Least(ends) - 1)

\* The longest id that InitAccessPoint()'s buffer holds with "_AP" and '\0'.
NameFits(id) == id # <<>> /\ Len(id) + SuffixSize <= MAX_DEVICE_ID_SIZE

\* The access point carries the id of the device it configures, so that the
\* installer finds this dispenser and no other: every boot with an id of at most
\* 16 characters comes up, names the access point after it and writes nothing
\* behind the buffer; the id is found wherever its field stands, and text that
\* only looks like the key inside another field is not taken for it.  A longer
\* id does not fit (OverrunIsExact in ConfigFileProofs).
NamedAfterDevice ==
  [][pc = "off" /\ AP' /\ NameFits(DeviceIdField(DeviceConfig'.cs)) =>
       /\ pc' = "run" /\ overrun' = 0
       /\ softAP' = Append(DeviceIdField(DeviceConfig'.cs), "_AP")]_vars
=============================================================================
