# A verification project for the Funnel Dispenser firmware

The firmware is an Arduino sketch for an ESP8266. A dispenser wakes every ten
minutes, measures the level of its contents (VL6180X), temperature and humidity
(BME280), and sleeps again. It reports to an Azure IoT hub only by exception:
when a reading differs by more than a threshold from what it last reported, or
when a heartbeat is due. A device without a configuration is an access point
with two forms. A switch, held long enough, makes it forget its network.

The sketch has no threads. What makes it hard is that three kinds of memory with
three lifetimes (RAM, RTC memory, flash) are updated at different points of a
long function that can be left at many places, that the network, the hub and the
switch act between any two of them, and that `loop()` runs callbacks from inside
`IoTHubClient_LL_DoWork()` that change the very flags it is about to test. Below
it, an HTTP client with three nested levels of recovery repeats requests over
the one TLS socket the chip can hold.

## Inventory

| component | source | state | operations | correct when |
|---|---|---|---|---|
| Boot | `FunnelDispenser.ino` `setup()` | `AP`, `hubConnected`, sensor flags, `Counter` | mount, load, hold, mode, sensors, join, clock, hub | only a configured device becomes a station; every boot ends in `loop()` or in a sleep |
| Report by exception | `loop()` | `rtcData`, `DeviceData`, `Critical_Flag`, `Run_Flag`, `previousSendMillis` | compare, take baseline, report, decide to sleep, write RTC memory | the hub is in time, in sync, not told without a reason; every wake ends |
| Reset switch | `WIFIReset.ino`, six call sites | `WIFIResetCount`, `resetDevice`, `resetCount` | count, clear the network, count to the reset | a cleared network always ends in a reset; the counts never step over their limits |
| WiFi station | `WIFI.ino` `connect()` | `WIFIConnectionTryCnt` | join, retry, restart | a hold is honoured while the join fails |
| Configuration | `Config.ino` | `DeviceConfig`, `/config.json` | load, save | flash holds what was last submitted, whatever crashes |
| Access point, web server | `WIFI.ino`, `WebServer.ino` | `AP`, `resetDevice` | name, pages, `handleSubmit`, `handleSetupSubmit` | it is named after its device, if the name fits; a submission takes effect |
| Hub messages | `IOTHub.ino` | `messagePending` | compose, queue, confirm, receive a command | the flag tells whether the list holds a message; the date is one the clock showed |
| Hub client, HTTP transport | `iothub_client_ll.c`, `iothubtransporthttp.c` | `waitingToSend`, `lastPollTime`, `isFirstPoll`, `etagValue` | SendEventAsync, DoWork: DoEvent, DoMessages, accept, abandon | messages in order and at least once, confirmed after receipt; commands deleted after execution |
| HTTP client, TLS adapter | `httpapiex.c`, `httpapi_compact.c`, `tlsio_arduino.c` | `k`, `st`, `is_connected`, `received_bytes`, the adapter's state, `sslClient` | create, open, send, receive, close, three levels of recovery | no stale answer, no leaked socket, failure only for cause, and an end |
| Network time | `Time.ino`, `libraries/Time` | `sysTime`, `prevMillis`, `nextSyncTime` | `now()`, sync, `setTime()`, year | never ahead, late by a bounded time, set again in time |
| Sensors | `Distance.ino`, `Environment.ino` | `DeviceData` | read | - |
| Battery, LEDs, pages | `Battery.ino`, `LEDs.ino`, `data/` | durations, timers | display | - |

How they interact: `setup()` and `loop()` call everything; `loop()` calls the
hub client's DoWork, which posts the head of `waitingToSend` and runs
`OnMessageSentCallback()`, then polls and runs `ReceiveMessageCallback()`, which
may queue again, clear the configuration or ask for a reset. `loop()` reads back
what the callbacks left in `messagePending` and `resetDevice`. Each request of
DoWork is one blocking call of `HTTPAPIEX_ExecuteRequest()`, which may make
several connections. RTC memory is the only channel from one wake to the next
that reporting uses, flash the only one configuration uses; the clock starts
from nothing at every boot.

The hard behaviours, each at its line, are the `hazards` of `PROJECT.json`.

## Modules

    DeviceState          constants, variables, helpers both halves call
      |        \
    Setup      Loop      setup(); loop() with its callbacks
      \        /
     Dispenser           Init, the world, Next, Spec, FairSpec, the properties
      /      \
    MCDispenser  DispenserProofs                  values for TLC; types
                  /       |        \
        QueueProofs  SetupProofs  ReportProofs    queue; provisioning; reports

    HttpCall             what one HTTP call promises (abstract)
      ^   \
      |    HubClient     queue, poll, acceptance: built on the promise
      |        \_____ implements Outbox (abstract)      HubClientProofs
    HttpApi              the HTTP client, connection by connection: implements
                         HttpCall                       HttpApiProofs

    ConfigFile           /config.json, step by step      ConfigFileProofs
    NetClock             now() and getNtpTime()          NetClockProofs

**DeviceState** declares the variables and marks for each the memory it lives in.
`CheckWIFIReset`, `SaveConfig`, `QueueMessage`, `GetDistance`,
`SetEnvironment` are the functions of those names. `Restart(next)` is every way
to lose RAM (deep sleep, `ESP.reset()`, `ESP.restart()`, power): it gives all
RAM the values of its initialisers and of lines 52-74 of `setup()`.

**Setup** has one action for each stretch of `setup()` between two points at
which the world is consulted; `pc` names the stretch. `HoldSwitch` is one turn
of a `while(digitalRead(...) == LOW) CheckWIFIReset();`, and the read inside
`CheckWIFIReset()` is a read of its own: it may already be HIGH.

**Loop** follows the text of `loop()`:

    loop -> block -> reset -> serve -> event -> sent -> poll -> decide

`loop` is the condition of lines 207-233, `block`..`poll` the body of the `if`,
`event` the POST, `sent` the running callback, `poll` the hub's commands,
`decide` lines 385-407. `ReadAndCompare` keeps the order of the condition of
line 207: RTC memory is read, and `rtcData` replaced, before `Run_Flag` and
`messagePending` are looked at.

**Dispenser** adds the world: the sleep timer (`Wake`), the measured quantities
(`Drift`), loss of supply (`PowerLoss`), and the properties. History variables,
read by no action: `hubView` (what the hub last received), `quiet` (sleeps since
then), `wake` (reports, failed POSTs and switch presses since the last boot), and
the budgets `faults` and `commands`.

**HttpCall** is the promise of one call, in six actions: the hub carries the
request out at most three times; `HTTPAPI_OK` means that the answer to the last
execution has been read; only answers to the last execution are ever read into
the response headers, which the executions of one call share.

**HttpApi** is the code behind it. `pc` is `try` at the head of the resilient
loop of `httpapiex.c` and otherwise the stage `HTTPAPI_ExecuteRequest()` has
reached; `k` and `st` are that loop's level and its array of what has been tried;
`Onward` and `Back` are its two directions. `HTTPAPI_Init`,
`HTTPAPI_CreateConnection`, `CloseConnection`, `OpenXIOConnection`,
`SendHeadsToXIO`, `SendContentToXIO`, `ReceiveStatus`, `ReceiveHeader`,
`ReceiveSize` and `ReceiveBlock` are the functions of those or similar names.
An answer travels as a sequence of units, a line or a block of content each,
first under way (`coming`) and then in `received`; a unit remembers the execution
it answers. A connection may drop, or go silent, between any two steps.

**HubClient** has the two halves of DoWork and the hub. It extends HttpCall: its
`DoEvent`, `DoMessages` and `AcceptMessage` begin a call, the hub's actions are
the call's `Execute`, `ReadHeader` its `Gather`, and what ends a step of DoWork is
its `Return` or `GiveUp`. Above them stands what `loop()` leaves the client of its
time. DoWork is called only from inside the block of line 233 (line 374), so a
wake is `block` -> `dowork` -> `event` -> `messages` -> `poll` -> `idle`, once per
round; `Wake` is a wake that finds a report due, `SendReport` a round that queues
it, `AwaitReport` one that does not: `Init_Time` is not over, or `messagePending`
is up, which a press of the switch raises too. From `idle` the device goes to
`Sleep` when line 385 lets it, which is no fault and loses all that is in RAM, or
to the `NextRound`. Or it is left `stranded`: the readings and the stored baseline
agree before the sleep is allowed, line 233 is false from then on, and nothing
calls DoWork again. Loop has the causes of each; here they are choices, and a
client that refuses the report, or a report beyond `MaxEvents`, is a `SendReport`
that queues nothing. A round that counts towards a reset and is refused its report
is not told apart from one that waits; the reset is `Restart`. The hub locks a
command when it hands it out; the lock expires after a minute. An answer without
a usable ETag is passed over (`AnswerUnusable`), one that makes no message is given
back to the hub (`AbandonMessage`). Since the ETag lines of two executions are run together,
`etagValue` is the set of locks named in the headers, and a DELETE names a lock
only if the set has one member. What the POST, the GET and the DELETE say is the
code's; what the hub does with them is taken from how the code reads its answers.

**Outbox** is what the sketch may rely on: messages are received in order, each
as often as it takes; one is confirmed once, after its receipt; only what empties
RAM, a reset or a sleep, loses one.

**ConfigFile** takes `saveConfig()` apart (open with `"w"`, which empties the
file; print) and lets the device crash in between, in the two seconds of
`handleSetupSubmit()`, and anywhere else. It also has the name of the access
point. `ScannedId` iterates `ScanRound`, a round of the two-state loop of
`IOTHub.ino:317-356`, over a string whose tokens are the text `DeviceId=` and
single characters: a semicolon, and two that stand for all others. So an id has
its length, and `GetDeviceId` returns what the code does: the length of the whole
id, and the 19 characters of it that `IOTHub.ino:367` copies into the 20 bytes of
`ssid` (`WIFI.ino:86`). `InitAccessPoint` appends `_AP` to them, and `Overrun` is
the number of bytes that `strcat()` (`WIFI.ino:98`) writes behind the buffer in
doing so: none up to an id of 16 characters, then 1, 2 and 3. The code has no
check, so **a device id of 17 characters or more overruns the stack**, and one of
20 or more is cut besides. The model does not say what lies behind the buffer: a
boot that writes there goes on, or ends in an exception and a restart.

**NetClock** has `now()` as the procedure it is: `caller` says which of its call
sites it returns to, and inside it `getNtpTime()` discards packets, resolves the
server's name, sends, and waits 1500 ms. Time is in ticks of half a second;
`millis()` wraps at a number of ticks that is no whole number of seconds, as
2^32 ms is not. Packets may be lost, late, crossed, or carry no time.

### What is abstracted

* A reading is a small integer per channel; garbage in RTC memory is an integer
  or `NaN`, a value that compares with nothing. Doubles are not rounded: the
  sketch only subtracts them and compares with 2.
* In Dispenser a configuration is whether each of its two strings is non-empty,
  and a save is one step; ConfigFile has the string and the steps. The five
  intervals, which nothing reads, are one value there.
* A fault is a choice of the world, at most `MaxFaults` times. In Dispenser it
  has a name: a POST that fails (`post`) or whose answer is lost (`unacked`), a
  message the client refuses (`queue`), a client that cannot be created (`hub`),
  a sensor that does not begin (`sensor`), a save or a load that fails (`save`,
  `load`), an NTP request that fails (`ntp`), a file system that does not mount
  (`fs`), loss of supply (`power`). `wifi` makes joining take rounds and is not
  counted.
* `elapsed` is `millis() - previousSendMillis` in units of the loop's 500 ms,
  stopped at `InitRounds`, beyond which the code makes no difference. A round
  may take longer than one unit.
* The 25 minutes between two polls of the hub: in Loop whether a poll happens and
  brings a command is the world's choice; in HubClient `pollDue`.
* A refused POST is retried at the next DoWork; the transport never confirms an
  error for a message below 255 KB, and the sketch's are below 512 bytes.
* The sensors not begun in a wake whose file system did not mount answer as
  absent ones; the difference cannot reach the hub, to which such a wake does
  not connect.
* Of an HTTP answer only its shape is kept: the status line, header lines, which
  of them announces content, the content in one block or in chunks. A line that is
  garbled or too long, a length that is no number and a missing CRLF behind a
  chunk are one action, `NotAnHttpAnswer`, at the stage that reads them: all end
  in the same failure, at the price of a fault. The text of
  headers, the tokens of authorisation and an exhausted heap are left out.
* The date of a message has two fields, minute and second, a quotient and a
  remainder; the calendar is the same arithmetic once more.

## What the runs check

| run | module | question |
|---|---|---|
| `report` | Dispenser | `HeartbeatOnTime`: the hub hears from the device after at most `Max_Time + 1` sleeps and one more per fault, power-up included. `HubInSync`: when a connected device falls asleep the hub's reading is within the thresholds of its own. `NoSpuriousReport`: the first report of a wake has a reason the hub would recognise. `WakeAdvances`: every step of a station that is awake lowers the number of steps it has left (below). |
| `switch` | Dispenser | `TypeOK`, `ConnectedIsProvisioned`, `ResetCountInRange`, `DuplicatesNeedFailures`, `PendingHasCause`, `QueueBounded`: a delivered device, every way to submit, hold, clear and fail, every command, a full client. `SubmissionAdvances`: an access point that is to be reset is one nearer to it at every stage. |
| `live` | Dispenser | `WakeEnds`, `HubConverges`, `SubmissionResets` under fairness, and `NothingLostToSleep`. |
| `http` | HttpApi | `ImplementsHttpCall`: the refinement. `OneConnection`: no socket stays open behind a freed handle. `AnswersAreFresh`: nothing read answers an earlier attempt. `FaultsBeforeFailure`: one broken connection fails no call on a kept connection. `CallAdvances`: no step of the three levels of recovery, or of the loops that read an answer, leads back. `CallEnds`: a call ends unless the network goes silent while content is read; there only `readLine()` counts its rounds, and the 20 seconds the comment of `httpapi_compact.c:37` promises are not kept. |
| `client` | HubClient | `ImplementsOutbox`: the refinement. `DeletedWasExecuted`, `RepetitionsHaveCause`: commands at least once, and again only for a failure. `CommandsGetThrough`: over any number of sleeps every command is executed in the end; `EventsGetThrough`: every message leaves the list, confirmed or lost with the RAM; each unless the device is stranded. |
| `config` | ConfigFile | `ProvisioningSurvives`: only a crash between open and print, or a save on top of a failed load, can lose the connection string. `NamedAfterDevice`: every boot with an id that fits the buffer comes up, writes nothing behind it and carries the id wherever it stands in the string. |
| `clock` | NetClock | `ClockNeverAhead`, `LagBounded`, `NextSyncInReach`, `SetupLeavesInTime`; `SetupAdvances`: every step and tick of setup()'s synchronisation lowers a bound on what is left of it; `SetupEnds`. |

Runs that expect a violation each show one disagreement between the code and
what its comments or documents say; `findings` in `PROJECT.json` quotes both:

| run | shows |
|---|---|
| `new_year` | the year test of line 172 refuses 2021 and later: nothing is reported any more |
| `frost` | a steady temperature below -2 F: the first round of a wake takes the stored value for garbage and raises `Run_Flag`, the next reads it back unchecked, finds no difference and never lowers the flag: awake for ever |
| `two_in_flight` | a SendData command beside a waiting report: the device sleeps on the second message |
| `queue_fails` | the baseline is advanced before the client has accepted the message |
| `torn_timestamp` | a date composed across a full minute is one the clock never showed |

### The bounds, and why they are enough

* **Dispenser**: the proportions of the constants are kept: `Max_Time` 2 for 23,
  `InitRounds` 2 for 20, `ResetRounds` 3 for 20 and `ConnectResetRounds` 2 for 5
  (the second below the first, which is what `ResetCountInRange` turns on),
  `MaxTries` 2 for 240; the hold limit 4 and the threshold 2 are the code's. Two
  or three levels are enough to differ by less and by more than the threshold.
  Two faults are enough for a retry that fails again and for a failed boot after
  a failed report; one command for the second message.
* **HttpApi**: three shapes of answer (no content, a length, chunks), so that
  every stage is reached; five faults: the worst call on a kept connection
  absorbs two and fails with the third, and two more meet the next call.
* **HubClient**: three executions of a call, the number HttpApi implements; two
  events and two commands, so that there is an order and a second to overtake;
  two faults, for a retry that fails again or a lock that expires meanwhile.
  Wakes, rounds and sleeps are not bounded. No lock number above `MaxCommands + 2 * MaxFaults` occurs (`TypeOK`).
* **ConfigFile**: twelve connection strings (the id first, last, twice, empty,
  behind other text of its field, absent; ids of 16, 17, 19 and 20 characters: the
  longest that fits, the first that overruns, the longest that is copied whole,
  the first that is cut), three edits, two faults: a save that fails and a crash,
  in either order.
* **NetClock**: `Wrap` 7 is odd, so no whole number of seconds of 2 ticks; 17
  ticks wrap it twice and hold three rounds of setup and one more
  synchronisation, at an interval of 3 seconds. An answer is up to 2 ticks under
  way and the name takes 1 tick to resolve, so that answers can cross. One packet without a
  time.

Some conditions of the passing runs are conditions of the properties, not of
convenience. With `DriftAwake`, quantities that move while the device is awake,
`HubInSync` fails: the baseline is the first reading of a wake and the message
the second. So does `WakeEnds`, if they keep moving back inside the thresholds at
the wrong moment: DoWork is inside the block, so a quiet reading after a failed
POST leaves nothing that would send it. HubClient has the same step, `Strand`, and
its two liveness properties name it as their exception: without it TLC has the
counterexample of a POST that is refused, a poll that fails and a device that is
awake with the message and without DoWork. With readings below zero
`NoSpuriousReport` and `WakeEnds` fail: lines 211-217 take them for garbage (run
`frost`). `HubInSync` and
`HeartbeatOnTime` are checked without `queue` faults (run `queue_fails`), and
`HeartbeatOnTime` without negative counts in RTC memory: `Critical_Flag` is used
as power-up left it, and from -n the first heartbeat comes n wakes later.
`HubInSync` and `NoSpuriousReport` say nothing between a loss of supply and the
next report: `hubView`, the history they compare with, is reset with RTC memory.
`HubInSync` also fails for readings above 200, which lines 211-217 replace like
those below 0, and if a ClearWIFI command or a press ends a wake whose report was
received but not acknowledged, with a failed save and a lost sensor around it:
the reset takes the baseline with it. `WakeAdvances` fails for readings of 199
and 200 as well: garbage of 201 or 202 in RTC memory is 0 to the first round of a
wake, which raises `Run_Flag`, and itself to the later ones, to which it is
within the threshold of such a reading; the station then stays awake like the
frozen one. Nor is
`live` given the switch: someone who holds it stops the device, and a press too
short to clear the network leaves `messagePending` up with nothing to lower it.

### Fairness

Only of what the code or its platform guarantees, and never of a choice.

* Dispenser: `DeviceStep` (the processor executes) and `Wake` (the sleep timer
  fires). That a retry succeeds in the end comes from the bound on faults.
  `InitTime` and `Joined` are steps of the device: the liveness run assumes that
  the SDK's clock is set and, without `wifi` in `Faults`, that the network joins.
  `initTime()` has no other exit, and with a network that never joins
  `connect()` restarts for ever; the code promises nothing there.
* HttpApi: `Device` alone, the code of the call. The network is not fair: it may
  drop or be silent for ever, hence the exception in `CallEnds`.
* HubClient: the processor (`Sketch` and `Client` as one: what it does next is the
  code's choice, `Strand` is none of its steps and always possible instead), the
  sleep timer within it (`Wake`, a wake with a report due, comes at the heartbeat
  at the latest: `HeartbeatIsKept`), the hub, the polling interval and the expiry
  of locks. `SendReport` is strongly fair: `Init_Time` passes, so of rounds that
  could report again and again one does. The properties hold without it too; it
  keeps the device from being awake for ever by never reporting. A device that a
  press keeps awake stays so past the 25 minutes between two polls and polls
  again; one that sleeps polls at its next wake, since `isFirstPoll` is in RAM.
  Nothing asks a fault to stop; their number is bounded. A sleep is none.
* NetClock: the device, the passing of time, and that a packet under way arrives
  or is lost.

## What is proved

For every value of the constants that satisfies the named assumptions of the
modules: in `DeviceState`, that readings are integers, bounds are positive,
`ConnectResetRounds < ResetRounds` and the world's sets are what they are
declared to be; in `HttpApi`, that answers have the shape of HTTP answers with
two header lines at least, one of them not about the content; in `ConfigFile`,
that an id does not itself contain the text `DeviceId=`; in `NetClock`, that `millis()` does not come
round within one call of `now()`; bounds are natural numbers.

| theorem | statement |
|---|---|
| `TypeCorrect` (DispenserProofs) | `Spec => []TypeOK` |
| `QueueStaysBounded`, `PendingIsCaused` (QueueProofs) | `Spec => []QueueBounded`, `Spec => []PendingHasCause` |
| `NothingIsLostToSleep` (QueueProofs) | without SendData commands, `Spec => NothingLostToSleep` |
| `ConnectedStaysProvisioned`, `ResetCountStaysInRange` (SetupProofs) | `Spec => []ConnectedIsProvisioned`, `Spec => []ResetCountInRange` |
| `SubmissionAlwaysAdvances` (SetupProofs) | `Spec => SubmissionAdvances` |
| `RepeatsAreCaused` (QueueProofs) | `Spec => []DuplicatesNeedFailures` |
| `HeartbeatIsKept` (ReportProofs) | in a `HeartbeatWorld`, `Spec => []HeartbeatOnTime` |
| `HubStaysInSync` (ReportProofs) | in a `SyncWorld`, `Spec => HubInSync` |
| `ReportsHaveReasons` (ReportProofs) | in a `SyncWorld` without SendData commands, `Spec => NoSpuriousReport` |
| `WakesAdvance` (ReportProofs) | in a `WakeWorld`, `Spec => WakeAdvances` |
| `TypeCorrect`, `OneConnectionHeld`, `AnswersStayFresh`, `FailureNeedsFaults` (HttpApiProofs) | `Spec => []` of `TypeOK`, `OneConnection`, `AnswersAreFresh`, `FaultsBeforeFailure` |
| `CallImplemented`, `CallAlwaysAdvances` (HttpApiProofs) | `Spec => ImplementsHttpCall`, `Spec => CallAdvances` |
| `OutboxImplemented` (HubClientProofs) | `Spec => ImplementsOutbox` |
| `DeletedOnlyExecuted`, `RepetitionsAreCaused`, `TypeCorrect` (HubClientProofs) | `Spec => []` of `DeletedWasExecuted`, `RepetitionsHaveCause`, `TypeOK` |
| `ProvisioningIsKept`, `TypeCorrect` (ConfigFileProofs) | `Spec => []ProvisioningSurvives`, `Spec => []TypeOK` |
| `DeviceIdIsFound` (ConfigFileProofs) | `ScannedId(cs) = DeviceIdField(cs)` for every sequence of tokens |
| `OverrunIsExact` (ConfigFileProofs) | for every configuration, `Overrun` is in 0..3 and above 0 exactly for ids of more than 16 characters; `InitAccessPoint` carries the whole id if it fits |
| `AccessPointIsNamed` (ConfigFileProofs) | `Spec => NamedAfterDevice` |
| `ConfigFits` (ConfigFileProofs) | nine members with strings of any admitted length fit `StaticJsonBuffer<400>` |
| `ClockIsNeverAhead`, `LagIsBounded`, `NextSyncStaysInReach`, `SetupIsLeftInTime` (NetClockProofs) | `Spec =>` the properties of those names |
| `TypeCorrect`, `SetupAlwaysAdvances` (NetClockProofs) | `Spec => []TypeOK`, `Spec => SetupAdvances` |

The arguments, and why each invariant is needed:

* **Types of Dispenser**: inductive by themselves; a lemma per helper, one per
  group of variables left alone, one step per action.
* **Queue**: `QueueBounded /\ PendingHasCause` is inductive given the types. What
  makes it so is the second half of `QueueBounded`: while the flag is down, or
  the callback is about to lower it, the list holds at most what commands added.
  `SendDue` then starts from an almost empty list, and the sleep decision, which
  finds the flag down, from an empty one. The condition on SendData in
  `NothingIsLostToSleep` is needed: `two_in_flight` is the counterexample.
* **Provisioning**: `SetupInv` adds that a station in `setup()` (from line 105
  on) is configured or on its way to a reset and no access point, that no hub
  client exists before that, and that `resetCount` is 0 until `connect()`.
  `SubmissionAdvances` counts the stages of the rounds to the reset; an access
  point is at one of six stages, and `ResetCountInRange` keeps the count below
  the limit it is compared with.
* **Repeated reports**: `SendsInv`. A wake is `Settled` from a report on, as long
  as what is pending is at the head of the list; from there it ends without
  another report, unless a POST fails or a command comes, each of which pays for
  one more.
* **Heartbeat**: `HeartInv`. The count in RTC memory follows `quiet` but for one,
  and for one more per fault. A sleep lengthens `quiet` and must lengthen the
  count too, or follow a report, or pay with a fault: a boot that failed holds a
  fault in hand (`FaultInHand`), and a connected device sleeps with the count it
  woke with, below `Max_Time`, or told the hub (`ToldOrCounting`). A
  `HeartbeatWorld` is one in which nothing is refused for the sake of a reset
  (no press, no ClearWIFI) or by a full client, RTC memory wakes with a count
  from 0 up, and `setup()` accepts the year: `queue_fails`, `new_year` and the
  negative counts above show what happens in others.
* **Sync**: `SyncInv`. Without a hub, or before it, RTC memory holds what the hub
  heard last (`InStep`), and no more than a failed boot can lie between; with a
  hub, a wake measures once (`Measured`: every reading and every queued message
  is what the sensors measure `Now`), tells the hub nothing until it has sent
  (`Untold`), and at each stage has either reported or found nothing to report
  (`Reported`). The comparison of line 233 is with RTC memory, never with the
  hub: what makes the two agree at the decision to sleep is that the baseline is
  written back only by a wake whose list is empty. A `SyncWorld` is the one in
  which that holds: no quantity drifts while the device is awake, readings are
  within 0..200, the client takes its messages, no ClearWIFI, no press. Each of
  the five is needed; TLC has a counterexample for each (above).
* **Length of a wake**: `StepsLeft` counts the steps of the round, the rounds
  until `Init_Time` is over, one that reports and one more for a message that
  holds the report back, and a whole wake for each fault and command to come.
  It can only count if whatever keeps the device awake is come back to, which is
  the invariant `WorkReached`: with a hub, a raised `Run_Flag` or
  `messagePending` means that the block is due by RTC memory as the later rounds
  read it (`StillDue`), since DoWork is inside the block; without a hub a raised
  flag is on its way to line 379; a raised `messagePending` has a message behind
  it. A `WakeWorld` is a `SyncWorld` whose readings are below 199. The refused
  message of a full client would not break this property; it is excluded only
  because `SyncInv` carries the reading.
* **HTTP**: the invariant has five parts: types; which of socket, handle and
  adapter state go together at each stage (`ConnInv`); that what remains to be
  read of an answer fits the stage reading it, and is of the last execution
  (`ReadInv`); which executions and levels of recovery are spent (`BudgetInv`);
  and which faults have paid for them (`FaultInv`). At most three executions, the
  constant of `HttpCall`, is a consequence of the levels of `st`, not a guard.
  `CallAdvances` follows a lexicographic rank: the attempts that `k` and `st`
  leave, the stages before the answer, the units of the answer not yet read.
* **Hub client**: `OutboxInv`: while a POST is under way its message stays at the
  head, and an accepted one is what the hub received last. `CommandInv`: a lock
  is handed out once; a poll that returns has the ETag of its last answer; so the
  one lock a DELETE can name is that of the command just executed. Repetitions
  are counted in a ledger (`LedgerInv`): the commands deleted, and the one in hand
  with nothing against it, owe nothing; every other execution, and every two other
  locks, is a fault's. The counting is on cardinalities of sets of commands, one
  of which moves at a time.
* **Configuration**: the string in RAM is among those entered unless a cause has
  been counted.
* **Device id**: a loop invariant over the rounds of the scan (`ScanInv`: what
  lies behind `runStr` holds no id, or `start` is the first), and that two rounds
  for each token end it. The induction over the rounds is that over natural
  numbers, obtained from `NatLessThanWellFounded` and `WFMin` in the form the
  provers can use.
* **Access point's name**: with the id found, it is arithmetic on its length: the
  copy has the lesser of it and 19, the suffix needs 4 of the 20 bytes.
  `AccessPointIsNamed` then needs only that the string loaded is one of
  `ConnectionStrings`.
* **Clock**: what packets under way and received carry is at most as old as
  flight and resolution allow, and never ahead; the counted seconds keep their
  rest across a wrap of `millis()`. `SetupAdvances` follows a rank: the rounds of
  `setup()` not yet begun, the calls of `now()` left in this one, and the steps
  and ticks left of the call, which its two waits bound.

Every invariant and every action property of the passing runs is proved. Only
model-checked is liveness: `WakeEnds`, `HubConverges`, `SubmissionResets`,
`CallEnds`, `CommandsGetThrough`, `EventsGetThrough`, `SetupEnds`. They need
fairness and `ENABLED`, which are out of the prover's reach. `WakeAdvances`,
`SubmissionAdvances`, `CallAdvances` and `SetupAdvances` are the part of four of
them that is not: with a bound that every step lowers, what is left to
`WakeEnds`, `SubmissionResets`, `CallEnds` and `SetupEnds` is that the processor
takes steps.

## Not modelled

* LEDs, battery gauge, serial console and the static pages: output that nothing
  reads. `LedWatch()` compares signed durations a command may set to anything;
  the effect is a light.
* The JSON of messages, the calendar, routing of the web server, the register
  protocols of the sensors: formatting and I/O.
* Batching, message timeouts, twins and the uploading of files in the hub
  client: options the sketch does not set. Requests that fail for want of memory
  before they are made; a command given back for that reason is modelled.
* The other vendored libraries, which are the greater part of the repository's
  lines: the MQTT and AMQP transports, the serializer and its agents, WiFi101 and
  Blynk are not linked into the firmware; ArduinoJson, the utility containers and
  the sensor drivers are sequential third-party code below it. Of the SDK the
  project covers the path that a report and a command take.

## Plan

Done: the sketch (DeviceState, Setup, Loop, Dispenser), ConfigFile, HubClient on
HttpCall with Outbox, HttpApi with its refinement, NetClock; proofs of all the
safety, in the worlds named above.

Left, in this order:

1. The actions of Loop that use the hub client as a refinement of Outbox. Loop
   delivers and confirms a message in one step, so the mapping needs the messages
   of a wake as a history variable, and Outbox's receipt a step of its own.
2. The bounds of `HubClient` as a rank like that of `CallAdvances`: commands and
   events get through within a bounded number of calls once faults have stopped.
3. Which of the chips sleep when `Sleep_Mode()` is entered (the NTP loop enters
   it with all of them awake, `ReleaseNote.ino:19`).
4. `LedWatch()` and `KeepAliveLed()` with their unsigned differences.
