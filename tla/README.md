# TLA+ models of the SBC fan controller

The firmware (`src/`, C on an ESP32 with FreeRTOS) drives six fans.  Agents on the single-board
computers (`agent/`, Go) report temperature and load over TCP; a REST server on the controller takes
temperatures and duties and shows the state; a tachometer measures fan speeds.  Everything meets in
`src/target.c`, whose one task turns temperatures into fan duties.  These modules model that
component in full, the tachometer, the TCP server's sessions and framing, the agent's goroutines, and the controller as a whole
from power-on: configuration, flash, provisioning, boot order and REST server, with restarts at any moment.  TLC checks them
on small instances, and the TLA+ proof system proves the most important results for every value of the constants.

## 1. The system's parts

| part | source | state it keeps | operations | interacts with |
| --- | --- | --- | --- | --- |
| target | `src/target.c` | `targets[]`, a mutex for each channel, a queue of message pointers, the heap messages | `target_send_temp/duty/load/rpm`, `target_get_data`, the task `vTaskTarget` | called by the TCP server, the REST server and the tachometer; calls PWM |
| fan curve | `target_calc_duty` in `src/target.c` | none of its own | temperature and configuration to duty | called by `vTaskTarget` with the lock held |
| PWM | `src/pwm.c` | the duty of six LEDC channels | `StartPWM`, `pwm_set_duty` | called by target |
| tachometer | `src/tacho.c` | `curChan`, the pulse counter, a one-shot timer, `xTachoQueue` | `TachoCallback` (timer task), `vTaskTacho` | sends speeds to target |
| TCP server | `src/network.c` from line 586 | `client_info[]`: socket, login state, packet length, bytes so far, buffer | accept, `sock_recv`, `process_request`, `send_response`, `socket_close` | peers' sockets; target; configuration |
| REST server | `src/network.c` 117-583 | one scratch buffer, the heap | seven handlers, basic authentication | target; configuration |
| configuration | `src/fanconfig.c` | `channelConfig[]`, `deviceConfig`, `configMutex`, the flash | `StartConfig`, `loadChannelConfig`, `saveChannelConfig`, `saveTZ` | read by target without the mutex, by both servers with it |
| boot | `src/main.c` | which parts have started | `app_main`, in a fixed order | all |
| WiFi | `src/wifi.c` | one event bit | an event handler around the provisioning library | boot waits for it |
| agent | `agent/pkg`, `agent/cmd` | a connection, two buffered channels and a shutdown channel | four goroutines: read, write, answer, sensors | the TCP server |

Hard about them, and what correctness means for each:

* **target**: three client tasks, one worker, a bounded queue with a timeout on each side, locks that
  callers give up on and the worker does not.  Reads are whole, locks are always given back, the PWM
  and the table agree, no message is lost or freed twice, accepted requests take effect once and in order,
  every call returns.
* **fan curve**: unsigned and floating arithmetic with a division; the duty depends on the duty before.
  It should be the curve's whatever came before, never wrap, and never slow a hotter fan.
* **tachometer**: two tasks share a counter without a lock and hand one measurement round.  It is never lost or
  doubled, and the speed reported for a fan is that fan's.
* **TCP server**: one task and many connections, whose bytes come in any pieces and whose ends come at any
  moment; entries are used again.  A session inherits nothing, the stream stays in step, the target
  hears only who logged in, dead peers give their entry back and live ones are served.  The code keeps this only up to
  the first body that comes in pieces: the second one is written over other entries (`src/network.c:880`).
* **agent**: four goroutines, two bounded channels and an unbuffered one; read deadlines anywhere in the stream, and a handshake
  without a state.  Nobody waits on everybody, the handshake is one conversation in the controller's order, and the end
  of the connection (but no deadline) stops the writer.
* **configuration**: a save in several writes, and defaults written without a commit, with a restart between any two.  What was in force is
  in force again after a restart, and the mutex is given back on every way out.
* **boot, WiFi**: the parts start in one order and call each other from then on; the boot waits for an address.  Nothing is used before it
  has started, but for the requests that come too early and abort; the boot ends whatever the access point and the user do at first.
* **REST server**: one task, authentication in front of each handler.  Nothing is shown or changed, and no memory lost, without the
  credentials; each request ends.

## 2. The modules

| module | models | as |
| --- | --- | --- |
| `FanCurve` | `target_calc_duty` | operators |
| `Thermostat` | a channel that receives report after report | state machine, with the curve's reference definition |
| `Channel` | `target_t`, `channelConfig_t`, `TargetMessage_t` and what a message does to a record | operators |
| `FanChannels` | what the target component promises | abstract state machine |
| `Target` | `src/target.c` and its callers, step by step | state machine, with the mapping to `FanChannels` |
| `FanWindows` | what the tachometer promises | abstract state machine |
| `Tacho` | `src/tacho.c` | state machine, with the mapping to `FanWindows` |
| `Sessions` | what the TCP server promises | abstract state machine |
| `TcpServer` | `vTaskTCPServer` and what it calls, its peers and the network | state machine, with the mapping to `Sessions` |
| `Agent` | the goroutines of `agent/pkg`, the connection and the controller's answers | state machine |
| `Config` | `src/fanconfig.c`, the flash and `configMutex` | actions |
| `Wifi` | `src/wifi.c`, the provisioning manager and the station | actions |
| `Rest` | the REST server, on top of `Config` | actions |
| `Device` | `app_main`, and the parts it starts: composes `Config`, `Wifi` and `Rest` with the calls between all parts and restarts | state machine |
| `MCThermostat`, `MCTarget`, `MCTacho`, `MCTcpServer`, `MCAgent`, `MCDevice` | | small instances for TLC |
| `FanCurveProofs`, `ThermostatProofs`, `TargetProofs`, `TargetRefinement`, `TachoProofs`, `TcpServerProofs`, `AgentProofs`, `DeviceProofs` | | theorems |

Operators named `Bug...` are faulty variants of the definition next to them: a plausible mistake in the code.
For each property of a passing run PROJECT.json names the variant that makes it fail, so that no
property holds of just any code.

### Target

State and code: `queue` is `xTargetQueue` (of messages, where the code queues their addresses: an address
has one holder, which `HeapAccounted` checks by counting), `used` the messages allocated, `lock` the holders of
`targetLock[]`, `targets` and `pwm` the records and what `pwm_set_duty` was last told, `age` the seconds since
`lastUpdate`, `taskPc`/`taskMsg` where `vTaskTarget` is, `pc`/`req`/`buf` where each client is.
`leaked` and `source` are history.

| action | code |
| --- | --- |
| `TaskReceive` | `xQueueReceive`, the tests of the switch (channel, enabled), and the `free` of a message refused |
| `TaskLock`, `TaskWrite`, `TaskUnlock` | take, assign the field (and `lastUpdate`), give and `free` |
| `TaskCalc`, `TaskPwm` | `target_calc_duty`; `pwm_set_duty`, only when the duty changed |
| `SendAlloc`, `SendQueue`, `SendTimeout` | `malloc`, `xQueueSend`, its timeout, which loses the message |
| `GetCall` ... `GetGive` | `target_get_data`: the range check, the lock or its timeout, `memcpy` in two steps, the unlock |
| `GetOutside` | the channel that the range check should have refused: any outcome |
| `Reboot` | a failed `ESP_ERROR_CHECK` aborts; the restart |
| `Tick` | a second passes |

A client in `Checked` calls the sends inside `ESP_ERROR_CHECK`, as the TCP server and the tachometer do; the REST server does
not.  All callers check `target_get_data`.

### Thermostat and FanCurve

A temperature is an integer number of `1/TempScale` degrees, so that the fraction that the conversion to `uint32_t`
drops exists.  `OnCurve` is the reference definition: it says with quantifiers what share of the range the
temperature is, and knows nothing of the code's arithmetic.

### Tacho

`counter` carries, besides its value, the set of fans whose pulses it counted, and a value keeps it
on its way through the queue to the report.  `TimerFires` and `CallbackSend` are the two halves of
`TachoCallback`; `TaskReceive`, `TaskReport`, `TaskSetPin`, `TaskClear`, `TaskResume` and `TaskArm` the calls of the
loop of `vTaskTacho`, between any two of which a pulse, the timer or its callback can come.  A second start of an armed timer aborts.

`FanWindows` has only a fan whose turn it is, its window, the count and the last report of each fan.  A turn passes with the report, or where the task finds nothing to report (`AbsFan`).
The fan of an open window is the one whose pin the counter is connected to, so that counting another's pulses would break the mapping.

### TcpServer

A packet is a header of `HeaderLen` bytes and a body of `BodyLen`.  `stream` is what a peer has sent and the
server has not taken, `arrived` how much of the first packet can be read now; `Deliver` moves
it by any number of bytes.  `client` is `client_info`: the peer behind the socket, the login, `want` = `pck_len` and
`have` = `pck_buf_len`.  `pc` is `select`, `accept`, `info` (the greeting) or
`serve`, where `todo` holds the clients `select()` found ready.

| action | code |
| --- | --- |
| `Select` | build the set, `select()` |
| `Accept`, `AcceptRefuses`, `AcceptFails`, `NotListening` | the listening socket; the last two failures `break` and skip the clients that are ready |
| `AcceptUnset` | `fcntl` fails for the socket just accepted, which is closed again; another `break` |
| `SendInfo` | `send_infopck` inside `ESP_ERROR_CHECK` |
| `RecvGone`, `RecvPartHeader`, `RecvTooBig`, `RecvHeaderOnly`, `RecvPart`, `RecvLast`, `RecvAstray` | the ways through `sock_recv` |
| `ProcessLogin`, `ProcessCommand`, `ProcessQuery`, `ProcessUnknown`, `Refused`, `TargetFails` | the cases of `process_request`, with the answer, the close or the abort each ends in |
| `SocketClose` | `socket_close` |

`RecvPart` is the first piece of a body, or none of it.  `RecvAstray` is a later one: `&client->pck_buf + client->pck_buf_len` is past `pck_buf`, so that the piece
is written over the entries behind this one, of which each may then hold anything, or over what the linker put behind the table.  With that step `stray` is set.
From there on the program runs with memory that anyone may have written, other components' included, and the only step of the model is the restart, whenever it comes.
All that is claimed of the server is claimed of the time from each start to the first such write: the invariants say `~stray =>`, and `Sessions` may do anything once it is `lost`.
`OwnEntryOnly` says that the write should not happen, and is violated.

`sock_recv` runs to its end before the loop goes on, and nothing else touches the table, so a call is one
step; what changes under it is the peer's end, which is covered by letting a reset connection still
return what had arrived, and then fail the answer.  All bodies have the same length, and a body of length 0 (a header that the server reads
and forgets) does not occur.

`Sessions` knows neither entries nor bytes: a connection is admitted while fewer than `Capacity` are open and refused only when as many are, is a member from its login
to its end, and is heard only as one.  `Members` are the peers whose entry is logged in.  Its variable `lost` is `stray`: with `Lose` all promises end, until `Restart`.

### Agent

`inbox` and `outbox` are `Readbytes` and `Writebytes`: the first `Cap` messages are in the channel's buffer, and those behind them in
the hands of goroutines that wait in Go's first-come order, so that a goroutine is blocked exactly when a message of its
own lies beyond `Cap`.  `reader`, `part`, `writer` and `hand` are where `readRoutine` and `writeRoutine` are.  `up` and `down` are packets on the
connection; `inStep` says whether the reader's next byte is the first of one.

| action | code |
| --- | --- |
| `ReadPacket` | a turn of `readRoutine` that reads a packet and puts it into `Readbytes` |
| `ReadCut` | a deadline inside of a packet: `break` or `continue`, with what was read dropped; or a packet without its length |
| `ReadGarbage`, `ReadOn` | turns out of step, which take anything for a length and a packet |
| `ReadEnd`, `Shutdown` | the end or an error, `e.shutdown <- true`, and what is delivered of a packet cut short |
| `WriterTake`, `Write`, `WriteFails` | the cases of `writeRoutine` |
| `Respond` | the goroutine of `StartSendServer` with `processResponse` |
| `Report` | `StartSensors`: a report each interval, or none where a sensor cannot be read |
| `Greet`, `Serve`, `Spin`, `Reject`, `Close`, `Reset` | the controller (as in `TcpServer`) and the network; `Spin` is `socket_send` on a full connection, which loses the length of the answer |

The initial states are those after `StartSendServer`: connected, or with the dial's error logged and nothing but the
sensors and the responder running.

### Device, with Config, Rest and Wifi

`nvs` is what reading the flash gives and `durable` what is promised to survive; a key is a namespace and a name, its value the default,
another one, absent or unreadable (any other error of `nvs_get_...`).  A restart keeps, of each key, either.  `ram` is `channelConfig` and `deviceConfig`,
`unloaded` and `nextKey` how far `StartConfig` is, `saving` and `nextField` how far a save.  `kept` is history: the configuration first in force.
`stage` is where `app_main` is, `started` what runs, `misused` (history) what was used before it ran.

| action | code |
| --- | --- |
| `BootNvs`, `NvsErase` | `nvs_flash_init`, the erasure it may ask for |
| `BootLoads`: `LoadChannel`, `LoadKey` | `loadChannelConfig`; the four keys of `StartConfig`, defaults stored; an unreadable channel aborts |
| `SaveTake`, `SaveField`, `SaveFails`, `SaveCommit`, `SaveTZ` | `saveChannelConfig` and its ways out; `saveTZ`.  Nobody calls them yet: here anyone may once `StartConfig` has returned |
| `BootConfig`, `BootWifi`, `BootIp`, `BootNetwork`, `BootPart`, `BootOta` | the calls of `app_main`, and the wait in `StartWIFI` |
| `StartWIFI`, `CredRecv`, `GotIp`, `Disconnected`, `CredFail` | provisioning or station; the events `event_handler` acts on |
| `RestReceive`, `RestRefused`, `RestAccepted` | `basic_auth_get_handler` with `http_auth_basic` and its buffers |
| `RestInfo`, `RestBody`, `RestTarget`, `RestLock`, `RestUnlock` | what the seven handlers do then |
| `RestCallsTarget`, `TcpCallsTarget` | a server calls target; before `StartTarget` an assertion aborts |
| `TachoCallsTarget`, `TargetRuns` | the other tasks use what they use |
| `Restart` | the power fails, `ESP_ERROR_CHECK`, an assertion |

`Target`, `Tacho` and `TcpServer` are there as parts that have started or not: what they do then is in their own modules.  A request's handler and
body are chosen where they matter, after the authentication.

## 3. The runs

| run | instance | shows |
| --- | --- | --- |
| `target_core` | three clients, an enabled and a disabled channel, queue of 1, heap of 3; a temperature, a duty (also for a missing channel), a speed for the disabled channel, reads of channels 0, 2 and 7 | the safety of the table, the locks, the PWM and the heap, the refinement of `FanChannels`; every call returns, and a system where no more calls begin drains its queue |
| `target_stale` (violated) | one client, cool reports, 5 seconds | the stale-data check never runs |
| `target_channel_check` (violated) | reads of channel `NUM_TARGETS` | the range check is off by one |
| `curve` | half degrees from -1 to 101, five configurations | the duty is the curve's after any history; hotter is never slower |
| `curve_zero` (violated) | the same | a 0 that finds the fan at full duty, as the first after the boot does, turns it off |
| `tacho` | three fans, queue of 2, up to 2 pulses | one measurement, its own fan's, and every fan again and again; `FanWindows` is implemented: turns in order, each window reported once |
| `tcp_safe` | two peers that reconnect, one entry, most requests, a peer that dies between header and body | up to the first second piece of a body: the entry and the stream stay in step; no login is inherited; the target hears only who logged in; `Sessions` is implemented: nobody is refused while an entry is free |
| `tcp_live` | two peers, two entries, one-byte header | one entry for each accepted connection, up to the first second piece of a body; where such pieces, resets and failures of `fcntl` come to an end, connections are answered, requests read, dead peers' entries freed |
| `tcp_partial` (violated) | a body of 3 bytes in any pieces, two entries | the second piece is written over another entry |
| `tcp_halfheader` (violated) | a peer that dies after one byte of a two-byte header | its entry is never freed |
| `agent` | channels and a connection of one message each | the handshake is one conversation and in order, no circle of waiting stops the reports, the writer stops with the connection and only then |
| `device` | one channel with two fields, two device keys, a flash with a setting of its own and an unreadable password, or with an unreadable channel; three buffers; two retries | nothing runs on what has not started; a restart keeps the configuration; strangers get nothing and cost nothing; the boot and every request end |

### Why the bounds are enough

* *Target.*  The code treats channels alike and apart from each other, except by `enabled`: one of each kind, and the
  numbers 2 (= `NUM_TARGETS` here), 6 and 7 for the checks.  A queue of 1 and a heap of 3 are full and empty with three clients
  in calls at once, and a send finds each of them full.  The kinds of message that only write a field (load, speed) are alike to the task; that one of them leaves an enabled channel's duty on the curve is covered by the proof alone (`CurveHolds`), which holds for every value of `Sends` and `Reads`.  One temperature on the ramp suffices, as the curve has its own runs.
  `StaleAfter` = 0 keeps `age` out of the runs that do not need it.
* *Curve.*  The configurations are the default, a range that does not divide 255, a range of one degree, one that starts at 0, and
  thresholds in the wrong order; half degrees make fractions.
* *Tacho.*  Three fans are a first, a middle and a last one; a queue of 2 would show a second event.
* *TcpServer.*  Two bytes are the fewest that can be cut, and of a body cut in two the second piece is astray, whatever its length: it may leave anything in the entries behind.
  Two entries are the fewest that it can be written over (`tcp_partial`, `tcp_live`).  Two peers and
  one entry is the fullest table that is used again.  `MaxInFlight` bounds the packets a peer sends ahead.  Peers are symmetric.
* *Device.*  Two fields make a save that is cut between two writes, before its first and before its commit; two device keys one that is excepted and one that is not.
  Three buffers are enough for one request that loses its own, one without the fields it needs, and a heap that is full afterwards; two retries for one that is not the last.
  Restarts are not bounded: memory is lost and the flash has finitely many contents.
* *Agent.*  One message is the least a channel or the connection can hold: everything is full as early as it can be, which is the worst
  case for waiting.  `Garbage` is what bytes read out of step are taken for: "info", which has the longest consequences; others lead to
  fewer requests.  Deadlock is not checked, as an agent whose connection has ended stops: its reader, and then its sensors, wait for ever.

### The five violations

Each is a statement of the repository (a log message that says what a branch is for, or a check repeated elsewhere) which
the code does not keep:

1. `ZeroMeansFull`, `src/target.c:186`: "Setting Full Duty" for a temperature of 0 happens only when the duty is not full; with the duty full already (so for the first report after the boot) a 0 falls through to the low branch and turns the fan off.
2. `StaleGetsFullDuty`, `src/target.c:308`: `continue` stands before the stale-data check.
3. `InvalidChannelRefused`, `src/target.c:161`: `>` for `>=`.
4. `OwnEntryOnly`, `src/network.c:880`: "make sure pck_len isn't bigger than our buffer" (line 856) does not keep a packet in it, as `&client->pck_buf + n` advances by whole buffers.
5. `GonePeerFreesSlot`, `src/network.c:837`: a peek of part of a header is neither a header nor an end.

A send that times out loses its message (`src/target.c:99`); nothing in the repository says otherwise, and `HeapAccounted`
counts these in `leaked`.

## 4. Fairness

* `Target`: `WF` of the task, of each client's call in progress, of a restart and of time: FreeRTOS runs every ready task, and all
  these have the same priority.  `SF` of `TaskLock`: the waiters of a FreeRTOS mutex are served in order, so that a lock which is
  free again and again is got.  Nothing makes a client begin a call.
* `Tacho`: `WF` of the timer, of its callback, of the task and of a restart.  No pulse need come.
* `TcpServer`: `WF` of the server's task, of a restart, and of the delivery of what was sent.  Peers need do nothing, but
  the liveness properties assume `Calm`: resets, failures of `fcntl` and second pieces of bodies come to an end.  Without it, a peer that connects and resets for ever makes
  the loop skip its clients each time, which the code does nothing about, and after a piece written elsewhere nothing is claimed.
* `Device`: `WF` of `app_main`, of the REST server's task and of a save in progress; `SF` of the REST server's waits for `configMutex`, whose waiters are served in order;
  `SF` of `GotIp` (right credentials get an address in the end, if the driver keeps trying: the environment's part), `SF` of the right credentials (a user who
  is asked again and again) and `WF` of `CredFail` (an attempt that fails is reported).  `BootEnds` supposes finitely many restarts (`FewRestarts`).
* `Agent`: `WF` of each goroutine and of the controller's answers; `SF` of `Shutdown`, as Go's `select` chooses at random between two ready cases, and of
  `ReadOn`, as a packet has finitely many bytes; a closed connection that is written to is reset.  The sensors may fail again and again, but
  not from some time on for ever (`WF` of `Report`).  `Report` waits while the
  responder can run: report intervals are a second at least (`startAgent` refuses less), in which the responder has its turn.  Without
  this assumption, or with a reader out of step, the circle responder, `Writebytes`, connection, controller, connection, `Readbytes`,
  responder does close: the channels' capacities only make it unlikely.  `ReportsGoOn` therefore supposes a reader in step.

## 5. What is proved

Proved by TLAPS for all values of the constants under the named assumptions (`TempScaleAssumption`, `ChannelAssumption`,
`TargetAssumption`, `ThermostatAssumption`, `TachoAssumption`, `TcpAssumption`, `AgentAssumption`, `ConfigAssumption`, `RestAssumption`, `WifiAssumption`), which TLC evaluates in the runs.

* **Curve** (`FanCurveProofs`, `ThermostatProofs`): the division's bounds give a ramp within `0 .. 255` (`RampInRange`), so that the cast to `uint8_t` loses
  nothing; from it `TypeCorrect`, `CurveFollowed` and `NeverSlower`, for any configurations with different thresholds.
* **Target** (`TargetProofs`): `Invariance`, that `IInv` is invariant.  The properties are not inductive by themselves: `PwmFollowsDuty` needs to
  know what the PWM is while the task is between the table and the PWM; `NoTornRead` that a copy in progress agrees with a record nobody else can write,
  hence `LockDiscipline`; `HeapAccounted` that the counters are numbers and the set of senders changes by one; `CurveInForce` that `CalcDuty` forgets the
  old duty.  `IInv` is the conjunction of the types, the invariants of the task and of the clients' steps, the locks, the copies, the PWM and the heap, each proved
  preserved by its own lemma (`TypesStep`, `LockStep`, `PwmStep`, `CopyStep`, `CurveStep`, `DisabledStep`, `HeapStep`).  From it: `TypeCorrect`, `LocksDisciplined`, `PwmFollowed`, `ReadsWhole`, `HeapAccounting`, `DisabledAlone`, `CurveHolds`.
* **Refinement** (`TargetRefinement`): `Implementation == Spec => Implements`.  `pending` is the queue, behind the message the task has and has not locked
  for; a request takes effect in `TaskLock` (or is dropped in `TaskReceive`), and from there to the last assignment a channel's abstract record is what the
  remaining steps will make of the concrete one, which no reader can see under the lock; `reply` is read from `pc` and `buf`, a read being the step `GetGive`.
  Every other step stutters.  It rests on `IInv`: the task alone changes the record (`LockDiscipline`), and a copy is the record (`CopyInv`).
* **Tachometer** (`TachoProofs`): `Safe`, with `OneMeasurement` (which of timer, queue and task has the measurement) and `OwnPulses` (whose pulses
  counter, queue and message hold) as the strengthening of `SpeedOfItsFan`.  `Implementation == Spec => ImplementsWindows` adds `WindowInv`: from the end of a window
  to its report the counter stands still and what is queued and reported is its value, and it is clear before the next window opens.  `TurnEnds` is the one step in which the turn
  passes, from either of the two places where the task is done with a count.
* **TCP server** (`TcpServerProofs`): `SessionInvariant`, that `TcpOrStray` is invariant: `TcpInv` up to the first second piece of a body, and the types from there to the restart, after which all is new.
  From it `StreamsInStep`, `SocketsKept`, `LoginsApart`, `StrangersUnheard`, `TypeCorrect`, each with that limit: of what the code does after `RecvAstray` nothing is proved, and by `AnyEntry`
  nothing could be.  `InStep` needs to know that only the first packet of a stream is read in part and only the last one may be cut (`StreamInv`), and that
  an entry whose stream is empty within a packet belongs to a peer that sends no more (`CutInv`); `LoginNotInherited` that a free entry is as new, as `Accept`
  sets nothing but the socket (`EntryInv`).  `Reading` says what `sock_recv` finds, `Taking` what it leaves of the stream, and `ReadStep` that
  the entry agrees with it, for the first piece of a body and for a whole one.
  `Implementation == Spec => ImplementsSessions`: each step maps to one of `Sessions` or to none, for any number of peers and entries.  That a refusal means a full table
  is `RoomIffFree`: by `SlotPerConnection` the entries in use and the open connections are in bijection, so that there are as many of the one as of the other (`RoomEnough` follows from it).  `RecvAstray` maps to `Lose`.
* **Agent** (`AgentProofs`): `WriterStopsOnlyWithLink`, from `StopInv`: a reader that is about to stop the writer has seen the end of the
  connection, which no step undoes (`GoneStays`).  `OneConversation`, `StatusOnlyLoggedIn` and `TypeCorrect` come from `AgentInv`.  Its parts: `RoomInv`, that each of the senders waits for room in
  a channel with one message at most, so that no more wait than there are senders; `OneHandshake` itself; `NewInv`, that nothing of the handshake is on its way before
  the greeting; `LoggedInv`, that what of it follows on the login (`AfterLogin`, `OfLogin`) is on its way only once the controller has logged the agent in.  `Total` adds
  the requests and answers of a kind over every place a packet can be in, and `NothingMultiplies` says that no step of the agent or the connection makes two of one; it rests on lemmas on
  `Count` for appending to a sequence and taking from it (`CountAppend`, `CountTail`, `CountMonotone`).
* **Device** (`DeviceProofs`): `ConfigurationKept`, `UsedInOrder`, `Authenticated`, `BuffersAccounted`, `TypeCorrect`.  The first rests on `LoadsAlike`: for every key, what is
  written, what is durable and what is in memory load as the same value, so that it does not matter which of the uncommitted writes a restart keeps; with
  `Progress`, that nothing is saved before all is loaded (`AllLoaded`).  The second says with `BootInv` what has started at each stage.
  * The mutex: `MutexGivenBack`, that it is held by a save or by the REST server's answer exactly from where it is taken to where it is given, on every way out; from it `Protected`, that
    while it is held nobody changes what is in memory and only the save that holds it writes the flash.
  * `ConfigurationFixed`: after `StartConfig` nothing but the time zone changes in memory.  This is what allows `Target` to have the channels' configuration as a constant, although `src/target.c` reads it
    without the mutex.
  * `StrandedRunsNothing` and `StrandedForEver` (`WifiInv`): a controller that a restart left with wrong credentials runs no server, and controls no fan, in every later boot, unless the flash is erased.

The runs name what is said about the code, and not the invariants that the proofs add: those (`IInv` of `Target` and `Tacho`, `AgentInv`, `MutexInv` and `WifiInv`) were checked by TLC on
instances of the runs' size before they were proved.

Only model-checked: liveness (`BootEnds`, `RequestsAnswered`, `EveryCallReturns`, `QuietMeansSettled`, `EveryFanMeasured`, `PendingAnswered`, `RequestsRead`, `GonePeerFreesSlot`, `ReportsGoOn`,
`WriterStops`), which needs fairness and `ENABLED` and is out of the prover's reach.  Every other property of a passing run is a theorem.

## 6. Not modelled

* The item size of `xTargetQueue` (`src/target.c:72`): undefined behaviour that depends on the stack's layout.
* Temperatures that are not numbers, or infinite; thresholds of `2^24` degrees and more.
* The LEDC fade in hardware, and the ISR that logs its end.
* What the firmware does after a second piece of a body was written outside of its `pck_buf` (`src/network.c:880`), but for the restart.  Behind the table lies other components' memory: what is
  said of them supposes that no such piece came since the start.
* `socket_send`'s loop over partial writes (an answer is sent or fails), for now.
* mDNS, SNTP, the over-the-air update, the generated protobuf code: libraries' state machines behind single calls.  Of the provisioning manager, what its events depend on.
* The JSON of the REST server: a channel or duty that does not fit an `uint8_t` is cut (`src/network.c:252`), a body in pieces is received with the whole length as room
  (`src/network.c:232`).  The REST server's other uses of the heap, which it gives back.
* The time zone's name as characters (a name of 32 or more is cut in memory), and the C library's own zone.
* Handles of the flash that the ways out of `loadChannelConfig` and `saveChannelConfig` leave open.
* `configMutex` that cannot be created, or taken: they end `StartConfig`, and so abort.
* `Disconnect` and `StopSensors`, which have no caller; the agent's flags and files; the memory that a length read out of step asks for (up to
  4 GiB); the values of a report (`agent/pkg/send.go:123` sends a random temperature, not the measured one).

## 7. Running

    tlc -workers 2 -config target_core.cfg MCTarget
    tlapm TargetProofs.tla

The module of each configuration is in PROJECT.json.

## 8. Hazards

PROJECT.json lists them by line, with the properties that cover each, and says of those without one why.  What the `device` run made visible and does not claim otherwise:

* A restart between the arrival of wrong credentials and their erasure leaves the controller provisioned with them: `StartWIFI` then waits for ever and never provisions
  again, and `StartPWM` and `StartTarget`, which come after it, never run: no fan is controlled (`Stranded`, `src/wifi.c:203`; theorems `StrandedForEver`, `StrandedRunsNothing`), although the help of `FANCTRL_PROV_MGR_MAX_RETRY_CNT` has the credentials erased after that many failures.
* Any error of reading a device key, not just a missing one, replaces what is stored by the default, the password's included (`src/fanconfig.c:64`); an unreadable key
  of a channel aborts at every boot (`src/fanconfig.c:34`).
* A request that comes between `StartNetwork` and `StartTarget` aborts the controller (`src/main.c:63`).
* The second piece of a body is written over the entries behind its own (`src/network.c:880`): after the first body that the network cuts in two, nothing is left of what the server promises (`stray`).
* Every authenticated request loses two buffers (`src/network.c:194`), until the heap has no room and nobody is authenticated any more.
* With all entries of `client_info` in use, a peer that connects again whenever it is refused keeps the connected ones from being served (`src/network.c:1010`).

## 9. Plan

In this order:

1. `SocketSend`: the loop of `socket_send` over partial writes and `EAGAIN`, as a state machine and against "the bytes sent are the packet".
2. `System`: agents, `TcpServer` and `FanChannels` in place of `Target` (which implements it): a temperature reported by a logged-in agent takes effect, answers
   match requests, a duty in force is explained by the last report.
3. Proofs: of these two; and of the configuration in the flash as a refinement of a store that changes in one step.
