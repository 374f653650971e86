# TLA+ for sartoriuslib

`sartoriuslib` is an asynchronous Python library (anyio) that talks to Sartorius
laboratory balances over a serial port, in one of two protocols: xBPI (binary,
request and reply, no sequence numbers) and SBI (ASCII lines, which the balance may
also print on its own). This directory holds TLA+ modules for the parts of it where
order, failure and concurrency matter, the TLC configurations that check them, and
proofs of the most important invariants. Paths below are relative to
`src/src/sartoriuslib/` unless they start with `docs/`.

## 1. Inventory

| Component | State | Operations | Model |
|---|---|---|---|
| **Session** `devices/session.py` | active protocol and clients, `SessionState`, serial settings, availability per command name, capabilities, recoverable-error count | `execute` and its gates, `execute_raw_*`, `replace_clients`, `mark_broken`, `close` | `SessionSwitch`, `XbpiLink`; its gates and raw calls in `Upkeep` |
| **Result cache** of a Session | entry -> (0xBA counter, value) | `cached_execute`, `invalidate_cache`, called by `Balance.write_parameter`, `save_menu`, `reload_menu` | `ResultCache` |
| **Balance** `devices/balance.py` | `_info` | `configure_protocol`, weight reads, `capacity`, `increment`, `identify`, sensor discovery, `set_baud_rate`, `write_sbn_address`, parameters and typed settings, menus | `SessionSwitch`, `SbiAutoprint`, `ResultCache`, `Upkeep`, `Codecs` |
| **One-shot helpers** `maintenance.py` | none | open, one call, close | `Upkeep` |
| **xBPI client** `protocol/xbpi/client.py` | lock, disposed flag | `execute`: write, length byte, body, refuse or return; drain when malformed | `XbpiLink`; its lock in `SessionSwitch` |
| **SBI client** `protocol/sbi/client.py` | lock, disposed flag, `autoprint_active`, queue of lines | `execute`, `read_line`, `detect_autoprint`, `refresh_autoprint_state` | `SbiAutoprint` |
| **Serial transport** `transport/serial.py` | the open port or none, settings, pushback bytes | `open`, `close`, `reopen`, `write`, `read_exact`, `read_until`, `drain_input` | port and settings in `SessionSwitch`, bytes in `XbpiLink`, lines in `SbiAutoprint` |
| **open_device, detection** `devices/factory.py`, `protocol/detect.py` | local | sniff, one xBPI and two SBI probes, client seeding, identify with cold-open retry | `OpenDevice` |
| **Discovery** `devices/discovery.py` | rows of results | `discover_port`, the loop of `find_devices` over baud rates | `OpenDevice` (a sweep) |
| **StreamingSession** `streaming/stream_session.py` | mode, held first line | entering, iterating, leaving | autoprint mode in `SbiAutoprint` |
| **Recorder, pipe** `streaming/recorder.py`, `sinks/base.py` | bounded stream, tick accounting, batch buffer | producer, publish under BLOCK / DROP_NEWEST, batch writes | `Acquisition`, `SampleLog` |
| **SartoriusManager** `manager.py` | devices, shared ports with reference counts, state lock, per-port locks | add, remove, dispatch, close | `Manager` |
| **Sinks** `sinks/` | locked schema, handle, statement or writer | `open`, `write_many`, `close` of six sinks | `Sinks` |
| **Sync facade** `sync/` | portal, exit stack | every operation through a blocking portal | the sink adapter in `SyncSinks` |
| **Codecs** `protocol/xbpi/{framing,tlv,parser}.py`, `protocol/sbi/{framing,parser}.py` | none | build, parse, checksum, decode | `XbpiCodec`, `SbiCodec`, run by `Codecs` |
| **Tables** `registry/`, `commands/` | none | enumerations, codes, spellings, gates of the commands | `Settings` (six typed parameters); gates in `Upkeep`, opcodes and shapes in `XbpiCodec` |
| **CLI, test doubles, exceptions** `cli/`, `testing.py`, `transport/fake.py`, `errors.py` | none | parsing, printing, scripts for tests | not modelled |

### How the parts interact

A caller's task calls `Balance`, which calls `Session.execute`. The session checks its
state, the protocol and what it knows of the command, then awaits the lock of the
**client that is active at that moment**. Under the lock the client writes the request
and reads the reply from the transport; afterwards the session records what the reply
says about the command. `configure_protocol` takes the same lock, closes and reopens
the port under it, verifies the device with a new client, installs it, and retires the
old one, so tasks may be queued on a client that is retired when their turn comes. The
session's cache needs two exchanges (counter, value) and holds no lock between them. A
`StreamingSession`, a recorder and other tasks share the same session.

### What is hard

* **Interleaving at awaits.** All tasks run in one event loop, so code between two
  awaits is atomic and everything else is not: gates are passed before the lock is
  owned, the SBI flag is tested before the wait, the counter is read before the value.
* **No sequence numbers.** A late reply, a lost first byte, a timeout's pushback or an
  unsolicited line shifts every later reply.
* **Switching a live port**, where a reopen, a sniff, a probe, or the rollback's own
  reopen may fail, while requests wait and `close` takes no lock.
* **Two writers.** The front panel changes parameters, printing, menus and the protocol at
  any time, and a cold boot resets the counter that the cache relies on.
* **Retries**: of a cold open, and of detection with leftovers of the last probe or of a
  probe at another baud rate.
* **Composite calls**: series of requests with the lock free in between, of which any may
  be lost, refused or cancelled (`set_baud_rate`, `identify`, sensor discovery, `capacity`).
* **Storage**: a batch locks the schema before the table exists; a write, a flush or a
  close fails, or the process dies, part of the way.
* **Firmware dialects**: three ways to end a list of sensors, refusals that mean the
  command or its argument, words with several meanings.

### What makes each part correct

* Session and clients: at most one task uses the wire; a request is written only by the
  active client at the session's framing; after a failed switch port, transport and
  session agree or the session is BROKEN; availability tells the truth; calls return.
* xBPI link: bytes stay in order across timeouts; a reply lags by at most one request
  for every call that ended without a frame; denials are justified.
* SBI client: readings are delivered in print order, once; a queued line is never left
  behind; the autoprint flag clears once the balance is quiet.
* Cache: a read returns a value the parameter had during the call.
* `open_device`: a balance comes with an open port and any error leaves it closed;
  detection is right and keeps the first sample; retries are bounded; the call ends.
* Recorder and pipe: samples and drops account for the ticks; samples reach the sink in
  order and at most once; a pipe that returns has written everything; leaving ends the
  producer.
* Manager: references and ports agree, a port is closed when its last balance is gone,
  one exchange at a time on a port while its client lives, a poll that returns has a result for every balance.
* Upkeep: the session's rate is the balance's between calls; what was found out about the
  balance is so; nothing that it keeps changes for a caller who did not confirm.
* Sinks: what was acknowledged is stored and stays; a batch is whole in a database; a sink
  that failed does not run into its own assertions unexplained; what is left is quiet.
* Codecs: a request reads back as asked, an answer as meant, and a wrong frame or line
  passes for another only in cases that are named.

The full list of hazards, each with its source line and the property that covers it (or
why none does), is in `PROJECT.json` under `hazards`.

## 2. Modules

An action is one stretch of code between two awaits, where tasks interleave; names
follow the source. Operators marked `Mutant:` in a comment are used by no
specification: each is a plausible bug in the definition after it, and substituting it
must break the property that guards that code. Each `TypeOK` is a part of one of its
module's checked invariants.

### SessionSwitch (with SessionSwitchProofs, MCSessionSwitch)

Tasks that call `Session.execute` or `Balance.configure_protocol` on one session.

| Variable | Code |
|---|---|
| `lock[c]` | `_lock` of client `c`: holder first, then the waiters (anyio's lock is FIFO) |
| `client[t]`, `call[t]` | locals of the call: the client captured before the await, the command or the switch's target, captured and reopened settings |
| `active`, `proto`, `disposed` | the session's client, each client's protocol, retired clients |
| `state`, `framing`, `avail` | `SessionState`, `_serial_settings` (None: not tracked), `_availability` |
| `port`, `settings`, `closed` | the OS port's framing or Closed, `SerialTransport._settings`, `Session.close` was called |

`Execute` passes the gates and queues, `Send`/`Refuse` is what happens once the lock is
owned, `Reply` ends the exchange with the availability update. A switch goes `Configure`
(capture, queue), `Detach`, `Reopen`, `Opened`, `Quiet`, `Install`, or through `Fails` to
`Restore`, `Restored`. `Cancel` may hit a cancellable task at any await, `Close` comes
at any time.

### XbpiLink (with ClientProofs, MCClients)

One client and its transport byte by byte: `read_exact` with pushback, the two-step read
of a frame, timeouts, cancellation, drain, a device that answers late, loses the first
`Lost` bytes of a reply, or ignores a request. One call at a time, which is what
`SessionSwitch` establishes. A byte that is not a frame's first one gives an arbitrary
length out of `Misreads` when it is taken for one; the checksum is taken to reject
everything but one whole frame.

### SbiAutoprint (with ClientProofs, MCClients)

Tasks that `poll`, run an identity command, read the stream, refresh, or hold a
`StreamingSession`, on one SBI client, with a balance whose autoprint may be switched on or
off at any time. Lines are whole, numbered in the order sent, and one of `weight`, `status`
(the shape of autoprint but no reading: CAL. INT.), `text`, `garbled` (does not parse).
`Start` is what each operation does when it gets the lock, `PrintTakes`, `IdentityTakes`,
`SniffTakes`, `StreamTakes` what each does with a line. A `StreamingSession` (`mode`, `held`,
`got`) reads one line when it is entered, holds it back for the first iteration, skips lines
without a reading, and drops the held line when it is left.

### ResultCache (with ResultCacheProofs, MCResultCache)

`cached_execute`'s two exchanges, writes and menu commands by several tasks, front-panel
changes, cold boots that set the counter to 1, acknowledgements that never come. A quantity
(`capacity`, `increment`) is two cached reads, the number and the display unit, and keeps the
number when the second one fails. Some parameters are `Silent`: changing them does not bump
0xBA. Ghost variables: `bumps` is the unwrapped counter (the code only ever sees
`% Modulus`), `behind` the silent parameters that changed without an acknowledged write,
`seen[t]` the parameter tables there were during t's read, `excused` the tasks whose number
came from an entry that was stale unnoticed, `got` what a read returned in the step just
taken.

### OpenDevice (with PortProofs, MCPort, MCOpenDevice)

`open_device` with every `protocol` and `identify` argument, or a sweep by `find_devices`,
against a balance that speaks xBPI, SBI or nothing, prints or does not, answers a probe late,
in part, or not at all. A sweep opens the port at one baud rate after the other, detects,
closes, and adds a row to `rows`; at a rate that is not the balance's everything it sends is a
scrap. The wire carries whole lines, frames and scraps. `over` says that the deadline of the
sniff, or of a forced SBI open's listening, has passed (`Deadline`): `Sniff` and `Listen` read
a line only before it, and only it ends a window without autoprint. A balance that prints
need never fall silent: the lines' numbers start over once all were read (`LastNumber`), so what
ends the call on such a line is the deadline. `lost` is a ghost: a weight line was read or
drained and not kept.

### Upkeep (with UpkeepProofs, MCUpkeep)

One task, the keeper, makes the composite calls, on a Balance or by a one-shot helper of
`maintenance.py` that opens and closes one; a reader runs typed and raw commands at any time;
the front panel flips the protocol. A request with its reply is one step, answered, applied
without an answer, or lost.

| Variable | Code |
|---|---|
| `setup`, `bal` | the make, its sensors and how its firmware ends their list, counter, the kind of link, `strict`; what the balance keeps: protocol, rate, address, menu |
| `host` | protocol, port rate, `_serial_settings`, `_dst_sbn`, `SessionState`, port open, capabilities |
| `denied`, `info` | `_availability` entries UNSUPPORTED, `Balance._info` |
| `task` | where the keeper's call is, its arguments, what its caller said of `confirm` (`said`), and its partial results |
| `found`, `refused` | ghosts: what the last discovery returned; the commands that the balance refused to the client the session has now |
| `excuse`, `unasked` | ghosts: a named accident parted the rates; what callers had said of `confirm`, short of yes, whose requests changed the balance |

`Executes` is `Session.execute` past its gates (`GateSafety`, `GateProtocol`, `GateKnownDenied`,
`GatePriors`), `ExecutesRaw` the two raw calls. `RateStep`, `SbnStep` and `ReopenStep` are
`set_baud_rate`, `write_sbn_address` and `configure_protocol`, each with its own confirm gate
(`Confirmed`, `Unconfirmed`) before it passes `confirm=True` on; the last one installs a client
that knows of no refusal, rolls back or breaks the session. A caller says yes, no or nothing:
nothing is a no to a `Balance` and a yes to a one-shot helper, by their defaults. A firmware ends
its list of sensors by 0x10, by 0x04, or answers 0x03 to every absent sensor, and may list slots
without a sensor, which answer a sentinel, between the sensors and behind the last one. A
high-resolution read and an adjustment take an argument that a balance may refuse, by 0x04 on
firmware that uses it for a wrong index.

### Codecs (with XbpiCodec, SbiCodec, Settings, PortProofs, MCPort, MCCodecs)

`XbpiCodec`, `SbiCodec` and `Settings` are pure operators: frames, checksums, TLV records and
the decoders of every modelled xBPI command; SBI lines, the parser's and the autoprint
pattern; and the six typed parameters from a member, code or word to the byte and back.
`Codecs` runs one exchange after another through them. The balance reads the request by a
definition of its own and means something by its answer (`means`), which is the reference the
decoded result is compared with. One byte of an xBPI answer may change by any amount, an answer may
come after its call ended, and a host that listens to SBI lines may begin in the middle of
one. `late` is a ghost: the answer of an earlier call that is on the port before the call's
own. Floats are four bytes throughout; SBI words and units are one symbol each, with their
widths where columns count.

### Acquisition (with SampleLog, AcquisitionProofs, MCAcquisition)

A recording of `Ticks` ticks: `record()`'s producer, anyio's bounded stream, `pipe()` and
the caller who may be cancelled in `pipe`, call it again, and leave.

| Variable | Code |
|---|---|
| `pc`, `tick`, `emitted`, `late` | where `_run_producer` waits, its tick index, the summary's counters |
| `chan`, `offer`, `handed` | the stream's buffer, the item of a sender blocked in `send`, the item handed to a receiver that waited |
| `pipe`, `batch`, `flushed`, `wrote` | where `pipe` waits, its buffer, `last_flush`, what its summary counts |
| `now`, `overflow`, `left` | the event loop's clock, the policy, the context was left |
| `stored`, `before`, `lost` | ghosts: what the sink has, had when this pipe began, and what a failed pipe took with it |

`Schedule` is the head of the producer's loop: the slots that a late producer skips, then
sleep or poll. `Polled` is the end of a poll with `_publish` under each policy.

`SampleLog` is the abstract specification: ticks are taken in order, some are skipped,
those taken are on their way in order, at most `Room` of them, the oldest ones leave into
the sink or are lost, the newest may be withdrawn. `Acquisition` implements it
(`StoresInOrder`) under the mapping `flight <- batch \o handed \o chan \o offer`,
`next <- Undecided`, `Room <- BatchSize + Capacity + 2`: the batch, the buffer, and one
item each in the hands of the receiver and of the sender.

### Manager (with ManagerProofs, MCManager)

Tasks that call `add`, `remove`, `close`, `poll` (or `execute`, which dispatches in the same
way) and `configure_protocol` of a managed balance.

| Variable | Code |
|---|---|
| `lock` | `_state_lock`: holder first |
| `devices`, `ports`, `closed` | `_devices` in insertion order, `_ports` with transport, shared client and `refs`, `_closed` |
| `session`, `retired`, `open` | the client and transport of each add's session, disposed clients, transports whose `is_open` holds |
| `op[t]` | where task t is; for a poll one group per port with the set of members still to come |
| `interrupted`, `reopened` | ghosts: ports whose teardown was cancelled; transports that a switch opened when no balance was registered on them |

`stale` is a ghost as well: transports on which a switch held the lock of a client that had
been disposed before. An add resolves the port's entry, opens its transport, attaches a session to the shared
client, identifies, and registers; a failure undoes what it made (`Undo`). `Sweep` is the
loop of `close()`, from the last device to the next port to close. A dispatch looks each
member up when its turn comes, captures the session's client, and waits for it. A client's
lock is taken by any waiter, which allows for more orders than anyio's FIFO lock, and the
members of a group are asked in any order, of which the code takes one.

### Sinks and SyncSinks (with SinksProofs, MCSyncSinks)

`Sinks` is one sink object of each of the six classes and one caller: `open`, introspection,
the first batch that locks the schema (`Inferred`) and creates the table, writes, commits,
closes, cancellation, a crash and a new start. A step runs from one await to the next. A row
has the two columns whose type depends on the sample. `fate` is a ghost: what became of the
write of each sample; `scars` what went wrong with the object before. `SyncSinks` puts
`SyncSinkAdapter` around it: `__enter__`, blocking calls, an interrupted caller whose coroutine
goes on, `__exit__`, a portal of its own or a shared one. An interrupt may hit `__enter__` itself
while its open runs (`adapter = "abandoned"`): the exit stack waits for a portal of its own, a
shared one runs on, and either way the sink keeps what the open gives it (`Abandoned`).

### Composition

`SessionSwitch` provides what `XbpiLink` and `ResultCache` assume, one exchange at a time
(`SingleInFlight`, proved). `XbpiLink` opens up the single `Reply` step of
`SessionSwitch`; a reply that answers an earlier request is there, not in the session
model. `OpenDevice` ends where the others begin: an open port, one client, and for SBI
the flag and queue that `SbiAutoprint`'s initial states have. `Upkeep` takes whole requests as
steps, as `SessionSwitch` does whole exchanges, and a reopen as one step, which
`SessionSwitch` opens up. Every reply is its own request's there: what a refusal that comes late does
to another command's availability is `XbpiLink`'s question (`DenialJustified`). `Codecs` justifies what `XbpiLink` takes for granted of the checksum,
up to the case that `WrongFramesSeen` names (proved, and for any body in `DamageSeen`). `Acquisition`'s sink is any of `Sinks`.

## 3. Runs

| Run | Question | Bounds |
|---|---|---|
| `session_switch` | Are requests exclusive and on the right client and framing, do failures roll back or break the session, do all calls return? | 3 tasks (one switches, two are cancellable), 2 framings, 2 clients, 2 commands |
| `switch_race` | violation: two tasks call `configure_protocol` | 2 tasks, 3 clients |
| `clients` | xBPI: do bytes stay in order, how far can replies lag, when is a denial justified? SBI: order and completeness of readings, also past a stream's held line; the flag clears | xBPI: 4 calls, frames of 3 bytes of which 1 may be lost, 2 commands. SBI: 2 tasks (one streams, one gives commands), 3 lines, sniff of 2 |
| `result_cache` | Is a cached read fresh, and a quantity's number of its unit's moment? | 2 tasks, 2 values, a counter modulo 2, 2 changes or cold boots, a silent parameter, the display unit, and one parameter with an entry and a quantity |
| `port` | At its opening: port, detection, first sample, accounting of a sweep, termination. Once open: do requests read back, words resolve, answers and lines decode, wrong ones fail? | Opening: the code's 3 retries, 4 items sent, sniff of 2, 2 baud rates. Exchanges: every modelled command, argument bytes 0, 1, 255, 256, every changed byte, 4 readings, 72 displays, 24 words |
| `open_probes` | violation: detection tries every probe | those of an opening |
| `acquisition` | Do samples and drops add up, are slots skipped only when over, does the sink get samples in order and once, does leaving end the producer? | 5 ticks of 2 time units, a stream of 1, batches of 2, flush interval 3, 12 time units |
| `manager` | Do references, ports and transports agree, is one exchange or switch at a time on a port until a switch starts on a disposed client's lock, is a poll complete? | 3 tasks (one cancellable), 2 names, 2 ports, 2 adds, 2 switches, the second one on a shared port |
| `manager_second_switch` | violation: the same without that condition, for switches that never overlap | 3 tasks, 2 names, 1 port, 2 adds, 2 switches, one at a time |
| `sinks` | Are acknowledged samples kept, batches whole, assertions explained, is what is left quiet? | 3 samples, batches of 2, 2 opens; the table is absent, of the right types, of text, or lacks a column |
| `upkeep` | Do the rates agree, is what was found out so, does nothing change unconfirmed? | 2 rates, 2 addresses, sensors 0 and 1, 2 calls, 1 fault, 1 change on the front panel, the reader's temperature and high-resolution reads and menu saves |
| `upkeep_helpers` | violation: the one-shot helpers refuse without `confirm=True` | same, 1 call, no fault, no change on the front panel |

Two runs ask the questions of two modules: in `clients` a session has an xBPI or an SBI client,
in `port` a port is being opened or is open. The initial state chooses (`active`, `talks`),
every action of either module is a disjunct of its own, and the variables of the other module
stay as they were, so that each module has the behaviours of its own specification
(`LinkSpec` or `Spec`, `CodecSpec` or `Spec`), which are also what `ClientProofs` and
`PortProofs` prove about.

Why the bounds are enough. *session_switch*: a holder, a waiter that is overtaken by a
switch and one that is behind it need three tasks; a second client is what a switch
makes, and the second switch is the same step with other indices (the proofs cover any
number). *clients* on xBPI: a reply lost, one late, one shifted and one after a drain need four
calls; three bytes give a first, a middle and a last one. *clients* on SBI: a queued
line, one behind it on the wire and one still to come; a streaming task has its line held
back while the other reads. *result_cache*: modulus 2 makes two bumps wrap, and a cold boot
comes back to a pin; the proof covers every modulus. Tasks and values are symmetric there (no
liveness is checked). *port*, opening: a line in front of the first weight line, that line, and
one after it, with one to spare, and then the same numbers again for as long as the balance
prints; one wrong baud rate before or after the right one.
*acquisition*: five ticks fill the batch, the stream, and the hands of sender and receiver; two time units per
tick tell a slot that has begun from one that is over, and twelve let the producer be late
past its last tick. *manager*: two balances on one port or on two, one task for each of a
poll, an add, remove or close, and a switch, at the same time; a second add of a name, or of
a port whose entry a cancellation left. Names, ports and the two uncancellable tasks are
symmetric (no liveness is checked). Of a switch, registry and polls see no more than that its client and its open
port come and go; the second one matters where it meets the first one, in sequence or at once:
while both balances are on one port and the adds are over (`SecondSwitchOnSharedPort`, which
also leaves cancelled teardowns and several calls on the state lock to behaviours with one
switch; the proof has no such bound). *manager_second_switch* shows what the second one may do (finding 3). *sinks*: a batch of two is the smallest that can be cut; a
third sample is a batch after a failed one; the second open is a reopened or a restarted sink.
*port*, exchanges: one exchange and the one after it, which may find its late answer; a call does
not begin with a cut frame on the port, since `XbpiLink` follows the bytes there; the proofs
cover any weights, floats, arguments and damage, and late answers in a row. *upkeep*: one
call leaves something behind and the next meets it; a slot below and one above a gap. `MCSetups`
takes of all balances (`AllSetups`) one for each make and end of its list, with every list that
has a sensor and the empty one, and a strict session or a link where addresses matter only with
an MSE that has sensor 0; the proofs cover every one of
`AllSetups` and any number of rates, addresses, sensors, calls and faults.

Deadlock is not checked: each model may stop at its bounds (clients, calls, lines, changes,
samples, an `open_device` that returned), in `session_switch` when the session is BROKEN and
no call is under way, in `acquisition` when the caller has left or the clock is at its
bound, and in `upkeep` when the host is closed and its calls are used up. That no *call* is
stuck is the liveness property.

### Properties that hold

* `SessionSwitch`: `SingleInFlight`, `RequestsMatchSession`, `FramingAgrees`,
  `BrokenIsSilent`, `AvailabilityTruthful`, `CallsReturn`. The run and the proofs assume
  one task that switches and that it is not cancelled: see the findings and "limits".
* `XbpiLink`: `StreamOrdered`, `LagBounded`, `DenialJustified`.
* `SbiAutoprint`: `QueuedLineIsNext`, `StreamInOrder`, `RefreshClears`.
* `ResultCache`: `CacheSound`, `ReadsAreFresh`, the latter with two named exceptions: a
  silent parameter that changed behind the session, and a counter that has come back to the
  entry's pin, round its one byte or by a cold boot. A number with a unit are of one moment
  unless both changed between the two reads.
* `OpenDevice`: `PortFollowsOutcome`, `DetectedIsSpoken`, `FirstSampleKept`,
  `SweepAccounted`, `OpenEnds`.
* `Acquisition`: `TicksAccounted`, `SkipsMissedSlots`, `StoresInOrder` (the refinement of
  `SampleLog`), `LeavingEnds`.
* `Manager`: `RefsAgree`, `NothingLeaks` with two named exceptions (a teardown that was
  cancelled, a switch that outlives the registration of its balance),
  `SamePortSerialises` on ports where no switch has held a disposed client (finding 3 is the
  rest), `ResultsComplete`.
* `Sinks`: `AckedIsHeld` (a file opened again is overwritten; parquet and memory keep nothing
  of a process that dies), `RaisedIsAbsent` (sqlite; memory without repeats), `BatchesWhole`
  (sqlite and postgres), `AssertionsExplained`. `SyncSinks`: `LeftIsQuiet`, but for the handle
  that an interrupted `__enter__` leaves.
* `Codecs`: `RequestReadBack`, `AnswersRead`, `WrongFramesSeen`, and `TextReadTrue`, which is
  `SettingsResolve` for the words of a caller and `LinesReadTrue` for the lines of a balance. The
  cases in which another frame or line passes are listed in the last two.
* `Upkeep`: `RateKept` with four named accidents (the caller pairs a wire code with the wrong
  rate; a verification fails after the balance has taken another rate than the settings'; a
  cancellation on the way to the reopen; 0x5C sent raw), `KnowledgeTrue` but for a
  high-resolution read or an adjustment on firmware that answers 0x04 to a bad argument,
  `ChangesAreConfirmed` but for a one-shot helper whose caller says nothing (finding 4).

### Fairness

Only `CallsReturn`, `RefreshClears`, `OpenEnds` and `LeavingEnds` use it. `WF_vars(Resume(t))`: a task
inside a call is resumed. It is justified because every await under a lock is bounded by
a timeout (`fail_after` in the transport, the sniff's deadline) or by the operating
system's answer to an open or a close, and because the lock is handed on in arrival order,
so a waiter's turn comes. Weak fairness is enough: a suspended task stays resumable until
it is resumed. Nothing is assumed of the balance, of the callers beginning a call, or of
cancellation. `RefreshClears` asks in its own hypothesis for infinitely many refreshes;
the balance's lines are bounded by `MaxLines`, which stands for a balance that stops
printing. `Acquisition` assumes that the producer and `pipe` are resumed when they are
ready: polls are bounded by timeouts, and a sleep ends. The caller's steps and the clock are
not assumed to happen. `OpenDevice` assumes that `open_device` is resumed from its awaits
(`Advance`: a read of the sniff, the probes and the back-off all have time-outs), that time passes
(`Deadline`: `anyio.current_time()` reaches the window's end, however much the balance prints),
and that a sweep goes on to its next rate (`NextBaud`, `Open`), which is code between two
awaits. `OpenEnds` has a mutant that reads on past the deadline and one that retries for ever.

### Findings

Each is a run that TLC refutes; the details and quotations are in `PROJECT.json`.

1. `switch_race`: two overlapping `configure_protocol` calls. The second one waits for the
   lock of a client that the first one retires and does not look again; it then reopens the
   port while a request of the new client is on the wire.
2. `open_probes`: on a serial port that stays silent after the xBPI probe, AUTO detection
   raises the transient error and never writes the SBI probes.
3. `manager_second_switch`: two balances share a port. After `configure_protocol` of one of them,
   `configure_protocol` of the other waits on the lock of the client that the first call
   disposed, gets it at once, and closes and reopens the port under a poll of the first one. No
   two calls of `configure_protocol` overlap.
4. `upkeep_helpers`: `maintenance.py:6-8` and `docs/safety.md:21-23` say that nothing persistent
   happens without `confirm=True`; the one-shot helpers have `confirm: bool = True` as their
   default, and the tests call them without it.

### Seen while modelling

Where the code and what is written about it part, without a run of its own. The models follow
the code.

Session, balance, links:

* An SBI command that waited for the lock while another task learned that the balance
  prints takes the next weight line as its reply (`session.py:874`, `docs/design.md:243-247`;
  `IdentityTakes`).
* A write of a silent parameter that was applied but not acknowledged leaves the old value
  readable (`balance.py:837`, `docs/design.md:426`; `ReadsAreFresh` excepts it).
* A balance removed while a poll is under way raises `KeyError` out of the poll, which cancels
  the polls of the other ports (`manager.py:678`, `:22-23`; `ResultsComplete` speaks of polls
  that return).
* A cancelled add leaves an entry without references, and a later add on
  that port that fails to identify leaves the port open (`NothingLeaks` excepts it).
* `strict=True`: the probe of CONFIG_COUNTER in `identify` executes a command whose
  `capability_hints` are CONFIG_COUNTER, so `_gate_priors` (`session.py:592`) refuses it and
  `balance.py:628` swallows the refusal. A strict session never has the counter and never
  caches (`GatePriors`, `IdentifyStep`).
* `read_net_hires`, `read_gross_hires` and `internal_adjust` take an argument and are not marked
  `parameterized` (`commands/weight.py:168-180`, `calibration.py:133`, against `base.py:121`): on
  firmware that answers 0x04 to a bad argument one of these denies the command for the session
  (`Unflagged`; `KnowledgeTrue` excepts it).
* `write_sbn_address` reads the address back (`balance.py:1351`) before it updates the
  destination (`:1356`): on a multidrop link the read goes to the old address, times out, and
  `update_session_dst` has no effect (docstring at `:1315`; `ReadbackStep`).
* A verification that fails after the balance took a new rate rolls the port back to the old
  rate and leaves an OPERATIONAL session that reaches nobody. Commands sent between 0x5C and the
  reopen are lost at the old rate. `identify` drops the sensors that a discovery has found.
* `protocol/xbpi/client.py:10-12` and `:138-141` say that error-subtype replies drain the
  input, and the code does not (`TakeFrame`). After a damaged length byte, later calls resynchronise on
  stale frames.
* A `StreamingSession` whose entry fails counts as entered, one that is left drops its held
  line, and in poll mode one that is late catches up in a burst. A poll that chose ESC P before the
  flag was set reads newer lines than the queued ones (`balance.py:404`).

Codecs and tables: the comments at `commands/tare.py:45`, `calibration.py:122`, `system.py:76`
and `parameters.py:131` say that the client validates subtypes; it does not, and
`WrongFramesSeen` lists what follows. An off-scale weight decodes as "no sensor". The tail of
a stable SBI line passes for a smaller reading (`sbi/parser.py:223`), an "ERR nn" line counts as
autoprint, OVERLOAD and UNDER are weights that do not, and a line with a byte that is not ASCII raises.
`resolve_unit("/lb")`, the value of `Unit.PARTS_PER_POUND`, gives LB. A setter takes the member of
another enumeration by its code. The table says that a change of p36 bumps the counter,
`docs/protocol.md` 10.1 that it does not.

Discovery: `baudrate` is set in results of ports that were not opened, `summary.error` is the
first error, and any `SartoriusConnectionError` counts as a port that cannot be opened. A reply
that lost its first bytes times out with bytes in hand (`serial.py:241`), which is not the
transient that the cold-open retry handles (`factory.py:162`).

Sinks: a first batch of failed polls locks `value` as text; a postgres pool stays open when
introspection fails; a `KeyboardInterrupt` in `__enter__` leaves the handle that its open gets
(`sync/sinks.py:162`, `portal.py:128`; `Abandoned`); `parquet.py:20-21` contradicts `:32`; rows of a csv or jsonl batch that
raised may appear later; a close that fails leaves a dead handle; a reopened parquet sink
asserts; with `create_table=False` the databases cannot be reopened. `pipe` looks at its
`flush_interval` only when a batch arrives (`sinks/base.py:187`, `:224`).

## 4. Proofs

`SessionSwitchProofs` proves, for every number of tasks, commands, framings and clients:

| Theorem | States | Assumes |
|---|---|---|
| `TypeCorrect` | `Spec => []TypeOK` | nothing but the constants' types |
| `SingleRequest` | `[]SingleInFlight` | at most one task that switches |
| `NoStaleRequest` | `[]RequestsMatchSession` | one switcher, not cancelled |
| `FramingRestored` | `[]FramingAgrees` | one switcher, not cancelled |
| `BrokenSilence` | `[]BrokenIsSilent` | one switcher, not cancelled |
| `AvailabilityCorrect` | `[]AvailabilityTruthful` | at most one switcher |

The assumptions are not the code's: nothing stops two tasks from calling
`configure_protocol`, and finding 1 shows that `SingleInFlight` is then false. They are
what a caller must observe.

The argument has three layers, each inductive relative to the one before.

1. `LockInv` = `TypeOK`, a task inside the locked region is the head of its client's lock,
   and the locals of a call fit where it is. The lock lemma is that a step of one task
   never takes the head of a queue from another: joining appends, leaving by cancellation
   removes another index, only the holder removes the head.
2. `OwnerInv` locates the tasks. The holders of different clients' locks exclude each other
   only because a client that is not active is retired, so no task can be in an exchange
   with it, and only the switcher could be in the locked region of a retired client. This
   is where a second switcher breaks the proof. `SingleInFlight` follows.
3. `FramingInv` follows the switch: at each of its await points it says what the port, the
   transport's settings, and the captured settings are relative to the session's framing;
   and while no switch is under way that they agree or the session is broken. None of
   `RequestsMatchSession`, `FramingAgrees`, `BrokenIsSilent` is inductive alone: each needs
   to know what the switch will restore. `PassiveStep` and `SwitchStep` split the steps
   into those that leave the port alone and those of the switch.

`AvailabilityTruthful` needs from layer 2 that an exchange belongs to the active client,
otherwise a reply of the old protocol would be recorded under the new one.

`ResultCacheProofs` proves, for every number of tasks, parameters and cache keys, every modulus
and any number of changes and cold boots:

| Theorem | States | Assumes |
|---|---|---|
| `CacheIsSound` | `Spec => []CacheSound` | `CacheAssumption` |
| `CachedReadsAreFresh` | `Spec => ReadsAreFresh` | `CacheAssumption` |

Soundness is not inductive: an entry is stored from a reply that arrived earlier, under a
counter read before that. `IInv` adds that no pin is ahead of the counter (`PinInv`) and that a
reply which would be stored under the counter as it is now has the device's value
(`ReplyInv`); the device side is one lemma, that while the counter stands only parameters
change that are then `behind`. Freshness needs `FreshInv` on top: the tables seen so far contain
the present one, and a number that is held came from one of them or its task is excused.

`UpkeepProofs` proves, for every set of rates, addresses, commands and raw requests of the
reader, every sensor list, and any number of calls, faults and panel changes:

| Theorem | States | Assumes |
|---|---|---|
| `RatesAgree` | `Spec => []RateKept` | `UpkeepAssumption` |
| `KnowledgeIsTrue` | `Spec => []KnowledgeTrue` | `UpkeepAssumption` |
| `ChangesConfirmed` | `Spec => []ChangesAreConfirmed` | `UpkeepAssumption` |

`IInv` = `Types`, `RateInv`, `KnownInv` and `ChangesAreConfirmed`. `RateKept` speaks of moments between
calls; `RateInv` says what holds inside one: the port is open at the session's rate, and the
balance's rate is that one or, while a confirmed reopen is to come, the one that was asked for.
`KnownInv` says that a denied command was refused to the present client with reason
(`Justified`), which a new client makes true again by forgetting; and that a discovery under way has
heard exactly the slots below the next one that answer; each firmware's end marker then gives
the whole list. Each request is one of two lemmas, for typed and for raw ones, which say
that without `confirm` neither rate, address nor menu changes; for the composite calls, which
pass `confirm` on as TRUE, it is their own gate that `ChangesAreConfirmed` rests on.

`PortProofs` has two halves: which protocol is on the port, and what goes over it. Of
`OpenDevice`, for every number of retries, queued lines, items on the wire and baud rates, it
proves:

| Theorem | States | Assumes |
|---|---|---|
| `PortSafe` | `Spec => []PortFollowsOutcome` | `OpenAssumption` |
| `DetectionSound` | `Spec => []DetectedIsSpoken` | `OpenAssumption` |
| `SweepSound` | `Spec => []SweepAccounted` | `OpenAssumption` |
| `FirstSampleSafe` | `Spec => []FirstSampleKept` | `OpenAssumption` |

`IInv` has one part for each reason. `PhaseInv`: where `open_device` is says whether the port is
open and what it was asked and has found. `WireInv`: a whole line or frame is on the wire only if
the balance speaks so at this rate, so that no evidence can mislead. `RowsInv`: one row per
rate that is done, and none but the last ends the sweep. `FirstInv`: until the first line
of autoprint is found nothing but lines has come, and the wire is everything that was sent
since some moment (`Unbroken`); the first line read is then the oldest, and the wire goes on
where it ended.

Of `Codecs` it proves, for every set of weights a balance can put in its eight bytes, of
four-byte floats, of arguments that callers give and of amounts that are added to a byte:

| Theorem | States | Assumes |
|---|---|---|
| `RequestReadBackAlways` | `CodecSpec => []RequestReadBack` | `CodecsAssumption` |
| `AnswersReadAlways` | `CodecSpec => []AnswersRead` | `CodecsAssumption` |
| `WrongFramesSeenAlways` | `CodecSpec => []WrongFramesSeen` | `CodecsAssumption` |
| `FrameReceived` | a frame of any body that fits is taken whole, and what follows it stays | nothing |
| `DamageSeen` | one changed byte of it is seen, or the frame was cut | nothing |

`CodecsAssumption` says what a balance can send: a weight is four bytes, a number of decimals
that fits in four bits, one of three signs, a known unit and a stable flag, and its bytes are
not those of a missing sensor; a float is four bytes, not those either; and a display line has a
sign, a unit and at most eight digits and points.

The checksum, the balance's own sum and the walk over argument records are recursive functions
on the positions of a row of bytes. `Induct` makes induction over the numbers usable without
an operator as parameter: it speaks of a set, and takes its least missing member. With it
`Grows` gives every such function its equation, `ChecksumIsSum` says that the sum modulo 256
taken byte by byte is the sum modulo 256 of them all, and `SumsDiffer` that rows which differ in
one byte have different sums; `FrameReceived` and `DamageSeen` follow, with a case for each
place of the changed byte (length, marker, body, sum). `ParseTlvsIs` and its corollaries do the
same for the records of a request and for the two of a parameter's entry.

Then one lemma for each kind of answer says that its decoder returns what the balance meant
(`MeasurementReads`, `StatusReads`, `FloatReads`, `ParameterReads`, `CalRecordReads`,
`TextReads`, ...), and `ProperUnderstood` collects them with what tells the answers apart: the
size of the body, the subtype, the bytes of a missing sensor (`Shaped`). `LateSeen` goes through
the decoders once more with the answers of the other commands.

`CodecInv` adds to the properties what is on the port at each stage (`LateInv`, `WayInv`): nothing
or the late answer before the call's own, then that answer as it was sent or with one byte
changed, or both answers one behind the other. A late frame is taken whole, so what is left
behind it is the call's own answer, late for the next call; that makes the invariant inductive,
however many calls are late in a row.

`AcquisitionProofs` proves, for every number of ticks, period, capacity, batch size, flush interval
and horizon:

| Theorem | States | Assumes |
|---|---|---|
| `AccountsBalance` | `Spec => []TicksAccounted` | `AcquisitionAssumption` |
| `SlotsSkippedFairly` | `Spec => SkipsMissedSlots` | `AcquisitionAssumption` |
| `ImplementsSampleLog` | `Spec => StoresInOrder` | `AcquisitionAssumption` |

`IInv` = `Types`, `Phases` and `Counts`. `Phases` says what may be in which buffer at which
await: an item is offered only by a producer that is blocked and it is its tick, an item is
handed over only to a pipe that waits, and a pipe that waits with nothing handed has left
nothing in the stream (so that a hand-over overtakes nobody). `Counts` adds up. The arithmetic
of the schedule is three lemmas on quotients and products. The refinement takes the four
buffers end to end as the samples on their way; each action is then one lemma, most of which
say that an item moved from one buffer to the next and the concatenation stayed.

`ClientProofs` has two halves, one for each client. Of `XbpiLink`, for every set of commands, frame
size, number of calls and lost bytes, and whatever a byte inside a frame says as a length, it proves:

| Theorem | States | Assumes |
|---|---|---|
| `BytesInOrder` | `LinkSpec => []StreamOrdered` | `LinkAssumption` |
| `RepliesLag` | `LinkSpec => []LagBounded` | `LinkAssumption` |
| `DenialsJustified` | `LinkSpec => []DenialJustified` | `LinkAssumption` |

`LinkInv` sees the four places where bytes wait as one sequence, and each action either leaves it
as it is, drops a front part of it, or adds a frame behind it. `Order` says that this sequence
is in the order of sending, that it lies after the last reply that was returned and no later
than the last call, and that the requests which the device still has come after it. A frame
is read whole only from one answer, so what remains behind it belongs to later requests: that
makes `Order` inductive, and replies strictly increase. `Lag` counts: a call either gets a
later reply than the one before or adds to `missed`. With nothing missed the two meet, the
reply is the call's own, and `DenialJustified` follows; it is not inductive without them.

Of `SbiAutoprint`, for every set of tasks, commanders and streamers (which may overlap),
number of lines and sniff length, it proves:

| Theorem | States | Assumes |
|---|---|---|
| `NothingLeftBehind` | `Spec => []QueuedLineIsNext` | `AutoprintAssumption` |
| `ReadingsInOrder` | `Spec => StreamInOrder` | `AutoprintAssumption` |

The queue is not in order: a surprised command puts a new line in front of old ones. What holds
is that it has one weight line at most (`QueueInv`), for a line is queued only by a task that
found no flag, hence no weight line, and by a sniff, which began with an empty queue and ends
at the first. `ReadInv` is what a task that reads may still rely on because it holds the lock,
and `LockInv` is why. `PastInv` says of every line that was read, taken for a reply, held or
handed out that nothing older is to come; `HeldInv` that a stream that holds its first line
back does not read.

`ManagerProofs` proves, for every set of names, ports and tasks, every set of tasks that may be
cancelled and any number of adds and switches:

| Theorem | States | Assumes |
|---|---|---|
| `RegistryAgrees` | `Spec => []RefsAgree` | `ManagerAssumption` |
| `NothingLeaked` | `Spec => []NothingLeaks` | `ManagerAssumption` |
| `PollsComplete` | `Spec => []ResultsComplete` | `ManagerAssumption` |
| `PortsSerialise` | `Spec => []SamePortSerialises` | `ManagerAssumption` |

Both registry properties speak of moments when the state lock is free; a call that holds it is half way between
two registries that agree. `LockInv` says that only the head of the queue is past its first
await, so there is at most one such call, and `PortInv` says what it has done by then: the port it
works on has no balance if it is to be dropped, and every other port's references are its
balances. `IdInv` keeps the numbers of adds apart (an add that has not opened its port has left
no trace), without which a new transport could be an old one. `ClosingInv` says that a
transport which is being closed is open again only if a switch opened it behind the registry's back;
that is the exception which `NothingLeaks` names. One lemma for each action shows the step of the
registry, and three for whole groups of steps: those of the holder of the lock, those of tasks
that join its queue, and those under no lock at all.

`ResultsComplete` speaks of the moment when a poll returns. `PollInv` says of every moment before
it that a target has its result or is still in the group of its port: a balance removed
meanwhile ends the poll with an error, a cancelled poll returns nothing, and a member leaves its
group only with its result.

`SamePortSerialises` follows from `SInv`: a client has one user (`UseInv`), and the sessions
of one transport have one client, the port's, unless they have a retired one, which
only a switch can begin to use (`ClientInv`). A switch that does so puts its transport among the
`stale` ones, of which the theorem says nothing (finding 3); on every other one any number of
switches may follow each other, of the same balance or of one that joined later.

`SinksProofs` proves, for every set of tables that may be there before, every number of samples,
batch size and number of opens, of `Sinks` with the adapter around it (`SyncSpec`):

| Theorem | States | Assumes |
|---|---|---|
| `AckedHeld` | `SyncSpec => []AckedIsHeld` | `SinksAssumption` |
| `RaisedAbsent` | `SyncSpec => []RaisedIsAbsent` | `SinksAssumption` |
| `AssertionsAccounted` | `SyncSpec => []AssertionsExplained` | `SinksAssumption` |
| `BatchesAreWhole` | `SyncSpec => BatchesWhole` | `SinksAssumption` |
| `LeavingIsQuiet` | `SyncSpec => []LeftIsQuiet` | `SinksAssumption` |

What a sink holds, stored or in its buffer, only ever loses its end or grows by the latest batch,
in every call and every failure; most lemmas say which of the two a step does. That alone does not
give the properties, since batches are written again after they raised. `IInv` therefore has
`WriteInv`, which ties the ghost `fate` to the batch and to where the write is; `NumberInv`, that
only samples written so far can be held; `OrderInv`, that what is held is in the order of
writing but for repeats, and that the latest batch can follow it (`Ready`), which is what a
retry needs; `AbsentInv`, that in sqlite and memory a batch which raised is not there and nothing is
twice; and `TxnInv`, that the transaction which is about to be committed is the whole batch, from which
`BatchesWhole` follows. `AckedInv` says what no crash, cut or rollback may take. `PreparedInv`
follows the schema, the statement and the handle: a locked schema without its statement is
that of a create under way or of one that failed. For the adapter, `AdapterInv` says at each place
of the with block whether the portal runs and what is left of the handle; an interrupted
`__enter__` has places of its own, where the handle stays.

Only model-checked: the liveness properties `CallsReturn`, `RefreshClears`, `OpenEnds` and
`LeavingEnds` (out of the proof system's reach), and `TextReadTrue` of the codecs. Its part
`LinesReadTrue` matches patterns with several alternatives against rows of symbols, and what is
true of a line depends on the symbols there are: it is a statement about the lines the run
prints. Its part `SettingsResolve` compares tables of words with what callers mean by them, and those
meanings are the run's data: there is no larger value of the constants to prove it for. The four
violations are counterexamples and have nothing to prove.

## 5. Limits of the models

* Cancelled switches. `configure_protocol`'s handler is `except Exception`; a cancellation
  leaves the port closed or at the new framing with the session OPERATIONAL. The documents
  promise nothing for it; `session_switch` and its proofs exclude it, and in `Upkeep`, which
  has it, `RateKept` names it as an accident.
* `Session.close` during a switch: the switch reopens the port. The properties of
  `SessionSwitch` make no claim about a closed session's port.
* `BrokenIsSilent` needs tracked settings: without them a failed switch marks the session
  BROKEN and leaves the old client usable by calls that already wait.
* `SessionSwitch` takes safety and prior gates as passed: they refuse before any state is
  touched, and `Upkeep` has them.
* SBI refusal lines, commands without a reply line (tare, zero), partial lines, and
  replies of several lines are left out of `SbiAutoprint`, and poll mode of `StreamingSession`.
* In `OpenDevice` and `Manager` identification is one step per attempt; ports of a discovery
  are swept side by side and share nothing, so there is one.
* `Acquisition`: recordings of finite duration only; a batch has one sample; what a batch
  contains and the drift statistics are left out; the clock stops at `Horizon`.
* `Manager`: sources are port names in canonical form, a `Balance` or `Transport` as source
  is left out, as are the `identify` that ends a switch and the wrapping of errors by the
  error policy. `open` means that the library holds the port open; whether a cancelled
  `aclose` has closed it is the driver's affair.
* `Upkeep`: one keeper; `configure_protocol` at the present protocol and framing, which only
  returns `_info`, is left out; the makes answer as the documents say; the menu is one bit; an
  argument is good or bad, and only the commands of `Unflagged` and the sensor index have one;
  replies are never late (`XbpiLink` has these).
* `OpenDevice`: a deadline is a moment at which the window is over, whatever its length; the lines'
  numbers start over only when no line is on the wire or kept.
* `Codecs`: one fault at a time; floats are four bytes; wording is left out. The balance's side
  is external and follows `docs/protocol.md` and the fixed columns that the parser counts on.
* `Sinks`: one caller; a row has two columns; the files' contents are rows, and the disk fails
  only in the calls that report it.

### Not modelled

`SyncBalance` and `SyncSartoriusManager` pass each call to the portal and keep no state; the
blocking `record` and `pipe` wrap what `Acquisition` has. The record types of
`devices/models.py` and the tables beyond the modelled commands are static data. The command line tools
parse arguments and print. `testing.py` and `transport/fake.py` play the balance in tests.
Tare, zero, adjustment and the status reads are single `execute` calls without state of their
own: they appear as commands in `SessionSwitch`, `Upkeep` and `Codecs`.

## 6. Plan

Done, in this order: `SessionSwitch` and its proofs, `XbpiLink`, `SbiAutoprint`,
`ResultCache`, `OpenDevice`, `Acquisition` with `SampleLog`, `Manager`, because every other part
goes through them; then the sweep in `OpenDevice`, the held line in `SbiAutoprint`, cold boots
and quantities in `ResultCache`, `Sinks` with `SyncSinks`, the codecs, `Upkeep`, and the proofs
of `ResultCache`, `Upkeep`, `OpenDevice`, `Acquisition`,
`XbpiLink`, `SbiAutoprint`, `Manager`, `Sinks`, `SyncSinks` and `Codecs`.

What is left, in the order of what it would add:

1. SBI replies of several lines and refusal lines in `SbiAutoprint`; the cadence of
   `StreamingSession`'s poll mode; open-ended recordings; the other sources of `Manager.add`.
