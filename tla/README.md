# Fujitsu Waterstage: TLA+ models, checks and proofs

`custom_components/fujitsu_waterstage` is a Home Assistant integration that
talks Modbus, through an RS-485 gateway, to the FWS-MBIO-002 interface boards
of Waterstage heat pumps. This directory keeps its formal models: what each
part promises, that the code as written keeps the promise on small instances
(TLC), and for some of it on all instances (TLAPS). All paths below are
relative to `src/custom_components/fujitsu_waterstage/` unless they say
otherwise.

Run a check with `tlc -config X.cfg M` (the table under "Runs" gives X and M),
a proof with `tlapm M.tla`. `PROJECT.json` lists components, runs, hazards,
findings and theorems, maps every definition to the lines it models, and names
for every property a faulty variant of the code that breaks it.

## The system

| Component | State | Operations | Hard because |
|---|---|---|---|
| **Gateway connection**, `ModbusGateway` in `hub.py` | bus lock, pymodbus client, framing, time of the next request | `_execute` (lock, connect, pace, send, retry with backoff), `async_set_framing`, `async_close` | one bus for all; late answers; cancellation at every await; a retry repeats what may have been done |
| **Gateway registry**, end of `hub.py` | `_GATEWAYS`, `_users` of each gateway, `_REGISTRY_LOCK` | `async_get_gateway`, `async_release_gateway` | the last user closes while the next one asks |
| **Entry life cycle**, `__init__.py` | the runtime of each entry, the stored room sensors | set up, unload, reload, restart, second read | a set-up fails at several points, each of which must give the gateway back; a restart may find a board that answers 0 everywhere |
| **Config flow**, `config_flow.py` | the form's answers; entry data, options and unique id | `async_identify`, initial discovery, options, abort with an update of host and port | probes a connection that running entries use; the entry it updates was proved at another place |
| **Tier coordinator**, `MbioCoordinator` in `coordinator.py` | `data`, `raw`, `last_update_success`, poll timer | poll, targeted re-read, warm-up | a poll spans many requests, and writes and re-reads fall in between |
| **Runtime**, `WaterstageRuntime` in `coordinator.py` | optimistic values and their deadlines | write, press, confirm, link watcher | what is shown is one of three: written, re-read, polled |
| **Read groups**, `build_read_groups` and `ReadGroup` in `hub.py` | none once built | packing, slicing | pairs, holes, the request limit |
| **Codec**, `codec.py`, and **register map**, `registers.py` | none | decode, encode, validate | flags inside the value, rounding, signs |
| **Discovery**, `discovery.py` | the read rounds | run, judge blocks and room sensors, select registers, assign controls | the board answers 0 until it knows, and placeholders look real |
| **Entities** (`entity.py`, `sensor.py`, `number.py`, `climate.py`, ...) | what Home Assistant holds of each; the listeners of every coordinator | show, write, follow registers of other tiers | Home Assistant asks only when a coordinator calls; unchanged polls call nobody; availability hangs on a register of another tier |
| **Link watcher**, `async_link_watcher` | the last link status it saw | tell the other tiers of a change | register 0 is one register of one group of one tier |
| **Diagnostics**, `src/tools/dump.py` | none | read-only reports | |

How they interact. A config flow or an entry's set-up takes a gateway from the
registry and gives it back to it. Everything an entry does on the bus
(four polling tiers, confirming re-reads, writes of service calls, the second
read) ends in `_execute` of the gateway, which several entries may share. The
coordinators call back their listeners, the entities, which read
`WaterstageRuntime.decoded` and `register_is_available`. All is one asyncio
event loop: code between two awaits is atomic, and anything may happen at one.

What makes each part correct:

* *connection*: one request on the bus at a time; nobody gets another's
  answer; what is reported as written was written; every call ends; the idle
  gap is kept; the connection speaks the gateway's framing;
* *registry*: all users of an address share one connection, which is closed
  when, and only when, the last one has gone; the framing of the hardware stays set;
* *tier and runtime*: nothing old is shown as current, a written value gives
  way to a newer reading only, and in the end every entity shows its register;
* *entities*: Home Assistant holds what the entity would say now, nothing of the
  controller's is on show behind a dead link and no temperature of a board that
  is warming up, and what a command set is what its entity shows;
* *read groups*: as few requests as the rules allow, every register in one;
* *codec*: what is written reads back, what is read can be written back, the
  disable flag and the value do not disturb each other;
* *discovery*: no circuit is invented and none that was seen is lost; a
  register never has two controls, nor one its write level forbids, and a
  restart takes no thermostat away;
* *entries*: an entry talks to the board it was made for.

The list of hazards in `PROJECT.json` says where each of these can go wrong.

## The modules

| Module | Models | State and actions in terms of the code |
|---|---|---|
| `ModbusTransport` | the promise of a gateway to its callers | `status` of each call, `applied` attempts of each write |
| `ModbusGateway` | `ModbusGateway._execute`, `_ensure_connected`, `_pace`, `_disconnect`, `async_set_framing`, `async_close` | `pc` is where a task waits: for the lock, in `connect`, in `_pace`, for the answer, in its backoff. One action per stretch between two awaits. `holder` and `queue` are the FIFO `asyncio.Lock`; `client`, `framing` the attributes; `wire`, `answers`, `orphans` what the socket and the network hold |
| `ModbusGatewayProofs` | | theorems about `ModbusGateway` |
| `GatewayRegistry` | the promise of the registry to those who share an address | `uses` the object each works with, `late` the object a service call will try again, `kept` what a set-up that raised did not give back, `open` connections; leaving and closing are one step |
| `SharedGateway` | registry, `async_setup_entry`, `async_unload_entry`, `async_identify`, `_async_initial_options` | an actor is an entry or a flow; `stage` and `step` say where it is; `registered`, `locked`, `users` are the registry; a whole request is one step |
| `SharedGatewayProofs` | | theorems about `SharedGateway` |
| `WaterstageTier` | `MbioCoordinator` and the writing half of `WaterstageRuntime` | `data`, `success` are the coordinator's; `values` what a running poll holds; `optimistic`, `confirm` the overlay and the `_confirm` tasks; `board` what the registers really hold |
| `WaterstageTierProofs` | | theorems about `WaterstageTier` |
| `CompositeEntities` | tables and commands of `climate.py` and `water_heater.py` | no state: `HVAC_TO_MODE`, `PRESET_TO_MODE`, `OPERATION_TO_MODE` and their inverses, what a state of the mode register shows, what each command sets and writes |
| `EntityStates` | all tiers of an entry: set-up, polls and re-reads, warm-up (`_apply_warmup`, `_async_second_read`), link status and `async_link_watcher`, the listeners, `WaterstageEntity`, the commands | `data`, `success`, `settled` are the coordinators'; `lastLink`, `heard` the watcher's; `optimistic`, `confirm`, `command` the runtime's; `shown` what Home Assistant holds of each entity; `truth`, `board` what controller and board hold |
| `EntityStatesProofs` | | theorems about `EntityStates` |
| `ReadGroups` | `build_read_groups`, `ReadGroup` | one action per branch of the loop, then one read per group |
| `ReadGroupsProofs` | | theorems about `ReadGroups` |
| `RegisterCodec` | `codec.py`, `Register.validate` | one register of the board that is read, written, and switched off in the controller's own menu |
| `RegisterCodecProofs` | | theorems about `RegisterCodec` |
| `BlockDiscovery` | `async_run_discovery` and its judgement, `select_registers`, `write_allowed`, `assign_controls`, the options flow, what failed set-ups, restarts and reloads make of the stored options | `fetched` is what the board has got over the BSB bus; `values`, `collected` the rounds; `controls` what the set-up assigns; `recorded` whether the entry has its room sensors on record (an older one has not) |
| `BlockDiscoveryProofs` | | theorems about `BlockDiscovery` |
| `BoardEntriesProofs` | | theorems about `BoardEntries` |
| `BoardEntries` | the end of `async_step_user`: unique id, abort with update, creation of the entry | `place` where each device answers; `entry` the data stored under each unique id; `flow` what a flow in the middle of discovery has found |

`ModbusGateway` implements `ModbusTransport` (property and theorem
`TransportSpec`/`Refinement`), and `SharedGateway` implements
`GatewayRegistry` (`RegistrySpec`/`Refinement`): the count, the registry and its
lock, several steps to take and to give back, look to the users like one each.
`SharedGateway` and `WaterstageTier` rest on it:
there a request is one step that ends with an answer or without one, which is
what `ModbusTransport` and `Termination` promise. `EntityStates` is one level
up again: a poll is one step, all tiers, the link and the entities are there;
how writes and re-reads fall into the middle of a poll is `WaterstageTier`'s.

A definition whose comment begins with "Fault of X" is not part of the model:
it is X with a plausible bug, kept beside it to show which property notices.

Definitions marked external in the map stand for what is not in this
repository: the board and the controller behind it, the network and the RS-485
gateway, pymodbus, Home Assistant's `DataUpdateCoordinator`. They do what the
code has to reckon with: lose, delay or refuse a request, drop the connection,
reconnect, carry out a write whose caller has given up.

## Runs

| Run | Config, module | Question and result |
|---|---|---|
| gateway | `ModbusGateway`, `ModbusGateway` | exclusive bus, fresh answers, framing, pinned connection, gap, the promise of `ModbusTransport` (true writes among it), termination: hold |
| tier | `WaterstageTier`, `MCWaterstageTier` | overlays and their confirmation, honesty up to re-reads, readings newer than writes, registers shown as they are, convergence: hold |
| undo | `TierUndo`, `MCWaterstageTier` | is a confirmed value safe from an older poll? **No** |
| shared | `SharedGateway`, `MCSharedGateway` | counts, one connection, the promise of `GatewayRegistry` (sharing and closing), no waiting for ever: hold |
| framing | `GatewayFraming`, `MCSharedGateway` | does a discovered framing stay? **No** |
| connections | `GatewayConnections`, `MCSharedGateway` | one connection per address? **No** |
| read_groups | `ReadGroups`, `MCReadGroups` | the three rules of the packing, its optimality, the slicing: hold |
| codec | `RegisterCodec`, `MCRegisterCodec` | round trips: hold |
| discovery | `BlockDiscovery`, `MCBlockDiscovery` | the verdict, the controls, the levels, the options, restarts, coming up after failed set-ups: hold |
| entities | `EntityStates`, `MCEntityStates` | nobody forgotten, nothing behind a dead link, no placeholder, commands show, the truth in the end: hold |
| outage | `EntityOutage`, `MCEntityStates` | does an outage stay hidden until register 0 is read again? **No** |
| neighbour | `BoardNeighbours`, `MCBoardEntries` | does an entry use only places where a board proved itself? **No** |

The five with **No** check what a comment, a docstring, a test or the README
says of the program against what the code does; `PROJECT.json`, "findings",
quotes the line and describes the behaviour TLC finds.

Four more limits of the code are visible in what the properties that hold exempt. A
press that is retried may be carried out once per attempt: `TransportSpec`
counts the attempts that were applied and allows each one. A re-read that fails
takes the written value down before its deadline: `ReadingIsNewer`
speaks of the re-reads that succeed. A re-read after a failed poll makes the
whole tier available again with old values: `StaleOnlyAfterRevival`. And the
warm-up window belongs to the coordinator, not to the board: `PlaceholderHidden`
speaks of the window only, and a board restarted later (`BoardRestarts`) shows
its zeros until it has fetched the values.

### Bounds, and why they are enough

* *gateway*: two calls with two attempts, of which one writes and one can be
  cancelled, a switch and a close. A late answer can then meet the retry of its
  own call, another call, or a connection in a new framing, each at every
  await. The proofs hold for any number of calls and attempts.
* *tier*: two groups, one with two registers, two writes to the neighbours, of
  which one is a press. Every order of two writes, a poll and two re-reads
  occurs. `MaxFailures` (3) lost requests allow for a poll that fails in both
  groups and one failure more; `MaxPanel` (1) is a change at the controller's own panel.
* *shared*: two entries and a flow over two gateway objects. The first entry has
  options that make the set-up raise (`MaxLeaks` 1); the second (`Stale`) may
  bring along a wrong framing, as an entry does that stored none and falls back
  to the default, or that a host update has moved here. The flow tries both
  framings and meets silence, a device that is no MBIO board, a board that has an
  entry, or a new one. Three actors are enough for a release, a get and a probe
  to overlap. In *framing* and *connections* no entry is wrong: the findings need
  none.
  After one service call has outlived its gateway no other does.
* *read_groups*: every subset of seven registers with adjacent ones, pairs,
  and two holes, and six limits from one that refuses a pair to one that takes the whole map.
* *codec*: every kind of register of the map, and raw words and values on each
  side of each edge: zero, sign, bit 14, bit 15, the largest word, the limits, steps and ties.
* *discovery*: a block that is always on, a circuit that is always on, one that
  is optional, hot water; three read groups that cut across the blocks. Any request
  of discovery may be lost, and both rounds altogether; up to two set-ups in a row
  may fail (`MaxFailures`), which is one that fails again. Every edit of the
  options, with a reload that succeeds or fails; restarts with every state of the
  board after them, of entries with and without room sensors on record.
* *entities*: three tiers, of which the first holds register 0 and a register of
  the board's own in separate groups, the second a room that may truly be at 0
  degrees, the third a circuit whose thermostat follows a register of the
  second as well; the HVAC mode "heat", the preset "reduced", whose code shows as
  "heat" too, and a setpoint, of which one is given. `CommandsShow` has proved
  `CommandShows` for all commands of all entities. `MaxEvents` (2)
  bounds failures, outages, restarts of the board and changes at the controller
  together: an outage or a restart and one lost answer, the pair every
  exemption is about. The proofs hold for any number.
* *neighbour*: one board and a meter on the buses of two gateways that need
  different framings, two slave ids, two moves: one to the other gateway and
  one of the meter to where the board used to be looked for.

Deadlock is checked wherever a system runs for ever; `CHECK_DEADLOCK FALSE`
stands only where all calls have ended, all groups were read, or the moves of
the boards are used up.

### Fairness

* `ModbusGateway`: weak fairness of each call, switch and close. asyncio
  resumes whoever is first in the queue of a lock, sleeps end, and `wait_for`
  bounds the wait for an answer. The board and the network owe nothing: nothing is
  assumed of `BoardTakes`, nor of callers that begin or are cancelled.
* `WaterstageTier`: weak fairness of the poll (its timer is rearmed after every
  poll and every re-read), of the end of each write and re-read (a request
  ends: `Termination`), and of a stray request being lost or carried out. That
  re-reads do not put the poll off for ever follows from there being finitely
  many writes; a user who writes without end could starve the poll, see the hazards.
* `SharedGateway`: strong fairness of each actor's own steps: the registry lock
  is FIFO, so a waiting actor that is let in again and again gets in.
* `BlockDiscovery`: weak fairness of a request's end, with an answer or without,
  of the pause, a timer, and of a set-up's end, with success or not
  (`SetupEnds`): Home Assistant tries again what raised `ConfigEntryNotReady`.
  Nothing is assumed of the board's answers. `EntryComesUp` says that discovery
  never stops short of a verdict and that the entry is up again and again,
  restarts and failed reloads included, provided its set-ups do not fail for ever
  (`MaxFailures` bounds how many do in a row): with a board that never answers,
  the code rightly leaves the entry down.
* `EntityStates`: weak fairness of the set-up's steps, of the end of the warm-up
  window (a stretch of time), of the end of a command and of the re-reads
  (`Termination`), and of the poll of each tier, which has a timer of its own.
  Of the outside it assumes that the board goes on fetching from the
  controller and that an outage ends, without which nobody could show the truth.

## Proofs

`ModbusGatewayProofs` proves for every set of calls, switches and closes and
any number of attempts, from `GatewayAssumption` alone (the sets of tasks are
disjoint, the hardware's framing is one that can be tried, there is an attempt
to make):

* `TypeCorrect`: `Spec => []TypeOK`. The strengthening `BackoffLeft` says that
  a backoff is slept only before another attempt; without it the attempt
  counter could leave its range.
* `Exclusion`, `AnswersAreFresh`, `WritesAreTrue`, `FramingIsCurrent`: the
  safety of the connection. None of the middle two is
  inductive. `IInv` adds what carries the argument: without an abandoned
  request all that is on the present socket belongs to the pending attempt of
  the one call that waits (`SocketIsMine`: dropping the connection after each
  failure is what keeps it so), a positive answer to a write travels only when
  the board has obeyed (`AnswersTrue`), only who was answered has accepted an
  answer (`GotWhenAnswered`), and the holder of the lock has a client object
  (`ClientHeld`, which `ClientFraming` needs when the framing is switched).
* `PinnedWhileWaiting`: an action property, from the same invariant: whoever
  could touch the connection needs the lock, which the waiting call holds.
* `GapIsKept`: after an answer the next request waits for the gap, because an
  answer always leaves the time of the next request set (`DueWhenAnswered`).
* `Refinement`: every step of the gateway is one of `ModbusTransport` or a
  stutter. It needs that a request in flight was begun (`FramesBegun`).
* `PromiseIsTruth`: the promise of `ModbusTransport` implies `WriteTruth`, that a
  write reported as done was carried out. The run therefore checks the promise
  and not `WriteTruth` beside it.

`WaterstageTierProofs` proves for every tier, every set of writes and any
number of failures: `TypeCorrect`, `OverlaysAreConfirmed`, `OldReadingsAreRevived`,
`ReadingsAreNewer` and `ShowsWhatIsHeld`. The assumption on the writes
(`TierAssumption`) is that a register has one control: the register of a button
(`async_press`) is not also that of a number or a select, as `assign_controls`
has it. The overlays a re-read drops are those of its whole group, which is why
the re-read of one write may stand in for another's. The other two need `ReadInv`: a
register that a running poll has read is fresh in it unless a write to it was
acknowledged since the poll began (`Covered`), what is fresh, in the
coordinator's data or in the poll's, is what the board holds unless somebody
else has changed the register, and so is a written value on show (`Truth`), and
the register of a button never has one (`Bare`). Together they say how far the
finding of `undo` goes: only a write that is acknowledged while a poll is running
can be taken back.

`ReadGroupsProofs` proves all six invariants of `ReadGroups` for every map in
which registers do not overlap, every choice of registers to poll and every
limit: `TypeCorrect`, `LimitKept`, `Complete`, `OnlyImplemented`, `Sliced` and
`Optimal`. The loop invariant `IInv` says that what was visited lies below what
was not (`InOrder`), that the group being built is bounded by two of its
registers (`CurrentBounds`) and has no hole (`CurrentWhole`), that the requests
do not overlap (`SpansApart`), and that nothing beyond a group could have been
read with the register that opens it (`ClosedInTime`), which is what a greedy
packing turns into optimality.

`BlockDiscoveryProofs` proves all safety properties of `BlockDiscovery` for
every register map, partition into groups, and number of rounds and failures:
`TypeCorrect`, `NothingInvented`, `SeenIsFound`, `ThermostatsMeasure`,
`LinkIsRead`, `ControlsExclude`, `LevelBounds` and `LevelsNest`. It assumes of
the map (`DiscoveryAssumption`) that every block that may be missing has a
status register, that composite controls share no register and have writable
halves, and that register 0 belongs to a block that is always on and is not for
experts only. `IInv` says that the controls are at all times those of the
options in force (`Assigned`), that the blocks which are always on exist
(`Installed`), that what a round noted of a sensor is what the sensor holds or
the 0 of a value not yet fetched (`Sound`: without it a later reading of the
same sensor could contradict the round), and that only room sensors
that were seen are assumed (`SeenSensors`). `RestartsAreHarmless` needs one more
part, `HadClaims`: the thermostats an entry had before its last restart are those its
stored options ask for, so that what the board answers has no say in them.
`SoundControls` and `LegalPlan` (of `ReadGroups`) put the parts together in the
form the runs check.

`SharedGatewayProofs` proves `TypeCorrect`, `CountsItsUsers`, `OneGateway` and
`OneConnectionAtMost` for every finite set of entries and flows, any number of
gateway objects and leaks. None is inductive alone. `IInv` adds that
an actor holds a gateway exactly while it works with it or is loaded (`Busy`),
that the registry is locked for the one actor that closes, and nobody else
holds a gateway then (`LastOneCloses`), that a registered gateway has
somebody to close it unless a failed set-up kept its reference (`Registered`), and
that no other connection is open as long as no service call has outlived its
gateway (`Single`). That the count is a cardinality rests on
`FiniteSetTheorems`, hence the assumption that there are finitely many actors.

* `Refinement`: `SharedGateway` implements `GatewayRegistry`. An actor uses what
  it holds; a gateway is kept when a set-up that raised leaked its reference; the
  last release is the step in which the connection is closed and the object
  forgotten, and the count reaching 0 before it is a stutter, because
  the locked registry lets nobody in between. `PromiseIsToShare` proves from the
  promise alone that all users of an address share one object.
* `TheUnsureAloneDisturb` and `FramingHoldsAmongTheSure` bound the finding of
  `framing`. The hardware's framing is taken from the gateway in use only by the
  switch of a flow or of an entry in `Stale`, which identifies a board or has a
  wrong framing on record. An entry may have one because it stored none
  (`__init__.py:104`), because an update of its host left the framing of the old
  address (`config_flow.py:200`), or because the flow that made it recorded the
  framing it had set last while another actor had switched the gateway before the
  answer came (`config_flow.py:141`). Without flows and such entries the
  discovered framing stays. `OneConnectionAtMost` bounds
  that of `connections`: only a service call that retries after its gateway was
  closed opens a second one.

`EntityStatesProofs` proves `TypeCorrect`, `NobodyIsForgotten`,
`NothingBehindADeadLink`, `NoPlaceholderShown` and `CommandsShow` for every
register map, partition into tiers and groups, set of entities, and number of
events and commands. `EntityAssumption` asks that a group belongs to one tier,
no tier is empty, register 0 is the board's own and no temperature, and a
composite entity follows its setpoint. The argument is one lemma,
`ListenersAreRight`: a tier that has changed its own data, and nothing else,
and then calls its listeners leaves every entity right, because an entity
listens to every tier it reads from (`Listens`) and the watcher calls all others
when the status of the link flips. `IInv` adds what it rests on: an overlay has a
re-read under way (`Overlaid`), the watcher has recorded the status the
coordinator has (`LinkHeard`), before the set-up is over there is nothing on
show (`Quiet`), and the coordinators hold no 0 of a temperature that has not
settled (`DataWarm`). Three more theorems bound the finding of `outage`, from one
more invariant (`LinkTracked`: a tier holds of register 0 its last reading or
nothing): while there is a reading, the promise of the documentation holds
(`OutageHoldsWhileRead`); the reading of an outage is lost only to a poll that
gets other answers of the tier, but not that one (`OnlyAPollUnhides`); so the
promise would hold if register 0 shared its tier with no other request
(`LinkAloneHolds`).

`BoardEntriesProofs` is about how much of an entry's address has been proved,
which the run `neighbour` shows to be less than promised, for any boards, buses
and moves. `HalvesOfProofs`: the host is from one proof, the slave id and wording
from another. `OnlyRenumberedBoardsAreLost`: the two come apart only when a flow
meets the board of an entry at another slave id and updates the host alone; hence
never where all boards answer to one slave id (`OneSlaveIdIsSafe`). An entry named
after its address keeps to it (`NamedEntriesStay`), so that boards without a
serial number are safe too (`WithoutSerialsSafe`; both assume that no serial
number is an address). The invariants `Proved` and `NamedInv` say the same of the
flows in the middle of discovery, which carry a proof to the entry they create.

`RegisterCodecProofs` proves all four properties of `RegisterCodec` for every
register the assumption admits, every word, value, scale and limit:
`TypeCorrect`, `RoundTrips`, `TheMenuKeepsTheValue` and
`WritingBackIsHarmless`. The lemmas are the facts a reader of `codec.py` would
want: rounding is off by half a unit at most and exact on whole units
(`Rounding`, `RoundingBack`), signed and raw words are each other's inverse
(`Signed`), flipping bit 14 turns the flag over and keeps the sign
(`Flipped`), fields put together are the fields again (`PackedAgain`). What is
assumed of the map (`RegisterAssumption`) is used chiefly at one point: an optional
`uint16` that can be written has a maximum of at most 32767 raw, or a written
value would read back as disabled (`BelowTheFlag`); every such register of
`mbio_registers.json` has.

TLC checks the properties of the runs on the small instances above, and those
theorems that state one of them say the same of all instances. The other theorems
(parts of those properties, consequences of the promises, and what bounds the
findings) have no run of their own.

*Only model-checked*: `Termination`, `Converges`, `ComesToRest`, `EntryComesUp`
and `ShowsTheTruth`, because liveness under fairness is out of the prover's
reach; and the five runs with **No**, which are counterexamples.

## Not modelled

* `MbioClient` keeps a slave id and a function code, fixed when it is made, and adds
  them to each request.
* `encode_uint32` and the scale of a `uint32`: no register of the map is written
  or scaled that way (`RegisterAssumption` says so).
* A poll of `EntityStates` is one step; writes and re-reads in the middle of one
  are modelled in `WaterstageTier`, for one tier. The two are not composed: the
  product of both would be out of TLC's reach, and they share no variable but
  the data of a tier.
* The partition of registers into tiers and the loading and cross-checking of
  the JSON map: pure functions of constant data with exhaustive tests. Tiers and
  the kinds of registers are constants here.
* Forms and schemas of the config flow, and which error an exception becomes.
* `hvac_action` and the temperature limits of a thermostat: readings of
  further registers, without an effect on anything else. The device registry,
  which a set-up writes once and nobody reads.
* Steady writing that puts every poll off (the poll timer is rearmed by each
  re-read): the models bound the number of writes. The hazards name it.
* Diagnostics, translations and the dump tool: presentation, or sequential
  reading without state.
* What pymodbus does with the answer to a cancelled request: `NoStaleAnswer`
  and `ModbusTransport` exempt it, and a hazard names it.

## Plan

Modelling came in the order of importance, and each module was proved once TLC
agreed:

1. *Done*: the connection and its promise; registry and life cycle; tier and
   runtime; read groups; codec; discovery, restarts and options; entities, link
   and warm-up; composite entities; the identity of entries. All safety
   properties of the passing runs are proved.
2. *Done*: the promises of the connection (`ModbusTransport`) and of the registry
   (`GatewayRegistry`), implemented by the modules below them; what a register
   shows to its user (`ReadingIsNewer`, `ShownIsHeld`); and, for each run that
   refutes a claim, theorems that say how far the refutation goes.
3. *Could follow*: the poll timer as a resource that writes compete for, which
   would need time in `WaterstageTier`; the tiers of `EntityStates` with polls of
   several steps, for two tiers at least.
