---------------------------- MODULE BlockDiscovery ----------------------------
(***************************************************************************)
(* How an entry comes by its registers and entities: the read rounds of    *)
(* `async_run_discovery` and their verdict on each block (discovery.py),   *)
(* the options stored from it and edited later (config_flow.py), and the   *)
(* registers and controls a setup derives from them, once and after every  *)
(* restart (__init__.py).                                                  *)
(*                                                                         *)
(* The board answers 0 for a register until it has fetched its value over  *)
(* the BSB bus, and fetches it because it was asked: just now, or earlier  *)
(* by another master.                                                      *)
(***************************************************************************)
EXTENDS Naturals, FiniteSets

CONSTANTS
  Reg,         \* the registers
  Block,       \* the functional blocks
  BlockOf,     \* the block of each register
  NumGroups, GroupOf,  \* the read groups of the whole map
  NumRounds,   \* `rounds`
  Status,      \* read-only registers that hold a status code
  Temp,        \* read-only temperatures
  RoomOf,      \* circuits that may have a room sensor, and its register
  AlwaysOn,    \* ALWAYS_ON_BLOCKS
  Link,        \* register 0
  Writable, Resettable, Expert, Basic,  \* access, `safety`, BASIC_WRITE_ADDRESSES
  Button,      \* EXPERT_ACTIONS and the counters that writing clears
  Coded,       \* the registers with `options`
  Composite,   \* the register pairs one climate or water_heater is built from
  MaxFailures  \* bound: set-ups in a row that fail

Circuit == DOMAIN RoomOf
Group == 1..NumGroups
Sensor == Status \cup Temp
Level == {"basic", "advanced", "expert"}

\* In the register map every block that may be missing has a status register.
ASSUME DiscoveryAssumption ==
  /\ \A b \in Block \ AlwaysOn : \E s \in Status : BlockOf[s] = b
  /\ BlockOf \in [Reg -> Block] /\ GroupOf \in [Reg -> Group]
  /\ {NumGroups, NumRounds} \subseteq Nat \ {0} /\ MaxFailures \in Nat
  /\ Sensor \cup Writable \cup Resettable \cup Expert \cup Basic \cup Button \cup Coded \subseteq Reg
  /\ Sensor \cap Writable = {} /\ Status \cap Temp = {} /\ Basic \subseteq Writable
  /\ \A b \in Circuit : RoomOf[b] \in Temp /\ BlockOf[RoomOf[b]] = b
  /\ AlwaysOn \subseteq Block /\ Link \in Reg \ Expert /\ BlockOf[Link] \in AlwaysOn
  /\ \A p \in Composite : p.mode \in Writable /\ p.setpoint \in Writable
  /\ \A p, q \in Composite :
       p # q => {p.mode, p.setpoint} \cap {q.mode, q.setpoint} = {}

VARIABLES
  \* the installation
  fitted,    \* the blocks that exist
  rooms,     \* the circuits with a room sensor
  fetched,   \* the sensors whose value the board has
  asked,     \* the sensors it was asked for
  \* discovery
  stage,     \* reading, asleep between rounds, decided, or set up
  round,     \* the round under way
  group,     \* the group it reads next
  values,    \* what it has read: the sensors and what they gave
  collected, \* the rounds that read something
  failures,  \* the set-ups that have failed since the last that did not
  \* the entry
  blocks,    \* CONF_BLOCKS
  roomSensors, \* CONF_ROOM_SENSORS
  recorded,  \* there is one: the entry is not older than that option
  level,     \* CONF_WRITE_LEVEL
  sensors,   \* `runtime.discovery.room_sensors`
  controls,  \* `runtime.controls`
  \* history, read by no action
  chosen,    \* the options have been edited by hand
  had        \* the thermostats and water heaters the last restart ended

installation == <<fitted, rooms>>
board == <<fetched, asked>>
reading == <<stage, round, group, values, collected, failures>>
options == <<blocks, roomSensors, recorded, level>>
entities == <<sensors, controls, had>>
vars == <<installation, board, reading, options, entities, chosen>>

\* A status code is 0 just when its block is missing; a temperature nobody
\* measures is a placeholder out of any room's range (50 or 140 degrees).
Measured(s) == IF \E b \in Circuit : RoomOf[b] = s THEN \E b \in rooms : RoomOf[b] = s
               ELSE BlockOf[s] \in fitted

\* What a register holds, once it is fetched.
Holds(s) == IF Measured(s) THEN "real" ELSE IF s \in Status THEN "zero" ELSE "placeholder"

Answers(s) == IF s \in fetched THEN Holds(s) ELSE "zero"

Kinds == {"sensor", "number", "select", "button", "composite"}

TypeOK ==
  /\ fitted \subseteq Block /\ rooms \subseteq Circuit
  /\ fetched \subseteq asked /\ asked \subseteq Sensor
  /\ stage \in {"reading", "asleep", "decided", "loaded"}
  /\ round \in 1..NumRounds /\ group \in Group /\ failures \in 0..MaxFailures
  /\ \A vals \in collected \cup {values} :
       \A v \in vals : v.reg \in Reg /\ v.is \in {"real", "zero", "placeholder"}
  /\ blocks \subseteq Block /\ roomSensors \subseteq Circuit /\ recorded \in BOOLEAN
  /\ level \in Level /\ sensors \subseteq Circuit /\ had \subseteq Composite
  /\ DOMAIN controls \subseteq Reg /\ \A r \in DOMAIN controls : controls[r] \subseteq Kinds
  /\ chosen \in BOOLEAN

\* A board is being added.
NewFlow ==
  /\ stage = "reading"
  /\ fetched \in {{}, Sensor} /\ asked = fetched
  /\ blocks = {} /\ recorded = TRUE /\ level = "basic"

\* An entry of an earlier release is about to be set up.
OldEntry ==
  /\ stage = "decided"
  /\ fetched \in SUBSET Sensor /\ asked = fetched
  /\ blocks \in {bs \in SUBSET Block : AlwaysOn \subseteq bs}
  /\ recorded = FALSE /\ level \in Level

Init ==
  /\ \E bs \in SUBSET (Block \ AlwaysOn) : fitted = AlwaysOn \cup bs
  /\ rooms \in SUBSET (Circuit \cap fitted)
  /\ round = 1 /\ group = 1
  /\ values = {} /\ collected = {} /\ failures = 0
  /\ roomSensors = {} /\ sensors = {} /\ controls = <<>> /\ had = {} /\ chosen = FALSE
  /\ NewFlow \/ OldEntry
-----------------------------------------------------------------------------
(* The verdict *)

Sees(rounds, r, seen) == \E vals \in rounds : \E v \in vals : v.reg = r /\ v.is \in seen

\* Fault of Indicators: temperatures count where there is a status register.
IndicatorsAll(b) == {s \in Sensor : BlockOf[s] = b}

\* The status registers decide, temperatures only where there is none.
Indicators(b) == LET In(S) == {s \in S : BlockOf[s] = b}
                 IN  IF In(Status) # {} THEN In(Status) ELSE In(Temp)

\* `_block_is_alive`
Alive(rounds, b) ==
  \/ Indicators(b) = {}
  \/ \E s \in Indicators(b) : Sees(rounds, s, {"real", "placeholder"})

Present(rounds) == {b \in Block : b \in AlwaysOn \/ Alive(rounds, b)}

find_room_sensors(rounds) == {b \in Circuit : Sees(rounds, RoomOf[b], {"real"})}

Decide(rounds) ==
  /\ stage' = "decided"
  /\ IF rounds = {}
     THEN blocks' = Block /\ roomSensors' = {}
     ELSE blocks' = Present(rounds) /\ roomSensors' = find_room_sensors(rounds)
-----------------------------------------------------------------------------
(* async_run_discovery *)

\* Fault of Merged: only the last round counts.
MergedLast(vals) == IF vals # {} THEN {vals} ELSE collected

\* A round that read nothing is not collected.
Merged(vals) == IF vals # {} THEN collected \cup {vals} ELSE collected

\* Fault of Advance: one group too many.
AdvancePastTheLast(vals) ==
  IF group <= NumGroups
  THEN /\ group' = group + 1 /\ values' = vals
       /\ UNCHANGED <<stage, round, collected, options>>
  ELSE /\ group' = 1 /\ values' = {} /\ collected' = Merged(vals)
       /\ IF round < NumRounds
          THEN stage' = "asleep" /\ round' = round + 1 /\ UNCHANGED options
          ELSE Decide(Merged(vals)) /\ UNCHANGED <<round, recorded, level>>

\* On to the next group, the pause before the next round, or the verdict.
Advance(vals) ==
  IF group < NumGroups
  THEN /\ group' = group + 1 /\ values' = vals
       /\ UNCHANGED <<stage, round, collected, options>>
  ELSE /\ group' = 1 /\ values' = {} /\ collected' = Merged(vals)
       /\ IF round < NumRounds
          THEN stage' = "asleep" /\ round' = round + 1 /\ UNCHANGED options
          ELSE Decide(Merged(vals)) /\ UNCHANGED <<round, recorded, level>>

ReadGroup ==
  /\ stage = "reading"
  /\ LET regs == {r \in Reg : GroupOf[r] = group}
     IN  /\ Advance(values \cup {[reg |-> r, is |-> IF r \in Sensor THEN Answers(r) ELSE "real"]
                                   : r \in regs})
         /\ asked' = asked \cup (regs \cap Sensor)
  /\ UNCHANGED <<installation, fetched, failures, entities, chosen>>

GroupFails ==
  /\ stage = "reading"
  /\ Advance(values)
  /\ UNCHANGED <<installation, board, failures, entities, chosen>>

\* Fault of NextRound: a first round that read nothing is not followed.
NextRoundIfAnswered ==
  /\ stage = "asleep" /\ collected # {}
  /\ stage' = "reading"
  /\ UNCHANGED <<installation, board, round, group, values, collected, failures,
                 options, entities, chosen>>

NextRound ==
  /\ stage = "asleep"
  /\ stage' = "reading"
  /\ UNCHANGED <<installation, board, round, group, values, collected, failures,
                 options, entities, chosen>>

\* _DISCOVERY_TIMEOUT in `_async_initial_options`.
TimesOut ==
  /\ stage \in {"reading", "asleep"}
  /\ stage' = "decided"
  /\ blocks' = Block /\ roomSensors' = {}
  /\ UNCHANGED <<installation, board, round, group, values, collected, failures,
                 recorded, level, entities, chosen>>

\* External: a value comes in over the BSB bus.
Fetch(s) ==
  /\ s \in asked \ fetched
  /\ fetched' = fetched \cup {s}
  /\ stage \in {"reading", "asleep"}
  /\ UNCHANGED <<installation, asked, reading, options, entities, chosen>>
-----------------------------------------------------------------------------
(* async_setup_entry and the options flow *)

select_registers(bs, lv) == {r \in Reg : BlockOf[r] \in bs /\ (r \in Expert => lv = "expert")}

\* Fault of write_allowed: a level is compared for equality where a higher one
\* will do.
WriteAllowedExactly(r, lv) ==
  /\ r \in Writable \cup Resettable
  /\ IF r \in Expert THEN lv = "expert"
     ELSE IF lv = "basic" THEN r \in Basic ELSE lv = "advanced"

write_allowed(r, lv) ==
  /\ r \in Writable \cup Resettable
  /\ IF r \in Expert THEN lv = "expert" ELSE lv = "basic" => r \in Writable \cap Basic

control_for_write(r) ==
  IF r \in Button THEN {"button", "sensor"}
  ELSE IF r \in Coded THEN {"select"} ELSE {"number"}

\* Both halves have to be there and writable; a climate needs a room sensor.
Claims(p, regs, lv, rs) ==
  /\ p.circuit \in Circuit => p.circuit \in rs
  /\ {p.mode, p.setpoint} \subseteq regs
  /\ write_allowed(p.mode, lv) /\ write_allowed(p.setpoint, lv)

\* Fault of assign_controls: a claimed register keeps the control it had.
AssignOnTop(regs, lv, rs) ==
  [r \in regs |->
     (IF \E p \in Composite : r \in {p.mode, p.setpoint} /\ Claims(p, regs, lv, rs)
      THEN {"composite"} ELSE {})
     \cup IF write_allowed(r, lv) THEN control_for_write(r) ELSE {"sensor"}]

assign_controls(regs, lv, rs) ==
  [r \in regs |->
     IF \E p \in Composite : r \in {p.mode, p.setpoint} /\ Claims(p, regs, lv, rs)
     THEN {"composite"}
     ELSE IF write_allowed(r, lv) THEN control_for_write(r) ELSE {"sensor"}]

\* The composite entities there are; only half of them fit the level "basic".
Thermostats == {p \in Composite : p.mode \in DOMAIN controls /\ "composite" \in controls[p.mode]}

\* What the set-up reads of the room sensors if the answers of `read` come through.
FirstRead(read) == {{[reg |-> r, is |-> Answers(r)] :
                       r \in read \cap select_registers(blocks, level)}}

\* What the rounds collected is local to `async_run_discovery` and gone by now.
RoundsForgotten == values' = {} /\ collected' = {} /\ round' = 1 /\ group' = 1

\* Whether anything is read any more, the model does not say: the board is reset
\* as well, to keep states few.
SetupWith(rs) ==
  /\ stage = "decided" /\ stage' = "loaded"
  /\ sensors' = rs
  /\ controls' = assign_controls(select_registers(blocks, level), level, rs)
  /\ fetched' = {} /\ asked' = {} /\ RoundsForgotten /\ failures' = 0
  /\ UNCHANGED <<installation, options, had, chosen>>

\* Fault of Setup: the room sensors are found anew at every start.
SetupRederives(read) == SetupWith(find_room_sensors(FirstRead(read)))

\* The flow's result becomes an entry and is set up, or an entry is set up
\* again; one without CONF_ROOM_SENSORS makes do with what it has just read.
Setup(read) ==
  SetupWith(IF recorded THEN roomSensors ELSE find_room_sensors(FirstRead(read)))

\* A first refresh without any answer: the gateway is given back, nothing is
\* stored, and Home Assistant sets the entry up again later.  The board may by
\* then have fetched what the tiers before that one have asked for; an entry with
\* CONF_ROOM_SENSORS makes nothing of it, and its board is reset as well.
SetupFails ==
  /\ stage = "decided"
  /\ failures < MaxFailures /\ failures' = failures + 1
  /\ fetched' \in IF recorded THEN {{}} ELSE {fetched \cup more : more \in SUBSET Sensor}
  /\ asked' = fetched' /\ RoundsForgotten
  /\ UNCHANGED <<installation, stage, options, entities, chosen>>

\* Home Assistant restarts, or the entry is reloaded.  The board may have been
\* restarted as well and have fetched anything since, or nothing.
Restart ==
  /\ stage = "loaded" /\ stage' = "decided"
  /\ had' = Thermostats /\ sensors' = {} /\ controls' = <<>>
  /\ fetched' \in SUBSET Sensor /\ asked' = fetched'
  /\ UNCHANGED <<installation, round, group, values, collected, failures, options, chosen>>

\* `_normalise`; the blocks in AlwaysOn are there, ticked or not.
Store(bs, rs, lv) ==
  /\ blocks' = bs \cup AlwaysOn
  /\ roomSensors' = rs /\ recorded' = TRUE /\ level' = lv
  /\ chosen' = TRUE /\ had' = {}

\* The options are stored, and the reload that follows sets the entry up.
EditOptions(bs, rs, lv) ==
  /\ stage = "loaded"
  /\ Store(bs, rs, lv)
  /\ sensors' = rs
  /\ controls' = assign_controls(select_registers(bs \cup AlwaysOn, lv), lv, rs)
  /\ UNCHANGED <<installation, board, reading>>

\* The reload fails, and the options wait for a later set-up.  Options stored while
\* no set-up succeeds, when no listener would reload the entry, end here as well:
\* the options are all there is left of what went before.
EditAhead(bs, rs, lv) ==
  /\ stage = "loaded"
  /\ failures < MaxFailures /\ failures' = failures + 1
  /\ stage' = "decided"
  /\ Store(bs, rs, lv)
  /\ sensors' = {} /\ controls' = <<>> /\ fetched' = {} /\ asked' = {}
  /\ UNCHANGED <<installation, round, group, values, collected>>

SetupEnds == SetupFails \/ \E read \in SUBSET {RoomOf[b] : b \in Circuit} : Setup(read)

Next == \/ ReadGroup \/ GroupFails \/ NextRound \/ TimesOut \/ SetupEnds \/ Restart
        \/ \E s \in Sensor : Fetch(s)
        \/ \E bs \in SUBSET Block, rs \in SUBSET Circuit, lv \in Level :
             EditOptions(bs, rs, lv) \/ EditAhead(bs, rs, lv)

Spec == Init /\ [][Next]_vars

\* Every request ends, with an answer or without, and so does every set-up, which
\* Home Assistant tries again when it has failed; the pause is a timer.  Nothing
\* says that an answer comes, or that a set-up succeeds.
Fairness == WF_vars(ReadGroup \/ GroupFails) /\ WF_vars(NextRound) /\ WF_vars(SetupEnds)

FairSpec == Spec /\ Fairness
-----------------------------------------------------------------------------
(* Properties *)

Decides == stage \in {"reading", "asleep"} /\ stage' = "decided"

\* A block that is missing is enabled only when nothing at all could be read or
\* the discovery ran out of time: placeholder temperatures invent no circuit.
NoPhantomBlock ==
  [][Decides => blocks' = Block \/ blocks' \subseteq fitted]_vars

\* The second round is the trustworthy one, and the first counts as well: a
\* block that is fitted is left out only if every read of its status came
\* before its value was there.
FittedBlockFound ==
  [][Decides => \A s \in Status :
       /\ BlockOf[s] \in fitted
       /\ \/ Sees(collected \cup {values}, s, {"real"})
          \/ ReadGroup /\ GroupOf[s] = group /\ Answers(s) = "real"
       => BlockOf[s] \in blocks']_vars

\* A thermostat is created by itself only for a circuit with a room sensor.
ThermostatHasSensor ==
  ~chosen => \A p \in Composite :
    p.circuit \in Circuit /\ p.mode \in DOMAIN controls /\ "composite" \in controls[p.mode]
      => p.circuit \in rooms

\* Register 0, on which everybody's availability hangs, is always polled.
LinkAlwaysRead == stage = "loaded" => Link \in DOMAIN controls

\* Nobody gets two controls for one value, nor half of a composite one.
OneControl ==
  /\ \A r \in DOMAIN controls : Cardinality(controls[r] \ {"sensor"}) <= 1
  /\ \A p \in Composite :
       (p.mode \in DOMAIN controls /\ "composite" \in controls[p.mode])
         <=> (p.setpoint \in DOMAIN controls /\ "composite" \in controls[p.setpoint])

Writes(r) == r \in DOMAIN controls /\ controls[r] \ {"sensor"} # {}

\* What the level does not allow has no control of any kind: `basic` writes
\* its few data points only, and the expert actions exist for experts only.
LevelIsKept ==
  \A r \in Reg : Writes(r) => /\ level = "basic" => r \in Basic
                              /\ level # "expert" => r \notin Expert

\* What a set-up makes of blocks, rooms and level, in whatever order they were
\* changed: one control at most, none the level forbids, no unwired thermostat,
\* and never an entry without the link status.
ControlsAreSound == OneControl /\ LevelIsKept /\ ThermostatHasSensor /\ LinkAlwaysRead

\* Raising the level takes no control away.
LevelOnlyAdds ==
  [][stage = "loaded" /\ stage' = "loaded" /\ blocks \subseteq blocks'
       /\ (level = "basic" \/ level' \in {level, "expert"})
     => \A r \in Reg : Writes(r) => Writes(r)']_vars

\* A restart takes no thermostat away, though the board may have been powered
\* up with it and answer 0 for every room (docstring of `find_room_sensors`).
\* An entry without CONF_ROOM_SENSORS gets no such promise.
RestartKeepsThermostats ==
  stage = "loaded" /\ recorded => had \subseteq Thermostats

\* Discovery comes to a verdict, whatever requests find no answer, and the entry is
\* up in the end, again after every restart and every reload that failed, provided
\* its set-ups do not fail for ever: MaxFailures bounds how many do in a row.  With
\* a board that never answers it never comes up.
EntryComesUp == []<>(stage = "loaded")
=============================================================================
