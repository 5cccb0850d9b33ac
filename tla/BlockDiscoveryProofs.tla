------------------------ MODULE BlockDiscoveryProofs ------------------------
(***************************************************************************)
(* Proofs about BlockDiscovery, for every register map, every partition of *)
(* it into groups and any number of rounds and failures.                   *)
(***************************************************************************)
EXTENDS BlockDiscovery, FiniteSetTheorems, TLAPS

USE DiscoveryAssumption DEF Circuit, Group, Sensor

-----------------------------------------------------------------------------
(* The inductive invariant *)

\* The controls are those of the options in force, which keep the blocks that
\* are always on.
Assigned ==
  /\ controls = IF stage = "loaded"
                THEN assign_controls(select_registers(blocks, level), level, sensors)
                ELSE <<>>
  /\ stage = "loaded" /\ recorded => sensors = roomSensors
  /\ stage \in {"decided", "loaded"} => AlwaysOn \subseteq blocks

\* Nothing is edited or restarted while it is discovered, and some blocks
\* always exist.
Installed ==
  /\ AlwaysOn \subseteq fitted
  /\ stage \in {"reading", "asleep"} => ~chosen /\ had = {}

\* What the rounds say of a sensor is what it holds, or 0 for not yet fetched.
Sound(rounds) ==
  \A vals \in rounds : \A v \in vals :
    /\ v.reg \in Reg /\ v.is \in {"real", "zero", "placeholder"}
    /\ v.reg \in Sensor => v.is \in {"zero", Holds(v.reg)}

\* Before anyone edits the options, room sensors are those that were seen.
SeenSensors == ~chosen => roomSensors \subseteq rooms /\ sensors \subseteq rooms

\* What the last restart ended is what the stored options ask for.
HadClaims ==
  recorded => \A p \in had : Claims(p, select_registers(blocks, level), level, roomSensors)

IInv ==
  /\ TypeOK /\ Assigned /\ Installed /\ SeenSensors /\ HadClaims
  /\ Sound(collected \cup {values})

-----------------------------------------------------------------------------
(* The verdict *)

\* A room sensor that was seen is there.
LEMMA RoomsAreThere ==
  ASSUME NEW rounds, Sound(rounds), rooms \subseteq Circuit
  PROVE  find_room_sensors(rounds) \subseteq rooms
<1> SUFFICES ASSUME NEW b \in find_room_sensors(rounds) PROVE b \in rooms
  OBVIOUS
<1>1. PICK vals \in rounds : \E v \in vals : v.reg = RoomOf[b] /\ v.is = "real"
  BY DEF find_room_sensors, Sees
<1>2. b \in Circuit /\ RoomOf[b] \in Sensor
  BY DEF find_room_sensors
<1>3. Measured(RoomOf[b])
  BY <1>1, <1>2 DEF Sound, Holds
<1>4. PICK c \in rooms : RoomOf[c] = RoomOf[b]
  BY <1>2, <1>3 DEF Measured
<1> QED BY <1>2, <1>4

\* A status register that was seen to hold a code is that of a fitted block.
LEMMA StatusIsHonest ==
  ASSUME NEW rounds, Sound(rounds), NEW s \in Status,
         Sees(rounds, s, {"real", "placeholder"})
  PROVE  BlockOf[s] \in fitted
<1>1. PICK vals \in rounds : \E v \in vals : v.reg = s /\ v.is \in {"real", "placeholder"}
  BY DEF Sees
<1>2. Holds(s) \in {"real", "placeholder"}
  BY <1>1 DEF Sound
<1>3. Measured(s)
  BY <1>2 DEF Holds
<1>4. ~ \E b \in Circuit : RoomOf[b] = s
  OBVIOUS
<1> QED BY <1>3, <1>4 DEF Measured

\* No block is found that does not exist.
LEMMA PresentIsFitted ==
  ASSUME NEW rounds, Sound(rounds), AlwaysOn \subseteq fitted
  PROVE  Present(rounds) \subseteq fitted
<1> SUFFICES ASSUME NEW b \in Present(rounds), b \notin AlwaysOn PROVE b \in fitted
  OBVIOUS
<1>1. Indicators(b) = {s \in Status : BlockOf[s] = b} /\ Indicators(b) # {}
  BY DEF Indicators, Present
<1>2. PICK s \in Indicators(b) : Sees(rounds, s, {"real", "placeholder"})
  BY <1>1 DEF Present, Alive
<1> QED BY <1>1, <1>2, StatusIsHonest

\* What a verdict may be.
LEMMA DecideFacts ==
  ASSUME NEW rounds, Sound(rounds), Decide(rounds), TypeOK, Installed
  PROVE  /\ AlwaysOn \subseteq blocks' /\ blocks' \subseteq Block
         /\ blocks' = Block \/ blocks' \subseteq fitted
         /\ roomSensors' \subseteq rooms /\ stage' = "decided"
<1>1. CASE rounds = {}
  BY <1>1 DEF Decide
<1>2. CASE rounds # {}
  <2>1. find_room_sensors(rounds) \subseteq rooms
    BY RoomsAreThere DEF TypeOK
  <2>2. Present(rounds) \subseteq fitted
    BY PresentIsFitted DEF Installed
  <2>3. AlwaysOn \subseteq Present(rounds) /\ Present(rounds) \subseteq Block
    BY DEF Present
  <2> QED BY <1>2, <2>1, <2>2, <2>3 DEF Decide
<1> QED BY <1>1, <1>2

-----------------------------------------------------------------------------
(* The controls *)

\* What the options give a register.
LEMMA ControlsAre ==
  ASSUME IInv, NEW r \in DOMAIN controls
  PROVE  /\ stage = "loaded" /\ r \in Reg
         /\ r \in select_registers(blocks, level)
         /\ controls[r] = IF \E p \in Composite :
                               /\ r \in {p.mode, p.setpoint}
                               /\ Claims(p, select_registers(blocks, level), level, sensors)
                          THEN {"composite"}
                          ELSE IF write_allowed(r, level) THEN control_for_write(r)
                               ELSE {"sensor"}
<1>1. stage = "loaded"
  BY DEF IInv, Assigned
<1> QED BY <1>1 DEF IInv, Assigned, assign_controls, select_registers

\* The two composite controls that have a register in common are one.
LEMMA CompositeClaims ==
  ASSUME IInv, NEW p \in Composite, NEW r \in {p.mode, p.setpoint}
  PROVE  r \in DOMAIN controls /\ "composite" \in controls[r]
           <=> /\ stage = "loaded"
               /\ Claims(p, select_registers(blocks, level), level, sensors)
<1> DEFINE regs == select_registers(blocks, level)
<1>1. ASSUME r \in DOMAIN controls, "composite" \in controls[r]
      PROVE  stage = "loaded" /\ Claims(p, regs, level, sensors)
  <2>1. PICK q \in Composite : r \in {q.mode, q.setpoint} /\ Claims(q, regs, level, sensors)
    BY <1>1, ControlsAre DEF control_for_write
  <2>2. p = q
    BY <2>1
  <2> QED BY <1>1, <2>1, <2>2, ControlsAre
<1>2. ASSUME stage = "loaded", Claims(p, regs, level, sensors)
      PROVE  r \in DOMAIN controls /\ "composite" \in controls[r]
  <2>1. r \in DOMAIN controls
    BY <1>2 DEF IInv, Assigned, assign_controls, Claims
  <2>2. controls[r] = {"composite"}
    BY <1>2, <2>1, ControlsAre
  <2> QED BY <2>1, <2>2
<1> QED BY <1>1, <1>2

-----------------------------------------------------------------------------
(* The steps *)

\* The next group, the next round or the verdict keeps the invariant.
LEMMA AdvanceIInv ==
  ASSUME IInv, stage = "reading", NEW vals, Sound({vals}), Advance(vals),
         UNCHANGED <<installation, fetched, entities, chosen>>,
         asked \subseteq asked', asked' \subseteq Sensor, failures' \in 0..MaxFailures
  PROVE  /\ IInv'
         /\ Decides => blocks' = Block \/ blocks' \subseteq fitted
<1> USE DEF options, installation, entities
<1>1. Sound(collected \cup {vals})
  BY DEF IInv, Sound
<1>2. /\ UNCHANGED <<rooms, fitted, sensors, controls, had, chosen, fetched>>
      /\ controls = <<>> /\ ~chosen /\ had = {}
  BY DEF IInv, Assigned, Installed
<1>3. \A rounds : Sound(rounds) => Sound(rounds)'
  BY <1>2 DEF Sound, Holds, Measured
<1>4. CASE group < NumGroups
  <2>1. /\ group' = group + 1 /\ values' = vals /\ stage' = "reading"
        /\ UNCHANGED <<round, collected, blocks, roomSensors, recorded, level>>
    BY <1>4 DEF Advance
  <2>2. Sound(collected \cup {values})'
    BY <1>1, <1>2, <2>1 DEF Sound, Holds, Measured
  <2>3. TypeOK'
    BY <1>1, <1>2, <1>4, <2>1 DEF IInv, TypeOK, Sound
  <2> QED BY <1>2, <2>1, <2>2, <2>3 DEF IInv, Assigned, Installed, SeenSensors, HadClaims, Decides
<1>5. CASE ~(group < NumGroups)
  <2>1. /\ group' = 1 /\ values' = {} /\ collected' = Merged(vals)
        /\ IF round < NumRounds
           THEN stage' = "asleep" /\ round' = round + 1 /\ UNCHANGED options
           ELSE Decide(Merged(vals)) /\ UNCHANGED <<round, recorded, level>>
    BY <1>5 DEF Advance
  <2>2. Sound(Merged(vals))
    BY <1>1 DEF Sound, Merged
  <2>3. Sound(collected \cup {values})'
    BY <1>2, <2>1, <2>2 DEF Sound, Holds, Measured
  <2>4. CASE round < NumRounds
    <3>1. TypeOK'
      BY <1>2, <2>1, <2>2, <2>4 DEF IInv, TypeOK, Sound
    <3> QED BY <1>2, <2>1, <2>3, <2>4, <3>1
          DEF IInv, Assigned, Installed, SeenSensors, HadClaims, Decides
  <2>5. CASE ~(round < NumRounds)
    <3>1. /\ AlwaysOn \subseteq blocks' /\ blocks' \subseteq Block
          /\ blocks' = Block \/ blocks' \subseteq fitted
          /\ roomSensors' \subseteq rooms /\ stage' = "decided"
      BY <2>1, <2>2, <2>5, DecideFacts DEF IInv
    <3>2. TypeOK'
      BY <1>2, <2>1, <2>2, <2>5, <3>1 DEF IInv, TypeOK, Sound
    <3> QED BY <1>2, <2>1, <2>3, <2>5, <3>1, <3>2
          DEF IInv, Assigned, Installed, SeenSensors, HadClaims, Decides
  <2> QED BY <2>4, <2>5
<1> QED BY <1>4, <1>5

\* The controls of any options have their types.
LEMMA ControlsType ==
  ASSUME NEW bs, NEW lv, NEW rs
  PROVE  LET cs == assign_controls(select_registers(bs, lv), lv, rs)
         IN  DOMAIN cs \subseteq Reg /\ \A r \in DOMAIN cs : cs[r] \subseteq Kinds
  BY DEF assign_controls, select_registers, control_for_write, Kinds

\* The invariant holds to begin with.
LEMMA InitIInv == Init => IInv
<1> SUFFICES ASSUME Init PROVE IInv
  OBVIOUS
<1>1. controls = <<>> /\ DOMAIN controls = {}
  BY DEF Init
<1>2. TypeOK
  <2>1. fitted \subseteq Block /\ rooms \subseteq Circuit
    BY DEF Init
  <2>2. fetched \subseteq asked /\ asked \subseteq Sensor
    BY DEF Init, NewFlow, OldEntry
  <2>3. round \in 1..NumRounds /\ group \in 1..NumGroups /\ failures \in 0..MaxFailures
    BY DEF Init
  <2>4. blocks \subseteq Block /\ recorded \in BOOLEAN /\ level \in Level
        /\ stage \in {"reading", "decided"}
    BY DEF Init, NewFlow, OldEntry, Level
  <2> QED BY <1>1, <2>1, <2>2, <2>3, <2>4 DEF Init, TypeOK
<1>3. Assigned /\ Installed /\ SeenSensors /\ HadClaims
  BY DEF Init, NewFlow, OldEntry, Assigned, Installed, SeenSensors, HadClaims
<1>4. Sound(collected \cup {values})
  BY DEF Init, Sound
<1> QED BY <1>2, <1>3, <1>4 DEF IInv

\* Every step keeps the invariant, and a verdict invents no block.
LEMMA NextIInv ==
  ASSUME IInv, [Next]_vars
  PROVE  IInv' /\ (Decides => blocks' = Block \/ blocks' \subseteq fitted)
<1> USE DEF vars, installation, board, reading, options, entities
<1>1. CASE ReadGroup
  <2> DEFINE regs == {r \in Reg : GroupOf[r] = group}
             vals == values \cup {[reg |-> r, is |-> IF r \in Sensor THEN Answers(r) ELSE "real"]
                                   : r \in regs}
  <2>1. stage = "reading" /\ Advance(vals) /\ asked' = asked \cup (regs \cap Sensor)
        /\ UNCHANGED <<installation, fetched, failures, entities, chosen>>
    BY <1>1 DEF ReadGroup
  <2>2. Sound({vals})
    <3>1. \A r \in Sensor : Answers(r) \in {"zero", Holds(r)}
      BY DEF Answers
    <3>2. \A r \in Sensor : Answers(r) \in {"real", "zero", "placeholder"}
      BY DEF Answers, Holds
    <3> QED BY <3>1, <3>2 DEF IInv, Sound
  <2> HIDE DEF vals
  <2>3. asked \subseteq asked' /\ asked' \subseteq Sensor
    BY <2>1 DEF IInv, TypeOK
  <2> QED BY <2>1, <2>2, <2>3, AdvanceIInv DEF IInv, TypeOK
<1>2. CASE GroupFails
  <2>1. Sound({values})
    BY DEF IInv, Sound
  <2> QED BY <1>2, <2>1, AdvanceIInv DEF GroupFails, IInv, TypeOK
<1>3. ASSUME UNCHANGED <<fitted, rooms, values, collected>>
      PROVE  Sound(collected \cup {values})'
  BY <1>3 DEF IInv, Sound, Holds, Measured
<1>4. CASE NextRound
  <2>1. UNCHANGED <<installation, board, round, group, values, collected, failures,
                    options, entities, chosen>> /\ stage = "asleep" /\ stage' = "reading"
    BY <1>4 DEF NextRound
  <2>2. TypeOK'
    BY <2>1 DEF IInv, TypeOK
  <2> QED BY <1>3, <2>1, <2>2 DEF IInv, Assigned, Installed, SeenSensors, HadClaims, Decides
<1>5. CASE TimesOut
  <2>1. /\ UNCHANGED <<installation, board, round, group, values, collected, failures,
                       recorded, level, entities, chosen>>
        /\ stage \in {"reading", "asleep"} /\ stage' = "decided" /\ blocks' = Block /\ roomSensors' = {}
    BY <1>5 DEF TimesOut
  <2>2. TypeOK'
    BY <2>1 DEF IInv, TypeOK
  <2> QED BY <1>3, <2>1, <2>2 DEF IInv, Assigned, Installed, SeenSensors, HadClaims, Decides
<1>6. ASSUME NEW read \in SUBSET {RoomOf[b] : b \in Circuit}, Setup(read)
      PROVE  IInv' /\ ~Decides
  <2> DEFINE rs == IF recorded THEN roomSensors ELSE find_room_sensors(FirstRead(read))
  <2>1. /\ stage = "decided" /\ stage' = "loaded"
        /\ UNCHANGED <<installation, options, had, chosen>> /\ sensors' = rs
        /\ controls' = assign_controls(select_registers(blocks, level), level, rs)
        /\ fetched' = {} /\ asked' = {} /\ values' = {} /\ collected' = {}
        /\ round' = 1 /\ group' = 1 /\ failures' = 0
    BY <1>6 DEF Setup, SetupWith, RoundsForgotten
  <2>2. rs \subseteq Circuit
    BY DEF find_room_sensors, IInv, TypeOK
  <2>3. ~chosen => rs \subseteq rooms
    <3>1. Sound(FirstRead(read))
      BY DEF Sound, FirstRead, Answers, Holds
    <3>2. find_room_sensors(FirstRead(read)) \subseteq rooms
      BY <3>1, RoomsAreThere DEF IInv, TypeOK
    <3> QED BY <3>2 DEF IInv, SeenSensors
  <2>4. recorded => rs = roomSensors
    OBVIOUS
  <2> HIDE DEF rs
  <2>5. DOMAIN controls' \subseteq Reg /\ \A r \in DOMAIN controls' : controls'[r] \subseteq Kinds
    BY <2>1, ControlsType
  <2>6. TypeOK'
    BY <2>1, <2>2, <2>5 DEF IInv, TypeOK
  <2>7. Sound(collected \cup {values})'
    BY <2>1 DEF Sound
  <2>8. HadClaims'
    BY <2>1 DEF IInv, HadClaims
  <2> QED BY <2>1, <2>3, <2>4, <2>6, <2>7, <2>8
        DEF IInv, Assigned, Installed, SeenSensors, Decides
<1>7. CASE SetupFails
  <2>1. /\ stage = "decided" /\ failures < MaxFailures /\ failures' = failures + 1
        /\ fetched' \subseteq Sensor /\ asked' = fetched'
        /\ values' = {} /\ collected' = {} /\ round' = 1 /\ group' = 1
        /\ UNCHANGED <<installation, stage, options, entities, chosen>>
    BY <1>7 DEF SetupFails, RoundsForgotten, IInv, TypeOK
  <2>2. failures' \in 0..MaxFailures /\ round' \in 1..NumRounds /\ group' \in Group
    BY <2>1, DiscoveryAssumption DEF IInv, TypeOK, Group
  <2>3. TypeOK'
    BY <2>1, <2>2 DEF IInv, TypeOK
  <2>4. Sound(collected \cup {values})'
    BY <2>1 DEF Sound
  <2> QED BY <2>1, <2>3, <2>4 DEF IInv, Assigned, Installed, SeenSensors, HadClaims, Decides
<1>8. CASE Restart
  <2>1. /\ stage = "loaded" /\ stage' = "decided"
        /\ had' = Thermostats /\ sensors' = {} /\ controls' = <<>>
        /\ fetched' \in SUBSET Sensor /\ asked' = fetched'
        /\ UNCHANGED <<installation, round, group, values, collected, failures, options, chosen>>
    BY <1>8 DEF Restart
  <2>2. DOMAIN controls' = {}
    BY <2>1
  <2>3. TypeOK'
    BY <2>1, <2>2 DEF IInv, TypeOK, Thermostats
  <2>4. HadClaims'
    BY <2>1, CompositeClaims DEF IInv, Assigned, HadClaims, Thermostats
  <2> QED BY <1>3, <2>1, <2>3, <2>4 DEF IInv, Assigned, Installed, SeenSensors, Decides
<1>9. ASSUME NEW s \in Sensor, Fetch(s)
      PROVE  IInv' /\ ~Decides
  <2>1. /\ fetched' = fetched \cup {s} /\ s \in asked
        /\ UNCHANGED <<installation, asked, reading, options, entities, chosen>>
    BY <1>9 DEF Fetch
  <2>2. TypeOK'
    BY <2>1 DEF IInv, TypeOK
  <2> QED BY <1>3, <2>1, <2>2 DEF IInv, Assigned, Installed, SeenSensors, HadClaims, Decides
<1>10. ASSUME NEW bs \in SUBSET Block, NEW rs \in SUBSET Circuit, NEW lv \in Level,
             EditOptions(bs, rs, lv)
      PROVE  IInv' /\ ~Decides
  <2>1. /\ stage = "loaded" /\ UNCHANGED <<installation, board, reading>>
        /\ blocks' = bs \cup AlwaysOn /\ roomSensors' = rs /\ sensors' = rs /\ level' = lv
        /\ recorded' = TRUE /\ chosen' = TRUE /\ had' = {}
        /\ controls' = assign_controls(select_registers(bs \cup AlwaysOn, lv), lv, rs)
    BY <1>10 DEF EditOptions, Store
  <2>2. DOMAIN controls' \subseteq Reg /\ \A r \in DOMAIN controls' : controls'[r] \subseteq Kinds
    BY <2>1, ControlsType
  <2>3. TypeOK'
    BY <2>1, <2>2 DEF IInv, TypeOK
  <2> QED BY <1>3, <2>1, <2>3 DEF IInv, Assigned, Installed, SeenSensors, HadClaims, Decides
<1>11. ASSUME NEW bs \in SUBSET Block, NEW rs \in SUBSET Circuit, NEW lv \in Level,
              EditAhead(bs, rs, lv)
       PROVE  IInv' /\ ~Decides
  <2>1. /\ stage = "loaded" /\ stage' = "decided"
        /\ failures < MaxFailures /\ failures' = failures + 1
        /\ UNCHANGED <<installation, round, group, values, collected>>
        /\ blocks' = bs \cup AlwaysOn /\ roomSensors' = rs /\ level' = lv
        /\ recorded' = TRUE /\ chosen' = TRUE /\ had' = {}
        /\ sensors' = {} /\ controls' = <<>> /\ fetched' = {} /\ asked' = {}
    BY <1>11 DEF EditAhead, Store
  <2>2. failures' \in 0..MaxFailures
    BY <2>1, DiscoveryAssumption DEF IInv, TypeOK
  <2>3. DOMAIN controls' = {}
    BY <2>1
  <2>4. TypeOK'
    BY <2>1, <2>2, <2>3, DiscoveryAssumption DEF IInv, TypeOK
  <2> QED BY <1>3, <2>1, <2>4 DEF IInv, Assigned, Installed, SeenSensors, HadClaims, Decides
<1>12. CASE UNCHANGED vars
  <2>1. TypeOK'
    BY <1>12 DEF IInv, TypeOK
  <2> QED BY <1>3, <1>12, <2>1 DEF IInv, Assigned, Installed, SeenSensors, HadClaims, Decides
<1> QED BY <1>1, <1>2, <1>4, <1>5, <1>6, <1>7, <1>8, <1>9, <1>10, <1>11, <1>12
        DEF Next, SetupEnds

\* The inductive invariant holds throughout.
THEOREM Invariance == Spec => []IInv
<1>1. IInv /\ [Next]_vars => IInv'
  BY NextIInv
<1> QED BY <1>1, InitIInv, PTL DEF Spec

-----------------------------------------------------------------------------
(* The theorems *)

\* Every variable keeps its type.
THEOREM TypeCorrect == Spec => []TypeOK
  BY Invariance, PTL DEF IInv

\* Unless nothing was read, discovery enables no block that is missing.
THEOREM NothingInvented == Spec => NoPhantomBlock
<1>1. IInv /\ [Next]_vars => [Decides => blocks' = Block \/ blocks' \subseteq fitted]_vars
  BY NextIInv
<1> QED BY <1>1, Invariance, PTL DEF Spec, NoPhantomBlock

\* The register of the link status is polled whatever blocks are chosen.
THEOREM LinkIsRead == Spec => []LinkAlwaysRead
<1>1. IInv => LinkAlwaysRead
  BY DEF IInv, Assigned, LinkAlwaysRead, assign_controls, select_registers
<1> QED BY <1>1, Invariance, PTL

\* The write level bounds what has a control.
THEOREM LevelBounds == Spec => []LevelIsKept
<1>1. IInv => LevelIsKept
  <2> SUFFICES ASSUME IInv, NEW r \in Reg, Writes(r)
               PROVE  (level = "basic" => r \in Basic) /\ (level # "expert" => r \notin Expert)
    BY DEF LevelIsKept
  <2>1. r \in DOMAIN controls /\ controls[r] \ {"sensor"} # {}
    BY DEF Writes
  <2>2. write_allowed(r, level)
    BY <2>1, ControlsAre DEF Claims
  <2> QED BY <2>2 DEF write_allowed
<1> QED BY <1>1, Invariance, PTL

\* A thermostat found by discovery has a room sensor.
THEOREM ThermostatsMeasure == Spec => []ThermostatHasSensor
<1>1. IInv => ThermostatHasSensor
  <2> SUFFICES ASSUME IInv, ~chosen, NEW p \in Composite, p.circuit \in Circuit,
                      p.mode \in DOMAIN controls, "composite" \in controls[p.mode]
               PROVE  p.circuit \in rooms
    BY DEF ThermostatHasSensor
  <2>1. PICK q \in Composite :
          /\ p.mode \in {q.mode, q.setpoint}
          /\ Claims(q, select_registers(blocks, level), level, sensors)
    BY ControlsAre DEF control_for_write
  <2>2. p = q
    BY <2>1
  <2> QED BY <2>1, <2>2 DEF Claims, IInv, SeenSensors
<1> QED BY <1>1, Invariance, PTL

\* What writes is in force and allowed, and the converse.
LEMMA WritesAre ==
  ASSUME IInv, stage = "loaded", NEW r \in Reg
  PROVE  Writes(r) <=> r \in select_registers(blocks, level) /\ write_allowed(r, level)
<1>1. ASSUME Writes(r) PROVE r \in select_registers(blocks, level) /\ write_allowed(r, level)
  <2>1. r \in DOMAIN controls /\ controls[r] \ {"sensor"} # {}
    BY <1>1 DEF Writes
  <2> QED BY <2>1, ControlsAre DEF Claims
<1>2. ASSUME r \in select_registers(blocks, level), write_allowed(r, level)
      PROVE  Writes(r)
  <2>1. r \in DOMAIN controls
    BY <1>2 DEF IInv, Assigned, assign_controls
  <2>2. \/ controls[r] = {"composite"}
        \/ controls[r] = control_for_write(r)
    BY <1>2, <2>1, ControlsAre
  <2>3. \/ "composite" \in controls[r]
        \/ "button" \in controls[r]
        \/ "select" \in controls[r]
        \/ "number" \in controls[r]
    BY <2>2 DEF control_for_write
  <2> QED BY <2>1, <2>3 DEF Writes
<1> QED BY <1>1, <1>2

\* A register has one control at most, and a composite one has both its halves.
THEOREM ControlsExclude == Spec => []OneControl
<1>1. ASSUME IInv, NEW r \in DOMAIN controls
      PROVE  Cardinality(controls[r] \ {"sensor"}) <= 1
  <2>1. \/ controls[r] \ {"sensor"} = {}
        \/ \E k \in Kinds : controls[r] \ {"sensor"} = {k}
    BY <1>1, ControlsAre DEF control_for_write, Kinds
  <2>2. Cardinality({}) = 0 /\ \A k : Cardinality({k}) = 1
    BY FS_EmptySet, FS_Singleton
  <2>3. \/ Cardinality(controls[r] \ {"sensor"}) = 0
        \/ Cardinality(controls[r] \ {"sensor"}) = 1
    BY <2>1, <2>2
  <2> QED BY <2>3
<1>2. ASSUME IInv, NEW p \in Composite
      PROVE  (p.mode \in DOMAIN controls /\ "composite" \in controls[p.mode])
               <=> (p.setpoint \in DOMAIN controls /\ "composite" \in controls[p.setpoint])
  BY <1>2, CompositeClaims
<1>3. IInv => OneControl
  BY <1>1, <1>2 DEF OneControl
<1> QED BY <1>3, Invariance, PTL

\* No control is unsound, whatever blocks, rooms and level are set to.
THEOREM SoundControls == Spec => []ControlsAreSound
  BY ControlsExclude, LevelBounds, ThermostatsMeasure, LinkIsRead, PTL DEF ControlsAreSound

\* A restart leaves every thermostat and water heater in place.
THEOREM RestartsAreHarmless == Spec => []RestartKeepsThermostats
<1>1. IInv => RestartKeepsThermostats
  <2> SUFFICES ASSUME IInv, stage = "loaded", recorded, NEW p \in had
               PROVE  p \in Thermostats
    BY DEF RestartKeepsThermostats
  <2>1. p \in Composite /\ sensors = roomSensors
    BY DEF IInv, TypeOK, Assigned
  <2>2. Claims(p, select_registers(blocks, level), level, sensors)
    BY <2>1 DEF IInv, HadClaims
  <2>3. p.mode \in DOMAIN controls /\ "composite" \in controls[p.mode]
    BY <2>1, <2>2, CompositeClaims
  <2> QED BY <2>1, <2>3 DEF Thermostats
<1>2. QED BY <1>1, Invariance, PTL

\* A higher level keeps every control there is.
THEOREM LevelsNest == Spec => LevelOnlyAdds
<1>1. ASSUME IInv, IInv', [Next]_vars, stage = "loaded", stage' = "loaded", blocks \subseteq blocks',
             level = "basic" \/ level' \in {level, "expert"},
             NEW r \in Reg, Writes(r)
      PROVE  Writes(r)'
  <2>1. r \in select_registers(blocks, level) /\ write_allowed(r, level)
    BY <1>1, WritesAre
  <2>2. level' \in Level /\ level \in Level
    BY <1>1 DEF IInv, TypeOK
  <2>3. r \in select_registers(blocks', level') /\ write_allowed(r, level')
    BY <1>1, <2>1, <2>2 DEF select_registers, write_allowed, Level
  <2>4. DOMAIN controls' = select_registers(blocks', level')
    BY <1>1 DEF IInv, Assigned, assign_controls
  <2>5. controls'[r] \in {{"composite"}, control_for_write(r)}
    BY <1>1, <2>3 DEF IInv, Assigned, assign_controls
  <2>6. controls'[r] \ {"sensor"} # {}
    <3>1. "composite" \in controls'[r] \/ "button" \in controls'[r]
            \/ "select" \in controls'[r] \/ "number" \in controls'[r]
      BY <2>5 DEF control_for_write
    <3> QED BY <3>1
  <2> QED BY <2>3, <2>4, <2>6 DEF Writes
<1>2. IInv /\ IInv' /\ [Next]_vars
        => [stage = "loaded" /\ stage' = "loaded" /\ blocks \subseteq blocks'
              /\ (level = "basic" \/ level' \in {level, "expert"})
            => \A r \in Reg : Writes(r) => Writes(r)']_vars
  BY <1>1
<1> QED BY <1>2, Invariance, PTL DEF Spec, LevelOnlyAdds

\* A block whose status was read is in the verdict.
LEMMA SeenIsDecided ==
  ASSUME NEW vals, NEW s \in Status, Decide(Merged(vals)),
         Sees(collected \cup {vals}, s, {"real"})
  PROVE  BlockOf[s] \in blocks'
<1>1. PICK seen \in collected \cup {vals} : \E v \in seen : v.reg = s /\ v.is = "real"
  BY DEF Sees
<1>2. seen \in Merged(vals)
  BY <1>1 DEF Merged
<1>3. Sees(Merged(vals), s, {"real", "placeholder"})
  BY <1>1, <1>2 DEF Sees
<1>4. s \in Indicators(BlockOf[s])
  BY DEF Indicators
<1>5. BlockOf[s] \in Present(Merged(vals))
  BY <1>3, <1>4 DEF Present, Alive
<1> QED BY <1>2, <1>5 DEF Decide

\* A fitted block whose status was read in any round is enabled.
THEOREM SeenIsFound == Spec => FittedBlockFound
<1>1. ASSUME [Next]_vars, Decides, NEW s \in Status,
             \/ Sees(collected \cup {values}, s, {"real"})
             \/ ReadGroup /\ GroupOf[s] = group /\ Answers(s) = "real"
      PROVE  BlockOf[s] \in blocks'
  <2>1. ReadGroup \/ GroupFails \/ TimesOut
    BY <1>1 DEF Decides, Next, NextRound, SetupEnds, SetupFails, Setup, SetupWith, Restart, Fetch,
                EditOptions, EditAhead, vars, reading
  <2>2. CASE ReadGroup
    <3> DEFINE vals == values \cup {[reg |-> r, is |-> IF r \in Sensor THEN Answers(r) ELSE "real"]
                                       : r \in {r \in Reg : GroupOf[r] = group}}
    <3>1. Advance(vals)
      BY <2>2 DEF ReadGroup
    <3>2. Sees(collected \cup {vals}, s, {"real"})
      <4>1. CASE Sees(collected \cup {values}, s, {"real"})
        <5>1. PICK seen \in collected \cup {values} :
                \E v \in seen : v.reg = s /\ v.is \in {"real"}
          BY <4>1 DEF Sees
        <5>2. values \subseteq vals
          OBVIOUS
        <5> HIDE DEF vals
        <5>3. CASE seen = values
          BY <5>1, <5>2, <5>3 DEF Sees
        <5>4. CASE seen \in collected
          BY <5>1, <5>4 DEF Sees
        <5> QED BY <5>1, <5>3, <5>4
      <4>2. CASE GroupOf[s] = group /\ Answers(s) = "real"
        <5>1. [reg |-> s, is |-> "real"] \in vals
          BY <4>2
        <5> HIDE DEF vals
        <5> QED BY <5>1 DEF Sees
      <4> QED BY <1>1, <4>1, <4>2
    <3> HIDE DEF vals
    <3>3. Decide(Merged(vals))
      BY <1>1, <2>2, <3>1 DEF Advance, Decides, ReadGroup
    <3> QED BY <3>2, <3>3, SeenIsDecided
  <2>3. CASE GroupFails /\ ~ReadGroup
    <3>1. Decide(Merged(values))
      BY <1>1, <2>3 DEF Advance, Decides, GroupFails
    <3>2. Sees(collected \cup {values}, s, {"real"})
      BY <1>1, <2>3
    <3> QED BY <3>1, <3>2, SeenIsDecided
  <2>4. CASE TimesOut
    BY <2>4 DEF TimesOut
  <2> QED BY <2>1, <2>2, <2>3, <2>4
<1>2. [Next]_vars
        => [Decides => \A s \in Status :
              /\ BlockOf[s] \in fitted
              /\ \/ Sees(collected \cup {values}, s, {"real"})
                 \/ ReadGroup /\ GroupOf[s] = group /\ Answers(s) = "real"
              => BlockOf[s] \in blocks']_vars
  BY <1>1
<1> QED BY <1>2, PTL DEF Spec, FittedBlockFound
=============================================================================
