-------------------------- MODULE EntityStatesProofs --------------------------
(***************************************************************************)
(* Proofs about EntityStates, for every register map, partition into tiers *)
(* and groups, set of entities and number of failures and commands.        *)
(***************************************************************************)
EXTENDS EntityStates, FiniteSetTheorems, TLAPS

-----------------------------------------------------------------------------
(* The inductive invariant *)

\* A written value on show has a re-read under way that will take it down.
Overlaid ==
  \A r \in Register : optimistic[r] # Absent =>
    /\ \E s \in Pending : GroupOf[s] = GroupOf[r]
    /\ optimistic[r] = 0 => r \in Zeroed

\* The watcher has recorded the status the coordinator has, or none at all.
LinkHeard == lastLink = IF heard THEN LinkSeen ELSE Unknown

\* Until the set-up is over there is nothing on show, written or to confirm.
Quiet ==
  ~Running => /\ ~heard /\ Pending = {} /\ command = NoCommand
              /\ \A e \in Entity : shown[e] = Unavailable

\* The coordinators hold no 0 of a temperature either.
DataWarm ==
  warming => \A r \in Temp : data[r] = 0 => r \in settled

IInv ==
  /\ TypeOK /\ Overlaid /\ LinkHeard /\ Quiet /\ DataWarm
  /\ ShownIsCurrent /\ OutageHidden /\ PlaceholderHidden

-----------------------------------------------------------------------------
(* The view of an entity *)

\* What an entity computes has the type of a state.
LEMMA ViewType ==
  ASSUME NEW e \in Entity, data' \in [Register -> Reading],
         optimistic' \in [Register -> Nat \cup {Absent}]
  PROVE  View(e)' \in {Unavailable} \cup [Reads(e) -> Value \cup {Unknown}]
<1>1. Reads(e) \subseteq Register
  BY EntityAssumption DEF Reads
<1>2. \A r \in Reads(e) : Known(decoded(r))' \in Value \cup {Unknown}
  BY <1>1, EntityAssumption DEF Known, decoded, Reading, Value
<1>3. View(e)' \in {Unavailable, [r \in Reads(e) |-> Known(decoded(r))']}
  BY DEF View
<1> QED BY <1>2, <1>3

\* What is not available says nothing.
LEMMA DeadLink ==
  ASSUME NEW e \in Entity, data[Link]' = 0, Own[e] \notin BoardLocal
  PROVE  View(e)' = Unavailable
<1>1. 0 \notin {Absent, Disabled, Unknown}
  BY EntityAssumption
<1>2. ~link_ok'
  BY <1>1 DEF link_ok, LinkSeen, Known
<1> QED BY <1>2 DEF View, register_is_available

\* An entity that reads nothing that changed says what it said.
LEMMA SameView ==
  ASSUME NEW e \in Entity,
         \A r \in Reads(e) : data'[r] = data[r] /\ optimistic'[r] = optimistic[r],
         success'[TierOf[Own[e]]] = success[TierOf[Own[e]]],
         link_ok' = link_ok \/ Own[e] \in BoardLocal
  PROVE  View(e)' = View(e)
<1>1. Own[e] \in Reads(e)
  BY DEF Reads
<1>2. register_is_available(Own[e])' = register_is_available(Own[e])
  BY <1>1 DEF register_is_available
<1>3. ASSUME NEW r \in Reads(e)
      PROVE  Known(decoded(r))' = Known(decoded(r))
  BY <1>3 DEF decoded, Known
<1>4. View(e)' = IF register_is_available(Own[e])'
                 THEN [r \in Reads(e) |-> Known(decoded(r))'] ELSE Unavailable
  BY DEF View
<1> QED BY <1>2, <1>3, <1>4 DEF View

USE EntityAssumption

\* A 0 on show is that of a settled register, or one somebody wrote.
LEMMA WarmView ==
  ASSUME NEW e \in Entity, NEW r \in Reads(e) \cap Temp,
         data' \in [Register -> Reading], optimistic' \in [Register -> Nat \cup {Absent}],
         Overlaid', DataWarm', warming',
         View(e)' # Unavailable, View(e)'[r] = 0
  PROVE  r \in (settled \cup Zeroed)'
<1>1. r \in Register
  BY DEF Reads
<1>2. Known(decoded(r))' = 0
  BY DEF View
<1>3. decoded(r)' = 0
  BY <1>2 DEF Known
<1>4. optimistic'[r] = 0 \/ data'[r] = 0
  BY <1>3 DEF decoded
<1>5. Absent # 0
  OBVIOUS
<1> QED BY <1>1, <1>4, <1>5 DEF Overlaid, DataWarm, Zeroed

-----------------------------------------------------------------------------
(* The listeners *)

\* Every clause about what is on show, which the listeners have to keep.
Showing ==
  /\ lastLink \in Reading \ {Absent} /\ heard \in BOOLEAN
  /\ DOMAIN shown = Entity
  /\ \A e \in Entity : shown[e] \in {Unavailable} \cup [Reads(e) -> Value \cup {Unknown}]
  /\ LinkHeard /\ ShownIsCurrent /\ OutageHidden /\ PlaceholderHidden

\* Where nothing the entities read changes, what is on show stays right.
LEMMA NothingChanges ==
  ASSUME IInv, UNCHANGED <<next, data, success, optimistic, confirm, viewVars>>,
         settled \subseteq settled', warming' => warming
  PROVE  Showing'
<1> USE DEF viewVars
<1>1. \A e \in Entity : View(e)' = View(e)
  BY DEF View, register_is_available, link_ok, LinkSeen, decoded, Known
<1>2. ShownIsCurrent'
  BY <1>1 DEF IInv, ShownIsCurrent, Running, Unconfirmed, Pending
<1>3. PlaceholderHidden'
  BY DEF IInv, PlaceholderHidden, Zeroed
<1> QED BY <1>2, <1>3 DEF IInv, TypeOK, Showing, LinkHeard, LinkSeen, Known, OutageHidden

\* A tier that calls its listeners, after a change to its own data, success
\* and overlays, leaves every entity right, its own listeners or not.
LEMMA ListenersAreRight ==
  ASSUME IInv, NEW t \in Tier, Running, UNCHANGED <<next, warming>>,
         data' \in [Register -> Reading], optimistic' \in [Register -> Nat \cup {Absent}],
         Overlaid', DataWarm', settled \subseteq settled',
         \A r \in Register : TierOf[r] # t => data'[r] = data[r] /\ optimistic'[r] = optimistic[r],
         \A u \in Tier : u # t => success'[u] = success[u],
         \A r \in Pending : r \in Pending' \/ TierOf[r] = t,
         CallListeners(t)
  PROVE  Showing'
<1> DEFINE flipped == t = LinkTier /\ LinkSeen' # lastLink
<1>0. Link \in Register /\ LinkTier \in Tier
  BY DEF LinkTier
<1>1. lastLink' = IF flipped THEN LinkSeen' ELSE lastLink
  BY DEF CallListeners
<1>2. heard' = (heard \/ flipped)
  BY DEF CallListeners
<1>3. shown' = [e \in Entity |-> IF flipped \/ Listens(e, t) THEN View(e)' ELSE shown[e]]
  BY DEF CallListeners
<1>4. ASSUME NEW e \in Entity, NEW r \in Reads(e)
      PROVE  r \in Register
  BY DEF Reads
<1>5. LinkSeen' \in Reading \ {Absent}
  BY <1>0 DEF LinkSeen, Known, Reading, Value
<1>6. LinkHeard'
  <2>1. CASE flipped
    BY <1>1, <1>2, <2>1 DEF LinkHeard
  <2>2. CASE t # LinkTier
    BY <1>0, <1>1, <1>2, <2>2 DEF LinkHeard, IInv, LinkSeen, Known, LinkTier
  <2>3. CASE t = LinkTier /\ LinkSeen' = lastLink
    BY <1>1, <1>2, <2>3 DEF LinkHeard, IInv
  <2> QED BY <2>1, <2>2, <2>3
<1>7. ShownIsCurrent'
  <2> SUFFICES ASSUME NEW e \in Entity, ~flipped, ~Listens(e, t)
               PROVE  (\/ shown[e] = View(e)
                       \/ Unconfirmed(e)
                       \/ ~heard /\ shown[e] = Unavailable /\ ~Listens(e, LinkTier))'
    BY <1>3 DEF ShownIsCurrent
  <2>1. shown'[e] = shown[e] /\ heard' = heard
    <3>1. shown'[e] = shown[e]
      BY <1>3
    <3>2. heard \in BOOLEAN
      BY DEF IInv, TypeOK
    <3> QED BY <1>2, <3>1, <3>2
  <2>2. \A r \in Reads(e) : r \in Register /\ TierOf[r] # t
    BY <1>4 DEF Listens
  <2>3. CASE shown[e] = View(e)
    <3>1. CASE link_ok' = link_ok \/ Own[e] \in BoardLocal
      <4>1. success'[TierOf[Own[e]]] = success[TierOf[Own[e]]]
        BY <2>2 DEF Reads
      <4>2. View(e)' = View(e)
        BY <2>2, <3>1, <4>1, SameView
      <4> QED BY <2>1, <2>3, <4>2
    <3>2. CASE link_ok' # link_ok /\ Own[e] \notin BoardLocal
      <4>1. t = LinkTier /\ LinkSeen' = lastLink
        BY <1>0, <3>2 DEF link_ok, LinkSeen, Known, LinkTier
      <4>2. ~heard /\ LinkSeen' = Unknown
        BY <3>2, <4>1 DEF link_ok, IInv, LinkHeard
      <4>3. ~link_ok
        BY <3>2, <4>2 DEF link_ok
      <4>4. View(e) = Unavailable
        BY <3>2, <4>3 DEF View, register_is_available
      <4> QED BY <2>1, <2>3, <4>1, <4>2, <4>4 DEF Listens
    <3> QED BY <3>1, <3>2
  <2>4. CASE Unconfirmed(e)
    <3>1. PICK r \in Pending, s \in Reads(e) : GroupOf[r] = GroupOf[s]
      BY <2>4 DEF Unconfirmed
    <3>2. r \in Register
      BY <3>1 DEF Pending
    <3>3. TierOf[r] # t
      BY <2>2, <3>1, <3>2
    <3> QED BY <3>1, <3>3 DEF Unconfirmed
  <2>5. CASE ~heard /\ shown[e] = Unavailable /\ ~Listens(e, LinkTier)
    BY <2>1, <2>5 DEF Listens
  <2> QED BY <2>3, <2>4, <2>5 DEF IInv, ShownIsCurrent
<1>8. OutageHidden'
  <2> SUFFICES ASSUME data'[Link] = 0, NEW e \in Entity, Own[e] \notin BoardLocal
               PROVE  shown'[e] = Unavailable
    BY DEF OutageHidden
  <2>1. CASE flipped \/ Listens(e, t)
    BY <1>3, <2>1, DeadLink
  <2>2. CASE ~flipped /\ ~Listens(e, t)
    <3>1. data[Link] = 0
      <4>1. CASE t # LinkTier
        BY <1>0, <4>1 DEF LinkTier
      <4>2. CASE t = LinkTier
        BY <2>2, <4>2 DEF IInv, LinkHeard, LinkSeen, Known
      <4> QED BY <4>1, <4>2
    <3> QED BY <1>3, <2>2, <3>1 DEF IInv, OutageHidden
  <2> QED BY <2>1, <2>2
<1>9. PlaceholderHidden'
  <2> SUFFICES ASSUME warming', NEW e \in Entity, shown'[e] # Unavailable,
                      NEW r \in Reads(e) \cap Temp, shown'[e][r] = 0
               PROVE  r \in (settled \cup Zeroed)'
    BY DEF PlaceholderHidden, Reads, Zeroed
  <2>1. CASE flipped \/ Listens(e, t)
    BY <1>3, <2>1, WarmView
  <2>2. CASE ~flipped /\ ~Listens(e, t)
    BY <1>3, <2>2 DEF IInv, PlaceholderHidden, Zeroed
  <2> QED BY <2>1, <2>2
<1>10. \A e \in Entity : View(e)' \in {Unavailable} \cup [Reads(e) -> Value \cup {Unknown}]
  BY ViewType
<1>11. \A e \in Entity : shown'[e] \in {Unavailable} \cup [Reads(e) -> Value \cup {Unknown}]
  BY <1>3, <1>10 DEF IInv, TypeOK
<1> HIDE DEF flipped
<1>12. lastLink' \in Reading \ {Absent} /\ heard' \in BOOLEAN
  BY <1>1, <1>2, <1>5 DEF IInv, TypeOK, flipped
<1>13. DOMAIN shown' = Entity
  BY <1>3
<1> QED
  BY <1>6, <1>7, <1>8, <1>9, <1>11, <1>12, <1>13 DEF Showing, Reads

-----------------------------------------------------------------------------
(* What a read leaves in a tier *)

\* A read of tier t touches no other tier and lets no 0 of a temperature in.
LEMMA UpdateKeeps ==
  ASSUME IInv, NEW t \in Tier, NEW answers \in [Register -> Reading],
         Update(t, answers), warming' = warming
  PROVE  /\ data' \in [Register -> Reading] /\ success' \in [Tier -> BOOLEAN]
         /\ settled' \subseteq Register /\ settled \subseteq settled'
         /\ DataWarm'
         /\ \A r \in Register : TierOf[r] # t => data'[r] = data[r]
         /\ \A u \in Tier : u # t => success'[u] = success[u]
<1>1. data' = [r \in Register |-> IF r \in Members(t) THEN Warmed(r, answers[r]) ELSE data[r]]
  BY DEF Update
<1>2. settled' = settled \cup {r \in Members(t) : Real(answers[r])}
  BY DEF Update
<1>3. settled' \subseteq Register /\ settled \subseteq settled'
  BY <1>2 DEF IInv, TypeOK, Members
<1>4. data' \in [Register -> Reading]
  BY <1>1 DEF IInv, TypeOK, Warmed, Reading
<1>5. success' \in [Tier -> BOOLEAN] /\ \A u \in Tier : u # t => success'[u] = success[u]
  BY DEF Update, IInv, TypeOK
<1>6. \A r \in Register : TierOf[r] # t => data'[r] = data[r]
  BY <1>1 DEF Members
<1>7. DataWarm'
  <2> SUFFICES ASSUME warming, NEW r \in Temp, data'[r] = 0
               PROVE  r \in settled
    BY <1>3 DEF DataWarm
  <2>1. CASE r \in Members(t)
    BY <1>1, <2>1 DEF Warmed
  <2>2. CASE r \notin Members(t)
    BY <1>1, <2>2 DEF IInv, DataWarm
  <2> QED BY <2>1, <2>2
<1> QED BY <1>3, <1>4, <1>5, <1>6, <1>7

\* Of register 0 only an answer is remembered.
LEMMA LinkNoted ==
  ASSUME IInv, NEW groups, NoteLink(groups)
  PROVE  linkRead' \in Reading \ {Absent}
<1>1. board[Link] \in Value
  BY DEF IInv, TypeOK
<1> QED BY <1>1 DEF NoteLink, IInv, TypeOK, Reading, Value

\* The answers to a poll or a re-read are readings.
LEMMA AnswersAreReadings ==
  ASSUME IInv
  PROVE  /\ \A t, failed : Polled(t, failed) \in [Register -> Reading]
         /\ \A r \in Register :
              [s \in Register |-> IF GroupOf[s] = GroupOf[r] THEN board[s] ELSE data[s]]
                \in [Register -> Reading]
BY DEF IInv, TypeOK, Polled, Reading

\* A tier has finitely many groups.
LEMMA GroupsFinite ==
  ASSUME NEW t \in Tier, NEW failed \in SUBSET Groups(t)
  PROVE  Cardinality(failed) \in Nat
<1> DEFINE f == [r \in Members(t) |-> GroupOf[r]]
<1>1. f \in Surjection(Members(t), Groups(t))
  BY DEF Surjection, Groups
<1>2. IsFiniteSet(Groups(t))
  BY <1>1, FS_Surjection
<1> QED BY <1>2, FS_Subset, FS_CardinalityType

\* What a command writes, and where.
LEMMA CommandTypes ==
  ASSUME NEW c \in Given
  PROVE  c.entity \in Entity /\ c.register \in Register /\ c.setting.writes \in Nat
<1>1. PICK e \in Entity : c \in Commands(e)
  BY DEF Command
<1>2. c.entity = e /\ c.register \in Register
  BY <1>1 DEF Commands
<1>3. c.setting \in ClimateCommands \cup WaterHeaterCommands
                      \cup {Setting("value", v, v) : v \in Targets}
                      \cup {Setting("temperature", v, v) : v \in Targets}
  BY <1>1 DEF Commands
<1>4. \A s \in ClimateCommands : s.writes \in Nat
  <2>1. \A h \in DOMAIN HVAC_TO_MODE : HVAC_TO_MODE[h] \in Nat
    BY DEF HVAC_TO_MODE, MODE_PROTECTION, MODE_AUTOMATIC, MODE_COMFORT
  <2>2. \A p \in DOMAIN PRESET_TO_MODE : PRESET_TO_MODE[p] \in Nat
    BY DEF PRESET_TO_MODE, MODE_PROTECTION, MODE_AUTOMATIC, MODE_REDUCED, MODE_COMFORT
  <2> QED BY <2>1, <2>2 DEF ClimateCommands, Setting
<1>5. \A s \in WaterHeaterCommands : s.writes \in Nat
  <2>1. \A o \in DOMAIN OPERATION_TO_MODE : OPERATION_TO_MODE[o] \in Nat
    BY DEF OPERATION_TO_MODE, MODE_OFF, MODE_ON, MODE_ECO
  <2> QED BY <2>1 DEF WaterHeaterCommands, Setting, MODE_ECO, MODE_ON
<1>6. \A s \in {Setting("value", v, v) : v \in Targets}
                 \cup {Setting("temperature", v, v) : v \in Targets} : s.writes \in Nat
  <2>1. \A v \in Targets : v \in Nat
    OBVIOUS
  <2>2. \A v \in Targets : Setting("value", v, v).writes \in Nat
    BY <2>1 DEF Setting
  <2>3. \A v \in Targets : Setting("temperature", v, v).writes \in Nat
    BY <2>1 DEF Setting
  <2> SUFFICES ASSUME NEW s \in {Setting("value", v, v) : v \in Targets}
                                  \cup {Setting("temperature", v, v) : v \in Targets}
               PROVE  s.writes \in Nat
    OBVIOUS
  <2>4. CASE s \in {Setting("value", v, v) : v \in Targets}
    <3> PICK v \in Targets : s = Setting("value", v, v)
      BY <2>4
    <3> QED BY <2>2
  <2>5. CASE s \in {Setting("temperature", v, v) : v \in Targets}
    <3> PICK v \in Targets : s = Setting("temperature", v, v)
      BY <2>5
    <3> QED BY <2>3
  <2> QED BY <2>4, <2>5
<1>7. c.setting.writes \in Nat
  BY <1>3, <1>4, <1>5, <1>6
<1> QED BY <1>2, <1>7

-----------------------------------------------------------------------------
(* Initially, and step by step *)

\* The program starts in the invariant.
LEMMA InitIInv ==
  Init => IInv
<1> SUFFICES ASSUME Init PROVE IInv
  OBVIOUS
<1> USE DEF Init
<1>1. Link \in Register /\ \A r \in Register : TierOf[r] \in Tier
  OBVIOUS
<1>2. truth \in [Register -> Value]
  OBVIOUS
<1>3. \A u \in [Register -> Value] : /\ PoweredUp(u) \in [Register -> Value]
                                     /\ Fetched(u) \in [Register -> Value]
  BY DEF PoweredUp, Fetched, Value
<1>4. board \in [Register -> Value]
  <2>1. CASE board = [PoweredUp(truth) EXCEPT ![Link] = 1]
    BY <1>2, <1>3, <2>1 DEF Value
  <2> QED BY <1>2, <1>3, <2>1
<1>5. ~Running
  BY DEF Running
<1>6. TypeOK
  <2>1. data \in [Register -> Reading] /\ optimistic \in [Register -> Nat \cup {Absent}]
    BY DEF Nothing, Reading
  <2>2. lastLink \in Reading \ {Absent} /\ linkRead \in Reading \ {Absent}
    BY DEF Reading
  <2>3. next \in 1..NumTiers + 1
    OBVIOUS
  <2>4. /\ success \in [Tier -> BOOLEAN] /\ settled \subseteq Register /\ warming \in BOOLEAN
        /\ heard \in BOOLEAN /\ confirm \in [Register -> Nat]
    BY DEF NoneToConfirm
  <2>5. /\ DOMAIN shown = Entity /\ \A e \in Entity : shown[e] = Unavailable
        /\ command = NoCommand
    OBVIOUS
  <2>6. events \in 0..MaxEvents /\ commands \in 0..MaxCommands
    OBVIOUS
  <2> HIDE DEF Init
  <2> QED BY <1>2, <1>4, <2>1, <2>2, <2>3, <2>4, <2>5, <2>6 DEF TypeOK
<1>7. Overlaid
  BY DEF Overlaid, Nothing
<1>8. OutageHidden /\ PlaceholderHidden /\ Quiet /\ ShownIsCurrent
  BY <1>5 DEF OutageHidden, PlaceholderHidden, Quiet, ShownIsCurrent, NoneToConfirm, Pending
<1>9. DataWarm
  BY DEF DataWarm, Nothing
<1> QED BY <1>6, <1>7, <1>8, <1>9 DEF IInv, LinkHeard

\* The board's answers stay values whatever happens behind it.
LEMMA EnvironmentTypes ==
  ASSUME IInv,
         \/ \E t \in Tier : Fetch(t)
         \/ LinkDrops \/ LinkReturns \/ BoardRestarts
         \/ \E r \in Register : ControllerChanges(r)
  PROVE  /\ truth' \in [Register -> Value] /\ board' \in [Register -> Value]
         /\ events' \in 0..MaxEvents
         /\ UNCHANGED <<dataVars, viewVars, writeVars>>
<1> USE DEF IInv, TypeOK
<1>1. ASSUME NEW t \in Tier, Fetch(t)
      PROVE  truth' = truth /\ events' = events /\ board' \in [Register -> Value]
  BY <1>1 DEF Fetch
<1>2. CASE LinkDrops
  BY <1>2 DEF LinkDrops, Happens, Value
<1>3. CASE LinkReturns
  BY <1>3 DEF LinkReturns, Value
<1>4. CASE BoardRestarts
  BY <1>4 DEF BoardRestarts, PoweredUp, Happens, Value
<1>5. ASSUME NEW r \in Register, ControllerChanges(r)
      PROVE  /\ truth' \in [Register -> Value] /\ board' \in [Register -> Value]
             /\ events' \in 0..MaxEvents
  <2>1. PICK v \in Domain[r] \ {truth[r]} :
          /\ truth' = [truth EXCEPT ![r] = v]
          /\ board' = IF r \in BoardLocal THEN [board EXCEPT ![r] = v] ELSE board
    BY <1>5 DEF ControllerChanges
  <2>2. v \in Value
    BY <2>1
  <2>3. events' \in 0..MaxEvents
    BY <1>5 DEF ControllerChanges, Happens
  <2> QED BY <2>1, <2>2, <2>3
<1> QED
  BY <1>1, <1>2, <1>3, <1>4, <1>5
     DEF Fetch, LinkDrops, LinkReturns, BoardRestarts, ControllerChanges

\* A poll, answered in whole, in part or not at all.
LEMMA PollStep ==
  ASSUME IInv, NEW t \in Tier, NEW failed \in SUBSET Groups(t), Poll(t, failed)
  PROVE  IInv'
<1>1. /\ Running /\ UNCHANGED <<envVars, next, warming, writeVars>>
      /\ NoteLink(Groups(t) \ failed) /\ Happens(Cardinality(failed))
  BY DEF Poll
<1>2. events' \in 0..MaxEvents
  BY <1>1, GroupsFinite DEF Happens, IInv, TypeOK
<1>3. linkRead' \in Reading \ {Absent}
  BY <1>1, LinkNoted
<1>4. Overlaid' /\ Quiet'
  BY <1>1 DEF IInv, Overlaid, Quiet, Zeroed, Running, writeVars, Pending
<1>5. /\ data' \in [Register -> Reading] /\ success' \in [Tier -> BOOLEAN]
      /\ settled' \subseteq Register /\ settled \subseteq settled'
      /\ DataWarm'
      /\ \A r \in Register : TierOf[r] # t => data'[r] = data[r]
      /\ \A u \in Tier : u # t => success'[u] = success[u]
  <2>1. CASE failed = Groups(t)
    <3>1. data' = data /\ settled' = settled /\ success' = [success EXCEPT ![t] = FALSE]
      BY <2>1 DEF Poll
    <3>2. DataWarm'
      BY <1>1, <3>1 DEF IInv, DataWarm
    <3> QED BY <3>1, <3>2 DEF IInv, TypeOK
  <2>2. CASE failed # Groups(t)
    BY <1>1, <2>2, AnswersAreReadings, UpdateKeeps DEF Poll
  <2> QED BY <2>1, <2>2
<1>6. optimistic' = optimistic /\ optimistic \in [Register -> Nat \cup {Absent}]
  BY <1>1 DEF writeVars, IInv, TypeOK
<1>7. Showing'
  <2>1. CASE data' # data \/ success' # success
    <3>1. CallListeners(t)
      BY <2>1 DEF Poll
    <3> QED BY <1>1, <1>4, <1>5, <1>6, <3>1, ListenersAreRight DEF writeVars, Pending
  <2>2. CASE ~(data' # data \/ success' # success)
    <3>1. UNCHANGED viewVars
      BY <2>2 DEF Poll
    <3> QED BY <1>1, <1>5, <2>2, <3>1, NothingChanges DEF writeVars
  <2> QED BY <2>1, <2>2
<1>8. TypeOK'
  BY <1>1, <1>2, <1>3, <1>5, <1>7
     DEF IInv, TypeOK, Showing, envVars, writeVars, Reads
<1> QED BY <1>4, <1>5, <1>7, <1>8 DEF IInv, Showing

\* The first refresh of a tier, and the birth of the entities after the last.
LEMMA FirstRefreshStep ==
  ASSUME IInv, NEW failed, FirstRefresh(failed)
  PROVE  IInv'
<1>1. /\ ~Running /\ failed \in SUBSET Groups(next)
      /\ UNCHANGED <<envVars, warming, lastLink, heard, writeVars>>
      /\ NoteLink(Groups(next) \ failed) /\ Happens(Cardinality(failed))
      /\ Update(next, Polled(next, failed)) /\ next' = next + 1
      /\ shown' = IF Running' THEN [e \in Entity |-> View(e)'] ELSE shown
  BY DEF FirstRefresh
<1>2. next \in Tier /\ next' \in 1..NumTiers + 1
  BY <1>1 DEF IInv, TypeOK, Running, Tier
<1>3. events' \in 0..MaxEvents
  BY <1>1, <1>2, GroupsFinite DEF Happens, IInv, TypeOK
<1>4. linkRead' \in Reading \ {Absent}
  BY <1>1, LinkNoted
<1>5. /\ data' \in [Register -> Reading] /\ success' \in [Tier -> BOOLEAN]
      /\ settled' \subseteq Register /\ DataWarm'
  BY <1>1, <1>2, AnswersAreReadings, UpdateKeeps
<1>6. /\ ~heard' /\ lastLink' = Unknown /\ Pending' = {} /\ command' = NoCommand
      /\ \A e \in Entity : shown[e] = Unavailable
  BY <1>1 DEF IInv, Quiet, LinkHeard, writeVars, Pending
<1>7. optimistic' = optimistic /\ optimistic \in [Register -> Nat \cup {Absent}]
  BY <1>1 DEF writeVars, IInv, TypeOK
<1>8. Overlaid' /\ Quiet' /\ LinkHeard'
  BY <1>1, <1>6 DEF IInv, Overlaid, Quiet, LinkHeard, Zeroed, writeVars
<1>9. \A e \in Entity : View(e)' \in {Unavailable} \cup [Reads(e) -> Value \cup {Unknown}]
  BY <1>5, <1>7, ViewType
<1>10. ShownIsCurrent'
  BY <1>1 DEF ShownIsCurrent
<1>11. OutageHidden'
  BY <1>1, <1>6, DeadLink DEF OutageHidden
<1>12. PlaceholderHidden'
  <2> SUFFICES ASSUME warming', NEW e \in Entity, shown'[e] # Unavailable,
                      NEW r \in Reads(e) \cap Temp, shown'[e][r] = 0
               PROVE  r \in (settled \cup Zeroed)'
    BY DEF PlaceholderHidden, Reads, Zeroed
  <2>1. shown'[e] = View(e)'
    BY <1>1, <1>6
  <2> QED BY <1>5, <1>7, <1>8, <2>1, WarmView
<1>13. TypeOK'
  <2>1. /\ DOMAIN shown' = Entity
        /\ \A e \in Entity : shown'[e] \in {Unavailable} \cup [Reads(e) -> Value \cup {Unknown}]
    BY <1>1, <1>6, <1>9 DEF IInv, TypeOK
  <2> QED BY <1>1, <1>2, <1>3, <1>4, <1>5, <2>1 DEF IInv, TypeOK, envVars, writeVars, Reads
<1> QED BY <1>5, <1>8, <1>10, <1>11, <1>12, <1>13 DEF IInv

\* The entry starts again, after a failed set-up or a reload.
LEMMA FreshStep ==
  ASSUME IInv, FirstRefreshFails \/ Reload
  PROVE  IInv'
<1>1. Fresh
  BY DEF FirstRefreshFails, Reload
<1>2. ~Running'
  BY <1>1 DEF Fresh, Running
<1>3. /\ truth' = truth /\ board' = board /\ commands' = commands
      /\ lastLink' = Unknown /\ ~heard' /\ heard' \in BOOLEAN
      /\ DOMAIN shown' = Entity /\ \A e \in Entity : shown'[e] = Unavailable
      /\ optimistic' \in [Register -> Nat \cup {Absent}]
      /\ command' = NoCommand /\ Pending' = {} /\ confirm' \in [Register -> Nat]
      /\ \A r \in Register : optimistic'[r] = Absent
  <2>1. CASE FirstRefreshFails
    <3>1. ~Running /\ UNCHANGED <<envVars, viewVars, writeVars>>
      BY <2>1 DEF FirstRefreshFails
    <3>2. \A r \in Register : optimistic[r] = Absent
      BY <3>1 DEF IInv, Quiet, Overlaid
    <3> QED
      BY <3>1, <3>2
         DEF IInv, TypeOK, Quiet, LinkHeard, Pending, envVars, viewVars, writeVars
  <2>2. CASE Reload
    <3>1. Pending' = {} /\ confirm' \in [Register -> Nat]
      BY <2>2 DEF Reload, NoneToConfirm, Pending
    <3> QED BY <2>2, <3>1 DEF Reload, envVars, Nothing
  <2> QED BY <2>1, <2>2
<1>4. events' \in 0..MaxEvents
  <2>1. CASE FirstRefreshFails
    <3>1. next \in Tier
      BY <2>1 DEF FirstRefreshFails, Running, IInv, TypeOK, Tier
    <3> QED BY <2>1, <3>1, GroupsFinite DEF FirstRefreshFails, Happens, IInv, TypeOK
  <2>2. CASE Reload
    BY <2>2 DEF Reload, Happens, IInv, TypeOK
  <2> QED BY <2>1, <2>2
<1>5. /\ data' = Nothing /\ data' \in [Register -> Reading]
      /\ success' \in [Tier -> BOOLEAN] /\ settled' = {} /\ warming'
      /\ linkRead' = Unknown /\ next' = 1
  BY <1>1 DEF Fresh, Nothing, Reading
<1>6. TypeOK'
  BY <1>3, <1>4, <1>5 DEF IInv, TypeOK, Reading
<1>7. DataWarm'
  BY <1>5 DEF DataWarm, Nothing
<1>8. Overlaid' /\ Quiet' /\ LinkHeard'
  BY <1>3 DEF Overlaid, Quiet, LinkHeard
<1> QED
  BY <1>2, <1>3, <1>6, <1>7, <1>8
     DEF IInv, ShownIsCurrent, OutageHidden, PlaceholderHidden

\* A command is given, or ends without an effect.
LEMMA NoEffectStep ==
  ASSUME IInv, (\E c \in Given : Begin(c)) \/ CommandFails
  PROVE  IInv'
<1>1. /\ UNCHANGED <<envVars, dataVars, viewVars, optimistic, confirm, events>>
      /\ command' \in Given \cup {NoCommand} /\ commands' \in 0..MaxCommands
      /\ Running \/ command' = NoCommand
  BY DEF Begin, CommandFails, IInv, TypeOK
<1>2. Showing'
  BY <1>1, NothingChanges DEF dataVars
<1>3. TypeOK'
  BY <1>1, <1>2 DEF IInv, TypeOK, Showing, envVars, dataVars, Reads
<1>4. Overlaid' /\ Quiet' /\ DataWarm'
  BY <1>1 DEF IInv, Overlaid, Quiet, DataWarm, Zeroed, Running, dataVars, viewVars, Pending
<1> QED BY <1>2, <1>3, <1>4 DEF IInv, Showing

\* A written value shows at its own entity; whoever else reads it has to wait.
LEMMA CommandStep ==
  ASSUME IInv, NEW c \in Given, CommandOk(c)
  PROVE  IInv'
<1> DEFINE q == c.register
           v == c.setting.writes
<1>0. c.entity \in Entity /\ q \in Register /\ v \in Nat
  BY CommandTypes
<1>1. /\ command = c /\ board' = [board EXCEPT ![q] = v]
      /\ truth' = IF board[Link] = 1 THEN [truth EXCEPT ![q] = v] ELSE truth
      /\ optimistic' = [optimistic EXCEPT ![q] = v]
      /\ confirm' = [confirm EXCEPT ![q] = @ + 1] /\ command' = NoCommand
      /\ UNCHANGED <<dataVars, lastLink, heard, commands, events>>
      /\ shown' = [shown EXCEPT ![c.entity] = View(c.entity)']
  BY DEF CommandOk
<1>2. Running /\ Running' /\ q \in Pending' /\ \A r \in Pending : r \in Pending'
  BY <1>0, <1>1 DEF IInv, TypeOK, Quiet, Running, Pending, dataVars
<1>3. /\ optimistic' \in [Register -> Nat \cup {Absent}]
      /\ board' \in [Register -> Value] /\ truth' \in [Register -> Value]
  BY <1>0, <1>1 DEF IInv, TypeOK, Value
<1>4. Overlaid'
  <2> SUFFICES ASSUME NEW r \in Register, optimistic'[r] # Absent
               PROVE  /\ \E s \in Pending' : GroupOf[s] = GroupOf[r]
                      /\ optimistic'[r] = 0 => r \in Zeroed
    BY DEF Overlaid, Zeroed
  <2>1. CASE r = q
    BY <1>0, <1>1, <1>2, <2>1 DEF IInv, TypeOK, Zeroed
  <2>2. CASE r # q
    <3>1. optimistic'[r] = optimistic[r]
      BY <1>0, <1>1, <2>2 DEF IInv, TypeOK
    <3> QED BY <1>1, <1>2, <3>1 DEF IInv, Overlaid
  <2> QED BY <2>1, <2>2
<1>5. DataWarm' /\ LinkHeard' /\ Quiet'
  BY <1>1, <1>2 DEF IInv, DataWarm, LinkHeard, LinkSeen, Known, Quiet, dataVars
<1>6. data' \in [Register -> Reading] /\ data' = data /\ success' = success
  BY <1>1 DEF IInv, TypeOK, dataVars
<1>7. shown'[c.entity] = View(c.entity)'
      /\ \A e \in Entity : e # c.entity => shown'[e] = shown[e]
  BY <1>0, <1>1 DEF IInv, TypeOK
<1>8. ShownIsCurrent'
  <2> SUFFICES ASSUME NEW e \in Entity, e # c.entity
               PROVE  (\/ shown[e] = View(e)
                       \/ Unconfirmed(e)
                       \/ ~heard /\ shown[e] = Unavailable /\ ~Listens(e, LinkTier))'
    BY <1>7 DEF ShownIsCurrent
  <2>1. Unconfirmed(e) => Unconfirmed(e)'
    BY <1>1, <1>2 DEF Unconfirmed
  <2>2. CASE q \in Reads(e)
    BY <1>1, <1>2, <2>2 DEF Unconfirmed
  <2>3. CASE q \notin Reads(e)
    <3>1. \A r \in Reads(e) : optimistic'[r] = optimistic[r]
      BY <1>0, <1>1, <2>3 DEF IInv, TypeOK, Reads
    <3>2. link_ok' = link_ok
      BY <1>6 DEF link_ok, LinkSeen, Known
    <3>3. View(e)' = View(e)
      BY <1>6, <3>1, <3>2, SameView
    <3> QED
      BY <1>1, <1>2, <1>7, <2>1, <3>3 DEF IInv, ShownIsCurrent, Listens
  <2> QED BY <2>2, <2>3
<1>9. OutageHidden'
  BY <1>0, <1>6, <1>7, DeadLink DEF IInv, OutageHidden
<1>10. PlaceholderHidden'
  <2> SUFFICES ASSUME warming', NEW e \in Entity, shown'[e] # Unavailable,
                      NEW r \in Reads(e) \cap Temp, shown'[e][r] = 0
               PROVE  r \in (settled \cup Zeroed)'
    BY DEF PlaceholderHidden, Reads, Zeroed
  <2>1. CASE e = c.entity
    BY <1>3, <1>4, <1>5, <1>6, <1>7, <2>1, WarmView
  <2>2. CASE e # c.entity
    BY <1>1, <1>7, <2>2 DEF IInv, PlaceholderHidden, Zeroed, dataVars
  <2> QED BY <2>1, <2>2
<1>11. TypeOK'
  <2>1. \A e \in Entity : shown'[e] \in {Unavailable} \cup [Reads(e) -> Value \cup {Unknown}]
    <3>1. View(c.entity)' \in {Unavailable} \cup [Reads(c.entity) -> Value \cup {Unknown}]
      BY <1>0, <1>3, <1>6, ViewType
    <3> QED BY <1>7, <3>1 DEF IInv, TypeOK
  <2>2. DOMAIN shown' = Entity /\ confirm' \in [Register -> Nat]
    BY <1>0, <1>1 DEF IInv, TypeOK
  <2> QED BY <1>1, <1>3, <2>1, <2>2 DEF IInv, TypeOK, dataVars, Reads
<1> QED BY <1>4, <1>5, <1>8, <1>9, <1>10, <1>11 DEF IInv

\* The overlays of a group end with the re-read of it that was waited for.
LEMMA OverlaysDropped ==
  ASSUME IInv, NEW r \in Register, ConfirmEnds(r), DropOverlays(r)
  PROVE  /\ r \in Pending /\ confirm' \in [Register -> Nat]
         /\ optimistic' \in [Register -> Nat \cup {Absent}] /\ Overlaid'
         /\ \A s \in Register : TierOf[s] # TierOf[r] => optimistic'[s] = optimistic[s]
         /\ \A s \in Pending : s \in Pending' \/ TierOf[s] = TierOf[r]
<1>0. /\ r \in Pending /\ confirm' \in [Register -> Nat]
      /\ \A s \in Pending : s \in Pending' \/ s = r
  BY DEF IInv, TypeOK, ConfirmEnds, Pending
<1>1. optimistic' =
        [s \in Register |-> IF GroupOf[s] = GroupOf[r] THEN Absent ELSE optimistic[s]]
  BY DEF DropOverlays
<1>2. optimistic' \in [Register -> Nat \cup {Absent}]
  BY <1>1 DEF IInv, TypeOK
<1>3. \A s \in Register : TierOf[s] # TierOf[r] => optimistic'[s] = optimistic[s]
  BY <1>0, <1>1
<1>4. Overlaid'
  <2> SUFFICES ASSUME NEW s \in Register, optimistic'[s] # Absent
               PROVE  /\ \E u \in Pending' : GroupOf[u] = GroupOf[s]
                      /\ optimistic'[s] = 0 => s \in Zeroed
    BY DEF Overlaid, Zeroed
  <2>1. optimistic'[s] = optimistic[s] /\ GroupOf[s] # GroupOf[r]
    BY <1>1
  <2> QED BY <1>0, <2>1 DEF IInv, Overlaid
<1> QED BY <1>0, <1>2, <1>3, <1>4

\* A targeted re-read that comes back.
LEMMA ConfirmStepOk ==
  ASSUME IInv, NEW r \in Register, Confirm(r)
  PROVE  IInv'
<1> DEFINE t == TierOf[r]
           answers == [s \in Register |-> IF GroupOf[s] = GroupOf[r] THEN board[s] ELSE data[s]]
<1>1. /\ ConfirmEnds(r) /\ NoteLink({GroupOf[r]})
      /\ Update(t, answers) /\ DropOverlays(r) /\ CallListeners(t)
      /\ UNCHANGED <<envVars, next, warming, command, commands, events>>
  BY DEF Confirm
<1>2. r \in Pending /\ confirm' \in [Register -> Nat] /\ Running /\ t \in Tier
  BY <1>1, OverlaysDropped DEF IInv, Quiet
<1>3. linkRead' \in Reading \ {Absent}
  BY <1>1, LinkNoted
<1>4. answers \in [Register -> Reading]
  BY AnswersAreReadings
<1> HIDE DEF answers
<1>5. /\ data' \in [Register -> Reading] /\ success' \in [Tier -> BOOLEAN]
      /\ settled' \subseteq Register /\ settled \subseteq settled' /\ DataWarm'
      /\ \A s \in Register : TierOf[s] # t => data'[s] = data[s]
      /\ \A u \in Tier : u # t => success'[u] = success[u]
  BY <1>1, <1>2, <1>4, UpdateKeeps
<1>6. /\ optimistic' \in [Register -> Nat \cup {Absent}] /\ Overlaid'
      /\ \A s \in Register : TierOf[s] # t => optimistic'[s] = optimistic[s]
      /\ \A s \in Pending : s \in Pending' \/ TierOf[s] = t
  BY <1>1, OverlaysDropped
<1>7. Showing'
  BY <1>1, <1>2, <1>5, <1>6, ListenersAreRight
<1>8. Quiet'
  BY <1>1, <1>2 DEF Quiet, Running
<1>9. TypeOK'
  BY <1>1, <1>2, <1>3, <1>5, <1>6, <1>7 DEF IInv, TypeOK, Showing, envVars, Reads
<1> QED BY <1>5, <1>6, <1>7, <1>8, <1>9 DEF IInv, Showing

\* A targeted re-read that fails.
LEMMA ConfirmStepFails ==
  ASSUME IInv, NEW r \in Register, ConfirmFails(r)
  PROVE  IInv'
<1> DEFINE t == TierOf[r]
<1>1. /\ ConfirmEnds(r) /\ Happens(1)
      /\ DropOverlays(r) /\ CallListeners(t)
      /\ UNCHANGED <<envVars, dataVars, command, commands>>
  BY DEF ConfirmFails
<1>2. r \in Pending /\ confirm' \in [Register -> Nat] /\ Running /\ t \in Tier
  BY <1>1, OverlaysDropped DEF IInv, Quiet
<1>3. /\ optimistic' \in [Register -> Nat \cup {Absent}] /\ Overlaid'
      /\ \A s \in Register : TierOf[s] # t => optimistic'[s] = optimistic[s]
      /\ \A s \in Pending : s \in Pending' \/ TierOf[s] = t
  BY <1>1, OverlaysDropped
<1>4. data' \in [Register -> Reading] /\ data' = data /\ success' = success
  BY <1>1 DEF IInv, TypeOK, dataVars
<1>5. DataWarm' /\ settled \subseteq settled' /\ next' = next /\ warming' = warming
  BY <1>1 DEF IInv, DataWarm, dataVars
<1>6. Showing'
  BY <1>1, <1>2, <1>3, <1>4, <1>5, ListenersAreRight
<1>7. Quiet'
  BY <1>2, <1>5 DEF Quiet, Running
<1>8. events' \in 0..MaxEvents
  BY <1>1 DEF Happens, IInv, TypeOK
<1>9. TypeOK'
  BY <1>1, <1>2, <1>3, <1>6, <1>8 DEF IInv, TypeOK, Showing, envVars, dataVars, Reads
<1> QED BY <1>3, <1>5, <1>6, <1>7, <1>9 DEF IInv, Showing

\* An overlay that runs out is still on show, but on the way to its re-read.
LEMMA ExpireStep ==
  ASSUME IInv, NEW r \in Register, Expire(r)
  PROVE  IInv'
<1>1. /\ optimistic[r] # Absent /\ optimistic' = [optimistic EXCEPT ![r] = Absent]
      /\ UNCHANGED <<envVars, dataVars, viewVars, command, confirm, commands, events>>
  BY DEF Expire
<1>2. PICK s \in Pending : GroupOf[s] = GroupOf[r]
  BY <1>1 DEF IInv, Overlaid
<1>3. /\ optimistic' \in [Register -> Nat \cup {Absent}]
      /\ \A s2 \in Register : optimistic'[s2] \in {optimistic[s2], Absent}
  BY <1>1 DEF IInv, TypeOK
<1>4. Overlaid'
  BY <1>1, <1>3 DEF IInv, Overlaid, Zeroed, Pending
<1>5. ShownIsCurrent'
  <2> SUFFICES ASSUME Running, NEW e \in Entity
               PROVE  (\/ shown[e] = View(e)
                       \/ Unconfirmed(e)
                       \/ ~heard /\ shown[e] = Unavailable /\ ~Listens(e, LinkTier))'
    BY <1>1 DEF ShownIsCurrent, Running, dataVars
  <2>1. CASE r \in Reads(e)
    BY <1>1, <1>2, <2>1 DEF Unconfirmed, Pending
  <2>2. CASE r \notin Reads(e)
    <3>1. \A q \in Reads(e) : optimistic'[q] = optimistic[q]
      BY <1>1, <2>2 DEF IInv, TypeOK, Reads
    <3>2. data' = data /\ success' = success /\ link_ok' = link_ok
      BY <1>1 DEF dataVars, link_ok, LinkSeen, Known
    <3>3. View(e)' = View(e)
      BY <3>1, <3>2, SameView
    <3> QED
      BY <1>1, <3>3 DEF IInv, ShownIsCurrent, Unconfirmed, Pending, Listens, viewVars
  <2> QED BY <2>1, <2>2
<1>6. OutageHidden' /\ PlaceholderHidden'
  BY <1>1 DEF IInv, OutageHidden, PlaceholderHidden, Zeroed, dataVars, viewVars
<1>7. DataWarm' /\ LinkHeard' /\ Quiet'
  BY <1>1 DEF IInv, DataWarm, LinkHeard, LinkSeen, Known, Quiet, Running, dataVars, viewVars
<1>8. TypeOK'
  BY <1>1, <1>3 DEF IInv, TypeOK, envVars, dataVars, viewVars, Reads
<1> QED BY <1>4, <1>5, <1>6, <1>7, <1>8 DEF IInv

\* The environment moves, or the warm-up window ends: nobody reads anything.
LEMMA UnreadStep ==
  ASSUME IInv,
         \/ \E t \in Tier : Fetch(t)
         \/ LinkDrops \/ LinkReturns \/ BoardRestarts
         \/ \E r \in Register : ControllerChanges(r)
         \/ WarmUpEnds
         \/ UNCHANGED vars
  PROVE  IInv'
<1>1. /\ truth' \in [Register -> Value] /\ board' \in [Register -> Value]
      /\ events' \in 0..MaxEvents /\ (warming' => warming) /\ warming' \in BOOLEAN
      /\ UNCHANGED <<next, data, success, settled, linkRead, viewVars, writeVars>>
  <2>1. CASE WarmUpEnds
    BY <2>1 DEF WarmUpEnds, IInv, TypeOK, envVars
  <2>2. CASE UNCHANGED vars
    BY <2>2 DEF vars, envVars, dataVars, IInv, TypeOK
  <2>3. CASE ~WarmUpEnds /\ ~UNCHANGED vars
    <3>1. /\ truth' \in [Register -> Value] /\ board' \in [Register -> Value]
          /\ events' \in 0..MaxEvents
          /\ UNCHANGED <<dataVars, viewVars, writeVars>>
      BY <2>3, EnvironmentTypes
    <3> QED BY <3>1 DEF dataVars, IInv, TypeOK
  <2> QED BY <2>1, <2>2, <2>3
<1>2. Showing'
  BY <1>1, NothingChanges DEF writeVars
<1>3. Overlaid' /\ Quiet' /\ DataWarm'
  BY <1>1 DEF IInv, Overlaid, Quiet, DataWarm, Zeroed, Running, viewVars, writeVars, Pending
<1>4. TypeOK'
  BY <1>1, <1>2 DEF IInv, TypeOK, Showing, writeVars, Reads
<1> QED BY <1>2, <1>3, <1>4 DEF IInv, Showing

-----------------------------------------------------------------------------
(* The theorems *)

\* Every step, and every step that changes nothing, keeps the invariant.
LEMMA NextIInv ==
  IInv /\ [Next]_vars => IInv'
<1> SUFFICES ASSUME IInv, [Next]_vars PROVE IInv'
  OBVIOUS
<1>1. CASE SetUpStep
  BY <1>1, FirstRefreshStep, FreshStep DEF SetUpStep
<1>2. CASE Reload
  BY <1>2, FreshStep
<1>3. ASSUME NEW t \in Tier, PollTier(t)
      PROVE  IInv'
  BY <1>3, PollStep DEF PollTier
<1>4. CASE (\E c \in Given : Begin(c)) \/ CommandEnds
  BY <1>4, NoEffectStep, CommandStep DEF CommandEnds
<1>5. ASSUME NEW r \in Register, ConfirmStep(r) \/ Expire(r)
      PROVE  IInv'
  BY <1>5, ConfirmStepOk, ConfirmStepFails, ExpireStep DEF ConfirmStep
<1>6. ASSUME \/ \E t \in Tier : Fetch(t)
             \/ LinkDrops \/ LinkReturns \/ BoardRestarts
             \/ \E r \in Register : ControllerChanges(r)
             \/ WarmUpEnds
             \/ UNCHANGED vars
      PROVE  IInv'
  BY <1>6, UnreadStep
<1> QED BY <1>1, <1>2, <1>3, <1>4, <1>5, <1>6 DEF Next

\* The invariant holds in every reachable state.
LEMMA Invariant ==
  Spec => []IInv
BY InitIInv, NextIInv, PTL DEF Spec

\* Every variable keeps its type: no reading, overlay or state of an entity is
\* ever anything else, and no service call writes what is no number.
THEOREM TypeCorrect ==
  Spec => []TypeOK
<1>1. IInv => TypeOK
  BY DEF IInv
<1> QED BY <1>1, Invariant, PTL

\* What Home Assistant holds of an entity is what the entity would say now
\* (coordinator.py, `async_update_listeners` and `async_link_watcher`).
THEOREM NobodyIsForgotten ==
  Spec => []ShownIsCurrent
<1>1. IInv => ShownIsCurrent
  BY DEF IInv
<1> QED BY <1>1, Invariant, PTL

\* Behind a link that is known to be down no controller value is on show,
\* whichever tier it comes from (`register_is_available`).
THEOREM NothingBehindADeadLink ==
  Spec => []OutageHidden
<1>1. IInv => OutageHidden
  BY DEF IInv
<1> QED BY <1>1, Invariant, PTL

\* No temperature shows the 0 of a board that is still warming up
\* (`_apply_warmup`).
THEOREM NoPlaceholderShown ==
  Spec => []PlaceholderHidden
<1>1. IInv => PlaceholderHidden
  BY DEF IInv
<1> QED BY <1>1, Invariant, PTL

-----------------------------------------------------------------------------
(* Commands *)

\* A table read backwards gives back the entry, if no other has its code.
LEMMA ReadBackwards ==
  ASSUME NEW f, NEW x \in DOMAIN f, \A y \in DOMAIN f : f[y] = f[x] => y = x
  PROVE  AntiFunction(f)[f[x]] = x
<1> DEFINE back == CHOOSE y \in DOMAIN f : f[y] = f[x]
<1>1. AntiFunction(f)[f[x]] = back
  BY DEF AntiFunction, Inverse, Range
<1>2. back \in DOMAIN f /\ f[back] = f[x]
  BY Zenon
<1> HIDE DEF back
<1> QED BY <1>1, <1>2

\* What a code shows as is the command that wrote it (climate.py,
\* `_HVAC_TO_MODE` against `_MODE_TO_HVAC`, and the presets).
LEMMA ClimateModes ==
  /\ \A h \in DOMAIN HVAC_TO_MODE : Climate(HVAC_TO_MODE[h]).hvac_mode = h
  /\ \A p \in DOMAIN PRESET_TO_MODE : Climate(PRESET_TO_MODE[p]).preset_mode = p
<1>1. \A h \in DOMAIN HVAC_TO_MODE : MODE_TO_HVAC(HVAC_TO_MODE[h]) = h
  BY DEF HVAC_TO_MODE, MODE_TO_HVAC, MODE_PROTECTION, MODE_AUTOMATIC, MODE_COMFORT
<1>2. ASSUME NEW p \in DOMAIN PRESET_TO_MODE
      PROVE  MODE_TO_PRESET[PRESET_TO_MODE[p]] = p
  <2>1. \A q \in DOMAIN PRESET_TO_MODE : PRESET_TO_MODE[q] = PRESET_TO_MODE[p] => q = p
    BY DEF PRESET_TO_MODE, MODE_PROTECTION, MODE_AUTOMATIC, MODE_REDUCED, MODE_COMFORT
  <2> QED BY <2>1, ReadBackwards DEF MODE_TO_PRESET
<1> QED BY <1>1, <1>2 DEF Climate

\* The same of the domestic hot water (water_heater.py).
LEMMA WaterHeaterModes ==
  /\ \A o \in DOMAIN OPERATION_TO_MODE : WaterHeater(OPERATION_TO_MODE[o]).operation = o
  /\ WaterHeater(MODE_ECO).away = TRUE /\ WaterHeater(MODE_ON).away = FALSE
<1>1. ASSUME NEW o \in DOMAIN OPERATION_TO_MODE
      PROVE  MODE_TO_OPERATION[OPERATION_TO_MODE[o]] = o
  <2>1. \A q \in DOMAIN OPERATION_TO_MODE : OPERATION_TO_MODE[q] = OPERATION_TO_MODE[o] => q = o
    BY DEF OPERATION_TO_MODE, MODE_OFF, MODE_ON, MODE_ECO
  <2> QED BY <2>1, ReadBackwards DEF MODE_TO_OPERATION
<1>2. \A mode : WaterHeater(mode).away = (mode = MODE_ECO)
  BY DEF WaterHeater
<1>3. (MODE_ECO = MODE_ECO) = TRUE /\ (MODE_ON = MODE_ECO) = FALSE
  BY DEF MODE_ECO, MODE_ON
<1> QED BY <1>1, <1>2, <1>3 DEF WaterHeater

\* Reading a written code gives back what the command was to set.
LEMMA WrittenAttribute ==
  ASSUME NEW c \in Given, NEW view, view[c.register] = c.setting.writes
  PROVE  IF c.setting.sets = "temperature"
         THEN view[c.register] = c.setting.to
         ELSE Attributes(c.entity, view)[c.setting.sets] = c.setting.to
<1>1. PICK e \in Entity : c \in Commands(e)
  BY DEF Command
<1>2. CASE c.setting \in {Setting("temperature", v, v) : v \in Targets}
  BY <1>2 DEF Setting
<1>3. CASE /\ Kind[e] = "climate" /\ c.setting \in ClimateCommands
           /\ c.entity = e /\ c.register = Own[e]
  <2>1. Attributes(c.entity, view) = Climate(c.setting.writes)
    BY <1>3 DEF Attributes
  <2>2. CASE \E h \in DOMAIN HVAC_TO_MODE : c.setting = Setting("hvac_mode", h, HVAC_TO_MODE[h])
    BY <2>1, <2>2, ClimateModes DEF Setting, Climate
  <2>3. CASE \E p \in DOMAIN PRESET_TO_MODE :
               c.setting = Setting("preset_mode", p, PRESET_TO_MODE[p])
    BY <2>1, <2>3, ClimateModes DEF Setting, Climate
  <2> QED BY <1>3, <2>2, <2>3 DEF ClimateCommands
<1>4. CASE /\ Kind[e] = "water_heater" /\ c.setting \in WaterHeaterCommands
           /\ c.entity = e /\ c.register = Own[e]
  <2>1. Attributes(c.entity, view) = WaterHeater(c.setting.writes)
    BY <1>4 DEF Attributes
  <2>2. CASE \E o \in DOMAIN OPERATION_TO_MODE :
               c.setting = Setting("operation", o, OPERATION_TO_MODE[o])
    BY <2>1, <2>2, WaterHeaterModes DEF Setting, WaterHeater
  <2>3. CASE c.setting \in {Setting("away", TRUE, MODE_ECO), Setting("away", FALSE, MODE_ON)}
    <3>1. /\ c.setting.sets = "away"
          /\ Attributes(c.entity, view)["away"] = WaterHeater(c.setting.writes).away
      BY <2>1, <2>3 DEF Setting
    <3>2. WaterHeater(c.setting.writes).away = c.setting.to
      <4>1. CASE c.setting = Setting("away", TRUE, MODE_ECO)
        <5>1. c.setting.to = TRUE /\ c.setting.writes = MODE_ECO
          BY <4>1 DEF Setting
        <5> QED BY <5>1, WaterHeaterModes, Zenon
      <4>2. CASE c.setting = Setting("away", FALSE, MODE_ON)
        <5>1. c.setting.to = FALSE /\ c.setting.writes = MODE_ON
          BY <4>2 DEF Setting
        <5> QED BY <5>1, WaterHeaterModes, Zenon
      <4> QED BY <2>3, <4>1, <4>2
    <3>3. c.setting.sets # "temperature"
      BY <3>1
    <3> QED BY <3>1, <3>2, <3>3, Zenon
  <2> QED BY <1>4, <2>2, <2>3 DEF WaterHeaterCommands
<1>5. CASE /\ Kind[e] = "number" /\ c.setting \in {Setting("value", v, v) : v \in Targets}
           /\ c.entity = e /\ c.register = Own[e]
  BY <1>5 DEF Attributes, Setting
<1> QED BY <1>1, <1>2, <1>3, <1>4, <1>5 DEF Commands

\* When a command has been carried out, the attribute it set shows what it was
\* set to, whatever the mode tables of climate.py and water_heater.py make of
\* the code that was written.
THEOREM CommandsShow ==
  Spec => CommandShows
<1>1. ASSUME IInv, NEW c \in Given, CommandOk(c), shown'[c.entity] # Unavailable
      PROVE  IF c.setting.sets = "temperature"
             THEN shown'[c.entity][c.register] = c.setting.to
             ELSE Attributes(c.entity, shown'[c.entity])[c.setting.sets] = c.setting.to
  <2>1. c.entity \in Entity /\ c.register \in Register /\ c.setting.writes \in Nat
    BY CommandTypes
  <2>2. c.register \in Reads(c.entity)
    BY DEF Command, Commands, Reads
  <2>3. decoded(c.register)' = c.setting.writes
    BY <1>1, <2>1 DEF CommandOk, IInv, TypeOK, decoded
  <2>4. shown'[c.entity] = View(c.entity)'
    BY <1>1, <2>1 DEF CommandOk, IInv, TypeOK
  <2>5. shown'[c.entity][c.register] = c.setting.writes
    BY <1>1, <2>1, <2>2, <2>3, <2>4 DEF View, Known
  <2> QED BY <2>5, WrittenAttribute
<1>2. IInv /\ [Next]_vars => [\A c \in Given : CommandOk(c) /\ shown'[c.entity] # Unavailable =>
       IF c.setting.sets = "temperature"
       THEN shown'[c.entity][c.register] = c.setting.to
       ELSE Attributes(c.entity, shown'[c.entity])[c.setting.sets] = c.setting.to]_vars
  BY <1>1
<1> QED BY <1>2, Invariant, PTL DEF Spec, CommandShows

-----------------------------------------------------------------------------
(* The outage *)

\* The tier of register 0 keeps nothing but register 0's group.
LinkAlone == Groups(LinkTier) = {GroupOf[Link]}

\* What the tier of register 0 holds of it is its last reading, or nothing, the
\* latter only before the set-up reads it and after a read that lost its group.
LinkTracked ==
  /\ data[Link] \in {Absent, linkRead}
  /\ next <= LinkTier => data[Link] = Absent /\ linkRead = Unknown
  /\ LinkAlone /\ data[Link] = Absent => linkRead = Unknown

\* A read of the tier of register 0 that got some answers, but not that one.
LosesLink(failed) ==
  /\ failed \subseteq Groups(LinkTier) /\ failed # Groups(LinkTier)
  /\ GroupOf[Link] \in failed
  /\ Poll(LinkTier, failed) \/ (next = LinkTier /\ FirstRefresh(failed))

\* What can become of register 0 in a step: nothing is read of it, it is read,
\* it is lost in a read of its tier, or all is forgotten in a new set-up.
Unread == data'[Link] = data[Link] /\ linkRead' = linkRead
          /\ (next' <= LinkTier => next <= LinkTier)
Read == data'[Link] = board[Link] /\ linkRead' = board[Link] /\ ~(next' <= LinkTier)
Missed == data'[Link] = Absent /\ linkRead' = linkRead /\ ~(next' <= LinkTier)
          /\ \E failed : LosesLink(failed)
Forgotten == data'[Link] = Absent /\ linkRead' = Unknown

\* Register 0 is of its tier, and is no temperature that warms up.
LEMMA LinkFacts ==
  /\ Link \in Register /\ LinkTier \in Tier /\ Link \in Members(LinkTier)
  /\ GroupOf[Link] \in Groups(LinkTier)
  /\ \A t \in Tier : t # LinkTier => Link \notin Members(t) /\ GroupOf[Link] \notin Groups(t)
  /\ \A v : Warmed(Link, v) = v
  BY DEF LinkTier, Members, Groups, Warmed

\* A read of a tier, by a poll or by the set-up.
LEMMA TierRead ==
  ASSUME IInv, NEW t \in Tier, NEW failed, failed \subseteq Groups(t), failed # Groups(t),
         Update(t, Polled(t, failed)), NoteLink(Groups(t) \ failed),
         t # LinkTier => (next' <= LinkTier => next <= LinkTier),
         t = LinkTier => ~(next' <= LinkTier),
         Poll(t, failed) \/ (next = t /\ FirstRefresh(failed))
  PROVE  Unread \/ Read \/ Missed
<1>1. data'[Link] = IF t = LinkTier THEN Polled(t, failed)[Link] ELSE data[Link]
  <2>1. data'[Link] = IF Link \in Members(t) THEN Warmed(Link, Polled(t, failed)[Link])
                                             ELSE data[Link]
    BY LinkFacts DEF Update
  <2> QED BY <2>1, LinkFacts
<1>2. linkRead' = IF GroupOf[Link] \in Groups(t) \ failed THEN board[Link] ELSE linkRead
  BY DEF NoteLink
<1>3. CASE t # LinkTier
  BY <1>1, <1>2, <1>3, LinkFacts DEF Unread
<1>4. CASE t = LinkTier /\ GroupOf[Link] \notin failed
  BY <1>1, <1>2, <1>4, LinkFacts DEF Read, Polled
<1>5. CASE t = LinkTier /\ GroupOf[Link] \in failed
  <2>1. Polled(t, failed)[Link] = Absent
    BY <1>5, LinkFacts DEF Polled
  <2>2. LosesLink(failed)
    BY <1>5 DEF LosesLink
  <2> QED BY <1>1, <1>2, <1>5, <2>1, <2>2 DEF Missed
<1> QED BY <1>3, <1>4, <1>5

LEMMA LinkStep ==
  ASSUME IInv, [Next]_vars
  PROVE  Unread \/ Read \/ Missed \/ Forgotten
<1>0. Running => ~(next <= LinkTier)
  BY LinkFacts DEF Running, IInv, TypeOK, Tier
<1>1. ASSUME NEW failed, FirstRefresh(failed)
      PROVE  Unread \/ Read \/ Missed
  <2>1. /\ ~Running /\ failed \subseteq Groups(next) /\ failed # Groups(next)
        /\ NoteLink(Groups(next) \ failed) /\ Update(next, Polled(next, failed))
        /\ next' = next + 1
    BY <1>1 DEF FirstRefresh
  <2>2. next \in Tier
    BY <2>1 DEF IInv, TypeOK, Running, Tier
  <2>3. /\ next' <= LinkTier => next <= LinkTier
        /\ next = LinkTier => ~(next' <= LinkTier)
    BY <2>1, <2>2, LinkFacts DEF Tier
  <2> QED BY <1>1, <2>1, <2>2, <2>3, TierRead
<1>2. CASE FirstRefreshFails \/ Reload
  <2>1. Fresh
    BY <1>2 DEF FirstRefreshFails, Reload
  <2> QED BY <2>1, LinkFacts DEF Fresh, Nothing, Forgotten
<1>3. ASSUME NEW t \in Tier, NEW failed \in SUBSET Groups(t), Poll(t, failed)
      PROVE  Unread \/ Read \/ Missed
  <2>1. Running /\ next' = next /\ NoteLink(Groups(t) \ failed)
    BY <1>3 DEF Poll
  <2>2. CASE failed = Groups(t)
    <3>1. data' = data
      BY <1>3, <2>2 DEF Poll
    <3> QED BY <2>1, <2>2, <3>1 DEF NoteLink, Unread
  <2>3. CASE failed # Groups(t)
    <3>1. Update(t, Polled(t, failed))
      BY <1>3, <2>3 DEF Poll
    <3>2. /\ next' <= LinkTier => next <= LinkTier
          /\ t = LinkTier => ~(next' <= LinkTier)
      BY <1>0, <2>1
    <3> QED BY <1>3, <2>1, <2>3, <3>1, <3>2, TierRead
  <2> QED BY <2>2, <2>3
<1>4. ASSUME NEW r \in Register, Confirm(r)
      PROVE  Unread \/ Read
  <2> DEFINE answers == [s \in Register |-> IF GroupOf[s] = GroupOf[r] THEN board[s] ELSE data[s]]
  <2>1. r \in Pending /\ next' = next /\ NoteLink({GroupOf[r]}) /\ Update(TierOf[r], answers)
    BY <1>4 DEF Confirm, ConfirmEnds, Pending
  <2>2. ~(next' <= LinkTier)
    BY <1>0, <2>1 DEF IInv, Quiet
  <2>3. data'[Link] \in {answers[Link], data[Link]}
        /\ (GroupOf[Link] = GroupOf[r] => data'[Link] = answers[Link])
    <3>1. data'[Link] = IF Link \in Members(TierOf[r]) THEN Warmed(Link, answers[Link])
                                                       ELSE data[Link]
      BY <2>1, LinkFacts DEF Update
    <3>2. GroupOf[Link] = GroupOf[r] => Link \in Members(TierOf[r])
      BY LinkFacts DEF Members
    <3> HIDE DEF answers
    <3> QED BY <3>1, <3>2, LinkFacts
  <2>4. answers[Link] = IF GroupOf[Link] = GroupOf[r] THEN board[Link] ELSE data[Link]
    BY LinkFacts
  <2>5. linkRead' = IF GroupOf[Link] = GroupOf[r] THEN board[Link] ELSE linkRead
    BY <2>1 DEF NoteLink
  <2> HIDE DEF answers
  <2> QED BY <2>1, <2>2, <2>3, <2>4, <2>5 DEF Unread, Read
<1>5. CASE UNCHANGED <<next, data, linkRead>>
  BY <1>5 DEF Unread
<1>6. CASE \/ WarmUpEnds \/ CommandEnds \/ \E c \in Given : Begin(c)
           \/ \E r \in Register : ConfirmFails(r) \/ Expire(r)
  BY <1>5, <1>6 DEF WarmUpEnds, CommandEnds, CommandOk, CommandFails, Begin, ConfirmFails,
                    Expire, dataVars
<1>7. CASE \/ \E t \in Tier : Fetch(t)
           \/ LinkDrops \/ LinkReturns \/ BoardRestarts
           \/ \E r \in Register : ControllerChanges(r)
           \/ UNCHANGED vars
  BY <1>5, <1>7 DEF Fetch, LinkDrops, LinkReturns, BoardRestarts, ControllerChanges, dataVars, vars
<1> QED
  BY <1>1, <1>2, <1>3, <1>4, <1>6, <1>7 DEF Next, SetUpStep, PollTier, ConfirmStep

LEMMA LinkTrackedStep == IInv /\ LinkTracked /\ [Next]_vars => LinkTracked'
<1> SUFFICES ASSUME IInv, LinkTracked, [Next]_vars
             PROVE  LinkTracked'
  OBVIOUS
<1>1. board[Link] # Absent
  BY LinkFacts DEF IInv, TypeOK, Value
<1>2. ASSUME Missed
      PROVE  ~LinkAlone
  BY <1>2 DEF Missed, LosesLink, LinkAlone
<1>3. LinkAlone' = LinkAlone
  BY DEF LinkAlone, Groups, Members, LinkTier
<1>4. CASE Unread
  BY <1>3, <1>4 DEF Unread, LinkTracked
<1>5. CASE Read
  BY <1>1, <1>5 DEF Read, LinkTracked
<1>6. CASE Missed
  BY <1>2, <1>3, <1>6 DEF Missed, LinkTracked
<1>7. CASE Forgotten
  BY <1>7 DEF Forgotten, LinkTracked
<1> QED BY <1>4, <1>5, <1>6, <1>7, LinkStep

LEMMA LinkIsTracked == Spec => [](IInv /\ LinkTracked)
<1>1. Init => LinkTracked
  BY LinkFacts DEF Init, Nothing, LinkTracked
<1> QED BY <1>1, InitIInv, NextIInv, LinkTrackedStep, PTL DEF Spec

\* As long as the tier of register 0 has a reading of it, the promise of
\* README and DESIGN.md that the run `outage` refutes is kept: after a reading
\* of 0 every entity of the controller is unavailable.
THEOREM OutageHoldsWhileRead == Spec => [](data[Link] # Absent => OutageHolds)
<1>1. IInv /\ LinkTracked => (data[Link] # Absent => OutageHolds)
  BY DEF IInv, LinkTracked, OutageHidden, OutageHolds
<1> QED BY <1>1, LinkIsTracked, PTL

\* A tier whose last reading of register 0 is 0, and which knows it, forgets it
\* in one way: a poll that gets other answers, but not that of register 0.
OnlyAPollForgetsTheOutage ==
  [][linkRead = 0 /\ data[Link] = 0 /\ linkRead' = 0 /\ data'[Link] # 0 =>
       \E failed \in SUBSET Groups(LinkTier) :
         Poll(LinkTier, failed) /\ GroupOf[Link] \in failed /\ failed # Groups(LinkTier)]_vars

THEOREM OnlyAPollUnhides == Spec => OnlyAPollForgetsTheOutage
<1> DEFINE P == linkRead = 0 /\ data[Link] = 0 /\ linkRead' = 0 /\ data'[Link] # 0 =>
                  \E failed \in SUBSET Groups(LinkTier) :
                    Poll(LinkTier, failed) /\ GroupOf[Link] \in failed /\ failed # Groups(LinkTier)
<1>1. ASSUME IInv, LinkTracked, [Next]_vars,
             linkRead = 0, data[Link] = 0, linkRead' = 0, data'[Link] # 0
      PROVE  \E failed \in SUBSET Groups(LinkTier) :
               Poll(LinkTier, failed) /\ GroupOf[Link] \in failed /\ failed # Groups(LinkTier)
  <2>1. Absent # 0 /\ Unknown # 0
    OBVIOUS
  <2>2. Missed
    BY <1>1, <2>1, LinkStep DEF Unread, Read, Forgotten
  <2>3. next # LinkTier
    BY <1>1, <2>1, LinkFacts DEF LinkTracked, Tier
  <2> QED BY <2>2, <2>3 DEF Missed, LosesLink
<1>2. IInv /\ LinkTracked /\ [Next]_vars => [P]_vars
  BY <1>1
<1> HIDE DEF P
<1>3. Spec => [][P]_vars
  BY <1>2, LinkIsTracked, PTL DEF Spec
<1> USE DEF P
<1> QED BY <1>3 DEF OnlyAPollForgetsTheOutage

\* If the tier of register 0 read nothing in another request, the promise would
\* hold: such a poll fails as a whole or not at all.
THEOREM LinkAloneHolds == ASSUME LinkAlone PROVE Spec => []OutageHolds
<1>1. IInv /\ LinkTracked => OutageHolds
  BY DEF IInv, LinkTracked, OutageHidden, OutageHolds
<1> QED BY <1>1, LinkIsTracked, PTL
=============================================================================
