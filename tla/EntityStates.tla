----------------------------- MODULE EntityStates -----------------------------
(***************************************************************************)
(* One entry with all its tiers: what Home Assistant shows of every        *)
(* entity, and whether it is what the entity would say now.                *)
(*                                                                         *)
(* An entity computes its state from `runtime.decoded` and                 *)
(* `register_is_available` (coordinator.py, entity.py), but Home Assistant *)
(* holds what it computed when a coordinator last called it, or when its   *)
(* own write ended.  A coordinator calls when a poll changes something,    *)
(* after every targeted re-read, and when `async_link_watcher` sees the    *)
(* link status flip.  `shown` is what Home Assistant holds.                *)
(*                                                                         *)
(* A poll is one step here: what it looks like when writes and re-reads    *)
(* fall between the groups of one is the subject of WaterstageTier.        *)
(***************************************************************************)
EXTENDS CompositeEntities, FiniteSets

CONSTANTS
  NumTiers,     \* tiers in the order of `coordinators`
  Register, TierOf, GroupOf,  \* a group belongs to one tier
  Link,         \* register 0
  BoardLocal,   \* `is_board_local`: what the board measures itself
  Temp,         \* registers of type TEMP
  Entity, Kind, \* "climate", "water_heater", "number" or "sensor"
  Own,          \* the register of an entity
  Setpoint,     \* the register `async_set_temperature` of an entity writes
  Followed,     \* the other registers it reads (`_follow`)
  Domain,       \* what the controller may hold in a register
  Targets,      \* the values users write to numbers and setpoints
  Given,        \* bound: the commands that are given
  Absent, Unknown, Disabled, Unavailable, NoCommand,
  MaxEvents,    \* bound: groups of registers without an answer, failures of
                \* the BSB link, restarts of the board, changes at the
                \* controller and reloads of the entry, together
  MaxCommands   \* bound: commands given

Tier == 1..NumTiers
LinkTier == TierOf[Link]
Members(t) == {r \in Register : TierOf[r] = t}
Groups(t) == {GroupOf[r] : r \in Members(t)}
Value == Nat \cup {Disabled}
Word == Nat
Reading == Value \cup {Unknown, Absent}
Reads(e) == {Own[e]} \cup Followed[e]

\* What an entity lets its user write, and where to.
Commands(e) ==
  {[entity |-> e, register |-> Own[e], setting |-> s] :
     s \in CASE Kind[e] = "climate" -> ClimateCommands
             [] Kind[e] = "water_heater" -> WaterHeaterCommands
             [] Kind[e] = "number" -> {Setting("value", v, v) : v \in Targets}
             [] OTHER -> {}}
  \cup IF Kind[e] \in {"climate", "water_heater"}
       THEN {[entity |-> e, register |-> Setpoint[e],
              setting |-> Setting("temperature", v, v)] : v \in Targets}
       ELSE {}

Command == UNION {Commands(e) : e \in Entity}

ASSUME EntityAssumption ==
  /\ NumTiers \in Nat \ {0} /\ TierOf \in [Register -> Tier]
  /\ \A t \in Tier : Members(t) # {} /\ IsFiniteSet(Members(t))
  /\ \A r, s \in Register : GroupOf[r] = GroupOf[s] => TierOf[r] = TierOf[s]
  /\ Link \in BoardLocal /\ BoardLocal \subseteq Register
  /\ Temp \subseteq Register /\ Link \notin Temp
  /\ Own \in [Entity -> Register] /\ Setpoint \in [Entity -> Register]
  /\ Followed \in [Entity -> SUBSET Register]
  /\ \A e \in Entity :
       Kind[e] \in {"climate", "water_heater"} => Setpoint[e] \in Followed[e]
  /\ Targets \subseteq Nat
  /\ Domain \in [Register -> SUBSET Value] /\ \A r \in Register : Domain[r] # {}
  /\ {Unknown, Absent, Disabled} \cap Nat = {} /\ Disabled # Unknown
  /\ Absent \notin {Disabled, Unknown} /\ NoCommand \notin Command
  /\ Given \subseteq Command
  /\ \A e \in Entity : Unavailable \notin [Reads(e) -> Reading]
  /\ MaxEvents \in Nat /\ MaxCommands \in Nat

VARIABLES
  truth,       \* what the controller holds, or the board's own sensors
  board,       \* what the board answers
  next,        \* the tier the set-up reads next; beyond NumTiers it runs
  data,        \* `coordinator.data` of all tiers
  success,     \* `last_update_success` of each tier
  settled,     \* `_settled` of all tiers
  warming,     \* whether `_warmup_until` lies ahead
  lastLink,    \* `_last_link`
  optimistic,  \* `_optimistic`
  command,     \* the service call whose write is on the bus
  confirm,     \* how many `_confirm` tasks of each register are alive
  shown,       \* the state Home Assistant holds of each entity
  events, commands,
  \* history, read by no action
  linkRead,    \* what register 0 held when last read
  heard        \* the watcher has recorded a link status

envVars == <<truth, board>>
dataVars == <<next, data, success, settled, warming, linkRead>>
viewVars == <<lastLink, shown, heard>>
writeVars == <<optimistic, command, confirm, commands>>
vars == <<envVars, dataVars, viewVars, writeVars, events>>

Running == next > NumTiers
Nothing == [r \in Register |-> Absent]
NoneToConfirm == [r \in Register |-> 0]

TypeOK ==
  /\ truth \in [Register -> Value] /\ board \in [Register -> Value]
  /\ next \in 1..NumTiers + 1
  /\ data \in [Register -> Reading]
  /\ success \in [Tier -> BOOLEAN]
  /\ settled \subseteq Register /\ warming \in BOOLEAN
  /\ lastLink \in Reading \ {Absent} /\ linkRead \in Reading \ {Absent}
  /\ heard \in BOOLEAN
  /\ optimistic \in [Register -> Nat \cup {Absent}]
  /\ command \in Given \cup {NoCommand}
  /\ confirm \in [Register -> Nat]
  /\ DOMAIN shown = Entity
  /\ \A e \in Entity : shown[e] \in {Unavailable} \cup [Reads(e) -> Value \cup {Unknown}]
  /\ events \in 0..MaxEvents /\ commands \in 0..MaxCommands

\* After power-up the board answers 0 for what it has not fetched.
PoweredUp(t) == [r \in Register |-> IF r \in BoardLocal \ {Link} THEN t[r] ELSE 0]
Fetched(t) == [t EXCEPT ![Link] = 1]

Init ==
  /\ truth \in {t \in [Register -> UNION {Domain[r] : r \in Register}] :
                  \A r \in Register : t[r] \in Domain[r]}
  /\ board \in {PoweredUp(truth), [PoweredUp(truth) EXCEPT ![Link] = 1], Fetched(truth)}
  /\ next = 1
  /\ data = Nothing /\ success = [t \in Tier |-> TRUE]
  /\ settled = {} /\ warming = TRUE
  /\ lastLink = Unknown /\ linkRead = Unknown /\ heard = FALSE
  /\ optimistic = Nothing /\ command = NoCommand /\ confirm = NoneToConfirm
  /\ shown = [e \in Entity |-> Unavailable]
  /\ events = 0 /\ commands = 0

-----------------------------------------------------------------------------
(* What an entity says *)

\* The value of a DecodedValue that may be missing: None for all that has none.
Known(v) == IF v \in {Absent, Disabled} THEN Unknown ELSE v

\* Fault of LinkSeen: register 0 is taken to be in every answer.
LinkSeenUnchecked == data[Link]

LinkSeen == Known(data[Link])

\* "Unknown counts as up".
link_ok == LinkSeen \in {Unknown, 1}

register_is_available(r) ==
  /\ success[TierOf[r]]
  /\ data[r] \notin {Absent, Disabled}
  /\ link_ok \/ r \in BoardLocal

decoded(r) == IF optimistic[r] # Absent THEN optimistic[r] ELSE data[r]

\* The state an entity computes when it is asked.
View(e) == IF register_is_available(Own[e])
           THEN [r \in Reads(e) |-> Known(decoded(r))]
           ELSE Unavailable

\* The attributes of a state that commands set.
Attributes(e, view) ==
  CASE Kind[e] = "climate" -> Climate(view[Own[e]])
    [] Kind[e] = "water_heater" -> WaterHeater(view[Own[e]])
    [] OTHER -> [value |-> view[Own[e]]]

-----------------------------------------------------------------------------
(* Coordinators and their listeners *)

\* Fault of Listens: an entity hears of its own register's tier only.
ListensToItsOwn(e, t) == TierOf[Own[e]] = t

\* `CoordinatorEntity` and `_follow`.
Listens(e, t) == \E r \in Reads(e) : TierOf[r] = t

\* Fault of CallListeners: the watcher leaves an outage to the polls.
CallListenersOnReturn(t) ==
  LET flipped == t = LinkTier /\ LinkSeen' # lastLink
      told == flipped /\ link_ok' IN
  /\ lastLink' = IF flipped THEN LinkSeen' ELSE lastLink
  /\ heard' = (heard \/ flipped)
  /\ shown' = [e \in Entity |-> IF told \/ Listens(e, t) THEN View(e)' ELSE shown[e]]

\* `async_update_listeners`.  In the tier of register 0 the watcher comes
\* first and passes a change on to all the other tiers.
CallListeners(t) ==
  LET flipped == t = LinkTier /\ LinkSeen' # lastLink IN
  /\ lastLink' = IF flipped THEN LinkSeen' ELSE lastLink
  /\ heard' = (heard \/ flipped)
  /\ shown' = [e \in Entity |-> IF flipped \/ Listens(e, t) THEN View(e)' ELSE shown[e]]

Real(v) == v \notin {0, Unknown, Absent, Disabled}

\* Fault of Warmed: the window never ends.
WarmedForEver(r, v) ==
  IF v \in {0, Unknown} /\ r \in Temp /\ r \notin settled THEN Unknown ELSE v

\* `_apply_warmup`: the zero of a temperature not seen yet is no reading.
Warmed(r, v) ==
  IF v \in {0, Unknown} /\ warming /\ r \in Temp /\ r \notin settled THEN Unknown ELSE v

\* What tier t becomes when `answers` is what is known of its registers.
Update(t, answers) ==
  /\ data' = [r \in Register |-> IF r \in Members(t) THEN Warmed(r, answers[r])
                                                     ELSE data[r]]
  /\ settled' = settled \cup {r \in Members(t) : Real(answers[r])}
  /\ success' = [success EXCEPT ![t] = TRUE]

NoteLink(groups) == linkRead' = IF GroupOf[Link] \in groups THEN board[Link] ELSE linkRead

\* The answers to a poll of tier t in which the groups in `failed` got none.
Polled(t, failed) ==
  [r \in Register |-> IF GroupOf[r] \in failed THEN Absent ELSE board[r]]

\* A lost group, an outage and so on, as far as the bound allows.
Happens(n) == events + n <= MaxEvents /\ events' = events + n

\* `_async_update_data` and what the DataUpdateCoordinator makes of it: with
\* `always_update=False` only a change is passed on.
Poll(t, failed) ==
  /\ Running
  /\ Happens(Cardinality(failed))
  /\ UNCHANGED <<envVars, next, warming, writeVars>>
  /\ NoteLink(Groups(t) \ failed)
  /\ IF failed = Groups(t)
     THEN /\ success' = [success EXCEPT ![t] = FALSE]
          /\ UNCHANGED <<data, settled>>
     ELSE Update(t, Polled(t, failed))
  /\ IF data' # data \/ success' # success
     THEN CallListeners(t)
     ELSE UNCHANGED viewVars

-----------------------------------------------------------------------------
(* Set-up and reload *)

\* What a set-up starts from: new coordinators and a new runtime.
Fresh ==
  /\ next' = 1
  /\ data' = Nothing /\ success' = [t \in Tier |-> TRUE]
  /\ settled' = {} /\ warming' = TRUE
  /\ linkRead' = Unknown

\* `async_config_entry_first_refresh`, tier by tier.  After the last one the
\* entities are added, and the watcher attached, before anything else is read.
FirstRefresh(failed) ==
  /\ ~Running
  /\ failed \subseteq Groups(next)
  /\ Happens(Cardinality(failed))
  /\ failed # Groups(next)
  /\ UNCHANGED <<envVars, warming, lastLink, heard, writeVars>>
  /\ NoteLink(Groups(next) \ failed)
  /\ Update(next, Polled(next, failed))
  /\ next' = next + 1
  /\ shown' = IF Running' THEN [e \in Entity |-> View(e)'] ELSE shown

\* Home Assistant tries again later.
FirstRefreshFails ==
  /\ ~Running
  /\ Happens(Cardinality(Groups(next)))
  /\ Fresh
  /\ UNCHANGED <<envVars, viewVars, writeVars>>

\* Unload and set-up.  A write under way ends without the entry; what it does
\* at the board is like a change made at the controller.
Reload ==
  /\ Running
  /\ Happens(1)
  /\ Fresh
  /\ lastLink' = Unknown /\ heard' = FALSE
  /\ shown' = [e \in Entity |-> Unavailable]
  /\ optimistic' = Nothing /\ command' = NoCommand /\ confirm' = NoneToConfirm
  /\ UNCHANGED <<envVars, commands>>

WarmUpEnds ==
  /\ warming /\ warming' = FALSE
  /\ UNCHANGED <<envVars, next, data, success, settled, linkRead, viewVars,
                 writeVars, events>>

-----------------------------------------------------------------------------
(* Commands, the overlay and the confirming re-read *)

\* Home Assistant calls no service of an unavailable entity.
Begin(c) ==
  /\ Running /\ command = NoCommand
  /\ View(c.entity) # Unavailable
  /\ commands < MaxCommands /\ commands' = commands + 1
  /\ command' = c
  /\ UNCHANGED <<envVars, dataVars, viewVars, optimistic, confirm, events>>

\* The write was carried out: `async_set_optimistic`, `async_schedule_confirm`
\* and the `async_write_ha_state` of the entity itself, and of it alone.
CommandOk(c) ==
  LET r == c.register
      v == c.setting.writes IN
  /\ command = c
  /\ board' = [board EXCEPT ![r] = v]
  /\ truth' = IF board[Link] = 1 THEN [truth EXCEPT ![r] = v] ELSE truth
  /\ optimistic' = [optimistic EXCEPT ![r] = v]
  /\ confirm' = [confirm EXCEPT ![r] = @ + 1]
  /\ command' = NoCommand
  /\ UNCHANGED <<dataVars, lastLink, heard, commands, events>>
  /\ shown' = [shown EXCEPT ![c.entity] = View(c.entity)']

CommandFails ==
  /\ command # NoCommand
  /\ command' = NoCommand
  /\ UNCHANGED <<envVars, dataVars, viewVars, optimistic, confirm, commands, events>>

\* The `finally` clause of `_confirm`.
DropOverlays(r) ==
  optimistic' = [s \in Register |-> IF GroupOf[s] = GroupOf[r] THEN Absent ELSE optimistic[s]]

\* One of the tasks for a register is over.
ConfirmEnds(r) == confirm[r] > 0 /\ confirm' = [confirm EXCEPT ![r] = @ - 1]

\* Fault of Confirm: `_apply_warmup` is left to the polls.
ConfirmRaw(r) ==
  LET t == TierOf[r] IN
  /\ ConfirmEnds(r)
  /\ NoteLink({GroupOf[r]})
  /\ data' = [s \in Register |-> IF GroupOf[s] = GroupOf[r] THEN board[s] ELSE data[s]]
  /\ success' = [success EXCEPT ![t] = TRUE]
  /\ DropOverlays(r)
  /\ UNCHANGED <<envVars, next, settled, warming, command, commands, events>>
  /\ CallListeners(t)

\* `async_refresh_group`: the answers are merged with the tier's last data.
\* The listeners are called with the overlay in place and again without it,
\* in one stretch; the second call leaves what the first one left, or newer.
Confirm(r) ==
  LET t == TierOf[r] IN
  /\ ConfirmEnds(r)
  /\ NoteLink({GroupOf[r]})
  /\ Update(t, [s \in Register |-> IF GroupOf[s] = GroupOf[r] THEN board[s] ELSE data[s]])
  /\ DropOverlays(r)
  /\ UNCHANGED <<envVars, next, warming, command, commands, events>>
  /\ CallListeners(t)

ConfirmFails(r) ==
  /\ ConfirmEnds(r)
  /\ Happens(1)
  /\ DropOverlays(r)
  /\ UNCHANGED <<envVars, dataVars, command, commands>>
  /\ CallListeners(TierOf[r])

\* Past WRITE_OPTIMISTIC_TTL `decoded` drops an overlay, and tells nobody.
Expire(r) ==
  /\ optimistic[r] # Absent
  /\ optimistic' = [optimistic EXCEPT ![r] = Absent]
  /\ UNCHANGED <<envVars, dataVars, viewVars, command, confirm, commands, events>>

-----------------------------------------------------------------------------
(* External: the board and the controller behind it *)

\* The board asks the controller over the BSB bus; how often depends on the
\* register, as does its tier.
Fetch(t) ==
  /\ board[Link] = 1
  /\ board' = [r \in Register |-> IF TierOf[r] = t /\ r # Link THEN truth[r] ELSE board[r]]
  /\ UNCHANGED <<truth, dataVars, viewVars, writeVars, events>>

LinkDrops ==
  /\ board[Link] = 1 /\ board' = [board EXCEPT ![Link] = 0]
  /\ Happens(1)
  /\ UNCHANGED <<truth, dataVars, viewVars, writeVars>>

LinkReturns ==
  /\ board[Link] = 0 /\ board' = [board EXCEPT ![Link] = 1]
  /\ UNCHANGED <<truth, dataVars, viewVars, writeVars, events>>

BoardRestarts ==
  /\ Happens(1)
  /\ board' = PoweredUp(truth)
  /\ UNCHANGED <<truth, dataVars, viewVars, writeVars>>

ControllerChanges(r) ==
  /\ r # Link
  /\ Happens(1)
  /\ \E v \in Domain[r] \ {truth[r]} :
       /\ truth' = [truth EXCEPT ![r] = v]
       /\ board' = IF r \in BoardLocal THEN [board EXCEPT ![r] = v] ELSE board
  /\ UNCHANGED <<dataVars, viewVars, writeVars>>

-----------------------------------------------------------------------------

\* By its timer, or once more after the set-up (`_async_second_read`).
PollTier(t) == \E failed \in SUBSET Groups(t) : Poll(t, failed)
SetUpStep == (\E failed \in SUBSET Groups(next) : FirstRefresh(failed)) \/ FirstRefreshFails
CommandEnds == (\E c \in Given : CommandOk(c)) \/ CommandFails
ConfirmStep(r) == Confirm(r) \/ ConfirmFails(r)

Next ==
  \/ SetUpStep \/ Reload \/ WarmUpEnds
  \/ \E t \in Tier : PollTier(t) \/ Fetch(t)
  \/ \E c \in Given : Begin(c)
  \/ CommandEnds
  \/ \E r \in Register : ConfirmStep(r) \/ Expire(r) \/ ControllerChanges(r)
  \/ LinkDrops \/ LinkReturns \/ BoardRestarts

Spec == Init /\ [][Next]_vars

\* Every tier is polled by its own timer, every request ends, the window is a
\* stretch of time; the board fetches what it can, and an outage is mended.
Fairness ==
  /\ WF_vars(SetUpStep) /\ WF_vars(WarmUpEnds)
  /\ WF_vars(CommandEnds) /\ WF_vars(\E r \in Register : ConfirmStep(r))
  /\ \A t \in Tier : WF_vars(PollTier(t))
  /\ WF_vars(\E t \in Tier : Fetch(t)) /\ WF_vars(LinkReturns)

FairSpec == Spec /\ Fairness

-----------------------------------------------------------------------------
(* Properties *)

\* The registers whose last write, or an earlier one, has not been confirmed.
Pending == {r \in Register : confirm[r] > 0}

\* A write to a register the entity reads has not been confirmed yet.
Unconfirmed(e) == \E r \in Pending, s \in Reads(e) : GroupOf[r] = GroupOf[s]

\* Home Assistant holds what the entity would say now, though most of the
\* time nobody asks it.  Two exceptions: of a write only its own entity hears
\* at once, and until the watcher has seen the link status change, an entity
\* that the first refresh found behind a dead link is not told that the status
\* has become unknown, which counts as up.
ShownIsCurrent ==
  Running => \A e \in Entity :
    \/ shown[e] = View(e)
    \/ Unconfirmed(e)
    \/ ~heard /\ shown[e] = Unavailable /\ ~Listens(e, LinkTier)

\* While the last answer of the link tier says that the link is down, nothing
\* of the controller's is on show, in any tier.
OutageHidden ==
  data[Link] = 0 => \A e \in Entity : Own[e] \notin BoardLocal => shown[e] = Unavailable

\* README and DESIGN.md: when register 0 has been read as 0, every entity of
\* the controller is unavailable until it is read as something else.
OutageHolds ==
  linkRead = 0 => \A e \in Entity : Own[e] \notin BoardLocal => shown[e] = Unavailable

\* The registers somebody may set to 0.
Zeroed == {r \in Register : \E c \in Given : c.register = r /\ c.setting.writes = 0}

\* While the board may be warming up, no temperature shows 0 before it has
\* once shown something else, whichever read brings the 0 and however late a
\* re-read finds it in older data; except where its user may write 0.
PlaceholderHidden ==
  warming => \A e \in Entity : shown[e] # Unavailable =>
    \A r \in Reads(e) \cap Temp : shown[e][r] = 0 => r \in settled \cup Zeroed

\* When a command has been carried out and its entity is available, the
\* attribute that was set shows what it was set to.
CommandShows ==
  [][\A c \in Given : CommandOk(c) /\ shown'[c.entity] # Unavailable =>
       IF c.setting.sets = "temperature"
       THEN shown'[c.entity][c.register] = c.setting.to
       ELSE Attributes(c.entity, shown'[c.entity])[c.setting.sets] = c.setting.to]_vars

\* Once outages, failures and changes are over, every entity shows what the
\* controller or the board holds, a temperature of 0 degrees included.
ShowsTheTruth ==
  <>[](\A e \in Entity : shown[e] = [r \in Reads(e) |-> Known(Fetched(truth)[r])])
=============================================================================
