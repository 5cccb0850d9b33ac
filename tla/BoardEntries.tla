----------------------------- MODULE BoardEntries -----------------------------
(***************************************************************************)
(* Which board an entry talks to: the last steps of the config flow        *)
(* (config_flow.py, async_step_user) after async_identify has an answer,   *)
(* while boards are moved to other gateways and given other slave ids.     *)
(* How identifying and discovering share the gateway with running entries  *)
(* is the subject of SharedGateway.                                        *)
(***************************************************************************)
EXTENDS Naturals

CONSTANTS
  Board,      \* MBIO boards
  NoSerial,   \* those that report no serial number
  Foreign,    \* other devices on the same buses
  Host,       \* addresses of RS-485 gateways, host and port
  Slave,
  Wording,    \* the framing and function code each gateway takes
  Flow,       \* config flows
  Nowhere, None,
  MaxMoves    \* bound: devices moved

Device == Board \cup Foreign
Place == Host \X Slave
Id == (Board \ NoSerial) \cup Place
Target == [host : Host, slave : Slave, wording : {Wording[h] : h \in Host}]

VARIABLES
  place,     \* where each device answers
  flow,      \* what a flow in the middle of discovery has found
  entry,     \* the data of the entry with each unique id
  moves,
  verified   \* history: the places where a board has proved what it is

vars == <<place, flow, entry, moves, verified>>

TypeOK ==
  /\ place \in [Device -> Place \cup {Nowhere}]
  /\ flow \in [Flow -> [id : Id, target : Target] \cup {None}]
  /\ entry \in [Id -> Target \cup {None}]
  /\ moves \in 0..MaxMoves
  /\ verified \subseteq Place

Init ==
  /\ place \in [Device -> Place \cup {Nowhere}]
  /\ \A d, e \in Device : place[d] = place[e] => d = e \/ place[d] = Nowhere
  /\ flow = [f \in Flow |-> None]
  /\ entry = [i \in Id |-> None]
  /\ moves = 0 /\ verified = {}

\* The serial number, or the address if there is none.
UniqueId(b) == IF b \in NoSerial THEN place[b] ELSE b

\* What the entry of board b would be made of.
Found(b) == [host |-> place[b][1], slave |-> place[b][2], wording |-> Wording[place[b][1]]]

InProgress(i) == \E f \in Flow : flow[f] # None /\ flow[f].id = i

\* A board answers with the product code; anything else ends the flow's step
\* with an error and changes nothing.
Proves(f, b) ==
  /\ flow[f] = None /\ place[b] # Nowhere
  /\ verified' = verified \cup {place[b]}
  /\ ~InProgress(UniqueId(b))
  /\ UNCHANGED <<place, moves>>

\* No entry has the id: on to discovery.
Proceed(f, b) ==
  /\ Proves(f, b)
  /\ entry[UniqueId(b)] = None
  /\ flow' = [flow EXCEPT ![f] = [id |-> UniqueId(b), target |-> Found(b)]]
  /\ UNCHANGED entry

\* `_abort_if_unique_id_configured(updates={host, port})`
AlreadyConfigured(f, b) ==
  /\ Proves(f, b)
  /\ entry[UniqueId(b)] # None
  /\ entry' = [entry EXCEPT ![UniqueId(b)].host = place[b][1]]
  /\ UNCHANGED flow

\* Discovery is over, with or without a result: `async_create_entry`.
CreateEntry(f) ==
  /\ flow[f] # None
  /\ entry' = [entry EXCEPT ![flow[f].id] = flow[f].target]
  /\ flow' = [flow EXCEPT ![f] = None]
  /\ UNCHANGED <<place, moves, verified>>

\* External: somebody rewires a device or sets another slave id.
Move(d) ==
  /\ moves < MaxMoves /\ moves' = moves + 1
  /\ \E p \in (Place \cup {Nowhere}) \ {place[e] : e \in Device \ {d}} :
       place' = [place EXCEPT ![d] = p]
  /\ UNCHANGED <<flow, entry, verified>>

Next ==
  \/ \E f \in Flow : \/ CreateEntry(f)
                     \/ \E b \in Board : Proceed(f, b) \/ AlreadyConfigured(f, b)
  \/ \E d \in Device : Move(d)

Spec == Init /\ [][Next]_vars

-----------------------------------------------------------------------------
(* Properties *)

\* The head of config_flow.py: an entry reads and writes only where a board
\* has proved that it is one, so that a wrong slave id cannot make it write to
\* another device on the bus.
OnlyWhereProved ==
  \A i \in Id : entry[i] # None => <<entry[i].host, entry[i].slave>> \in verified
=============================================================================
