---------------------------- MODULE MCEntityStates ----------------------------
(* Three tiers: register 0 and the exchanger temperature in groups of their *)
(* own, a room, and a heating circuit with its thermostat.                  *)
EXTENDS EntityStates

RegisterDef == {"link", "exchanger", "room", "mode", "comfort"}
TierOfDef == [link |-> 1, exchanger |-> 1, room |-> 2, mode |-> 3, comfort |-> 3]
GroupOfDef == [link |-> "status", exchanger |-> "board", room |-> "rooms",
               mode |-> "circuit", comfort |-> "circuit"]
DomainDef == [link |-> {1}, exchanger |-> {20}, room |-> {0, 21}, mode |-> {2}, comfort |-> {22}]
EntityDef == {"exchanger", "room", "thermostat"}
KindDef == [exchanger |-> "sensor", room |-> "sensor", thermostat |-> "climate"]
OwnDef == [exchanger |-> "exchanger", room |-> "room", thermostat |-> "mode"]
SetpointDef == [e \in EntityDef |-> "comfort"]
\* The two codes that show as "heat", one by each way to set it.
GivenDef ==
  {[entity |-> "thermostat", register |-> "mode", setting |-> Setting("hvac_mode", "heat", 3)],
   [entity |-> "thermostat", register |-> "mode", setting |-> Setting("preset_mode", "reduced", 2)],
   [entity |-> "thermostat", register |-> "comfort", setting |-> Setting("temperature", 23, 23)]}
FollowedDef == [exchanger |-> {}, room |-> {}, thermostat |-> {"comfort", "room"}]
=============================================================================
