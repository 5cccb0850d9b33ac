-------------------------- MODULE CompositeEntities --------------------------
(***************************************************************************)
(* What the two composite entities make of the operating mode register     *)
(* they own (climate.py, water_heater.py): the states they show for a      *)
(* code, and the code that each of their commands writes.                  *)
(***************************************************************************)
EXTENDS Naturals, Functions

\* climate.py: frost protection, automatic, reduced and comfort heating
MODE_PROTECTION == 0
MODE_AUTOMATIC == 1
MODE_REDUCED == 2
MODE_COMFORT == 3

HVAC_TO_MODE ==
  [off |-> MODE_PROTECTION, auto |-> MODE_AUTOMATIC, heat |-> MODE_COMFORT]

PRESET_TO_MODE ==
  [protection |-> MODE_PROTECTION, automatic |-> MODE_AUTOMATIC,
   reduced |-> MODE_REDUCED, comfort |-> MODE_COMFORT]

MODE_TO_PRESET == AntiFunction(PRESET_TO_MODE)

\* Fault of MODE_TO_HVAC: the list in the order of the presets.
ModeToHvacShifted(mode) == <<"off", "heat", "heat", "auto">>[mode + 1]

\* Reduced heating is heating; the preset tells the two apart.
MODE_TO_HVAC(mode) == <<"off", "auto", "heat", "heat">>[mode + 1]

\* water_heater.py
MODE_OFF == 0
MODE_ON == 1
MODE_ECO == 2

OPERATION_TO_MODE == [off |-> MODE_OFF, on |-> MODE_ON, eco |-> MODE_ECO]
MODE_TO_OPERATION == AntiFunction(OPERATION_TO_MODE)

\* The state attributes that derive from the mode.
Climate(mode) ==
  [hvac_mode |-> MODE_TO_HVAC(mode), preset_mode |-> MODE_TO_PRESET[mode]]

WaterHeater(mode) ==
  [operation |-> MODE_TO_OPERATION[mode], away |-> mode = MODE_ECO]

\* A command: the attribute it sets, to what, and the code it writes.
Setting(attribute, value, mode) == [sets |-> attribute, to |-> value, writes |-> mode]

\* `async_turn_on` and `async_turn_off` are the HVAC modes auto and off.
ClimateCommands ==
  {Setting("hvac_mode", h, HVAC_TO_MODE[h]) : h \in DOMAIN HVAC_TO_MODE}
    \cup {Setting("preset_mode", p, PRESET_TO_MODE[p]) : p \in DOMAIN PRESET_TO_MODE}

WaterHeaterCommands ==
  {Setting("operation", o, OPERATION_TO_MODE[o]) : o \in DOMAIN OPERATION_TO_MODE}
    \cup {Setting("away", TRUE, MODE_ECO), Setting("away", FALSE, MODE_ON)}
=============================================================================
