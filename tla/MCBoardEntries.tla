---------------------------- MODULE MCBoardEntries ----------------------------
(* Two gateways, of which one converts protocols and one does not. *)
EXTENDS BoardEntries

WordingDef == [gateway1 |-> "socket", gateway2 |-> "rtu"]
=============================================================================
