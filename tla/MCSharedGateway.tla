--------------------------- MODULE MCSharedGateway ---------------------------
(* FRAMINGS of hub.py, in the order they are tried. *)
EXTENDS SharedGateway

MCFramings == <<"tcp", "rtu">>
=============================================================================
