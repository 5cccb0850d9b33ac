--------------------------- MODULE MCBlockDiscovery ---------------------------
(* Two circuits, one of them optional, a hot water block, and the registers    *)
(* around which the write levels differ.                                       *)
EXTENDS BlockDiscovery, TLC

CONSTANTS base, hc1, hc2, dhw,
          link, defrost, counter, t1, m1, c1, s2, t2, m2, c2, sd, td, md, cd

MCBlockOf == (link :> base) @@ (defrost :> base) @@ (counter :> base)
          @@ (t1 :> hc1) @@ (m1 :> hc1) @@ (c1 :> hc1)
          @@ (s2 :> hc2) @@ (t2 :> hc2) @@ (m2 :> hc2) @@ (c2 :> hc2)
          @@ (sd :> dhw) @@ (td :> dhw) @@ (md :> dhw) @@ (cd :> dhw)

MCReg == DOMAIN MCBlockOf

\* The groups cut across the blocks: hc2 is split over two of them.
MCGroupOf == [r \in MCReg |-> CASE r \in {s2, m2, c2} -> 2
                                [] r \in {sd, td, md, cd, t2} -> 3
                                [] OTHER -> 1]

MCRoomOf == (hc1 :> t1) @@ (hc2 :> t2)

MCComposite == {[circuit |-> hc1, mode |-> m1, setpoint |-> c1],
                [circuit |-> hc2, mode |-> m2, setpoint |-> c2],
                [circuit |-> dhw, mode |-> md, setpoint |-> cd]}
=============================================================================
