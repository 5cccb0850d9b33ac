---------------------------- MODULE GatewayRegistry ----------------------------
(***************************************************************************)
(* What `async_get_gateway` and `async_release_gateway` (hub.py) promise   *)
(* to those who share the gateway of one address: whoever comes gets the   *)
(* object that is in use, or a new one, and the connection is closed in    *)
(* the same stroke in which the last user leaves.  The reference count,    *)
(* the registry and its lock, which achieve this in several steps, are     *)
(* the business of the module SharedGateway, which implements this one.    *)
(***************************************************************************)
CONSTANTS Actor,    \* those who use the gateway
          Gateway,  \* identities of `ModbusGateway` objects
          None

VARIABLES
  uses,  \* the object each actor works with
  late,  \* the object on which a service call of the actor will try again
  kept,  \* the object somebody went away with, without giving it back
  open   \* the objects with an open connection

rvars == <<uses, late, kept, open>>

Init ==
  /\ uses = [a \in Actor |-> None] /\ late = [a \in Actor |-> None]
  /\ kept = None /\ open = {}

InUse == ({uses[a] : a \in Actor} \cup {kept}) \ {None}

Untouched(g) == g \notin open /\ \A a \in Actor : late[a] # g

Take(a) ==
  /\ uses[a] = None
  /\ \E g \in Gateway :
       /\ IF InUse = {} THEN Untouched(g) ELSE g \in InUse
       /\ uses' = [uses EXCEPT ![a] = g]
  /\ UNCHANGED <<late, kept, open>>

\* A request, or a new framing: the connection is up afterwards, or it is not.
Reaches(g) == open' = open \cup {g} \/ open' = open \ {g}

Work(a) ==
  /\ uses[a] # None /\ Reaches(uses[a])
  /\ UNCHANGED <<uses, late, kept>>

\* A request without an answer that will be repeated, whatever its actor does
\* meanwhile.
WillRepeat(a) ==
  /\ uses[a] # None /\ late[a] = None
  /\ late' = [late EXCEPT ![a] = uses[a]]
  /\ open' = open \ {uses[a]}
  /\ UNCHANGED <<uses, kept>>

Repeat(a) ==
  /\ late[a] # None /\ Reaches(late[a])
  /\ late' = [late EXCEPT ![a] = None]
  /\ UNCHANGED <<uses, kept>>

GiveBack(a) ==
  /\ uses[a] # None
  /\ uses' = [uses EXCEPT ![a] = None]
  /\ open' = IF InUse' = {} THEN open \ {uses[a]} ELSE open
  /\ UNCHANGED <<late, kept>>

\* After this nobody closes the connection any more.
GoAway(a) ==
  /\ uses[a] # None
  /\ uses' = [uses EXCEPT ![a] = None] /\ kept' = uses[a]
  /\ UNCHANGED <<late, open>>

Next == \E a \in Actor : \/ Take(a) \/ Work(a) \/ WillRepeat(a) \/ Repeat(a)
                         \/ GiveBack(a) \/ GoAway(a)

Spec == Init /\ [][Next]_rvars
=============================================================================
