--------------------------- MODULE ModbusTransport ---------------------------
(***************************************************************************)
(* What `ModbusGateway` (hub.py) promises to one caller: a request that    *)
(* was submitted ends once, a write is carried out by the board at most    *)
(* once per attempt, and a write reported as done was carried out.  How    *)
(* the bus lock, the socket, the pacing and the backoff achieve this is    *)
(* the business of the module ModbusGateway, which implements this one.    *)
(***************************************************************************)
EXTENDS Naturals

CONSTANTS Call,     \* one element per call of `_execute`
          Writes,   \* the calls that write a register
          Retries   \* `self.retries`

VARIABLES status,   \* what the caller knows of its request
          applied   \* the attempts of a write the board has carried out

tvars == <<status, applied>>

Init == /\ status = [c \in Call |-> "idle"]
        /\ applied = [c \in Call |-> {}]

Submit(c) == /\ status[c] = "idle"
             /\ status' = [status EXCEPT ![c] = "pending"]
             /\ UNCHANGED applied

\* The board carries out one more attempt, possibly after its caller gave up.
Apply(c) == /\ status[c] # "idle" /\ c \in Writes
            /\ \E n \in 1..Retries \ applied[c] :
                 applied' = [applied EXCEPT ![c] = @ \cup {n}]
            /\ UNCHANGED status

Finish(c, s) == /\ status[c] = "pending"
                /\ status' = [status EXCEPT ![c] = s]
                /\ UNCHANGED applied

\* A caller that walks away from a request on the wire voids the promise for
\* the others: its answer may be taken for theirs.
Voided == \E d \in Call : status[d] = "abandoned"

Succeed(c) == /\ c \in Writes => applied[c] # {} \/ Voided
              /\ Finish(c, "ok")

Fail(c) == \E s \in {"rejected", "failed", "cancelled", "abandoned"} : Finish(c, s)

Next == \E c \in Call : Submit(c) \/ Apply(c) \/ Succeed(c) \/ Fail(c)

Spec == Init /\ [][Next]_tvars
=============================================================================
