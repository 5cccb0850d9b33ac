---------------------------- MODULE ModbusGateway ----------------------------
(***************************************************************************)
(* `ModbusGateway` of hub.py: one TCP connection to one RS-485 gateway and *)
(* every caller of `_execute` on it.  A caller takes the FIFO bus lock,    *)
(* connects when needed, waits out the inter-request delay, sends, waits   *)
(* for the answer, and on a failure drops the connection and sleeps its    *)
(* backoff outside the lock.  `async_set_framing` and `async_close` are    *)
(* further users of the lock.  The pymodbus client, the socket and the     *)
(* board are external and may drop, delay or lose what they are given.     *)
(***************************************************************************)
EXTENDS Naturals, Sequences

CONSTANTS Call,         \* calls of `_execute`
          Writes,       \* the calls that write a register, the others read
          Cancellable,  \* the calls whose task may be cancelled
          Switcher,     \* calls of `async_set_framing`
          Closer,       \* calls of `async_close`
          Framings,     \* FRAMINGS
          WireFraming,  \* the framing the hardware understands
          Retries,      \* `self.retries`
          NoTask, NoFrame

Task == Call \cup Switcher \cup Closer
Frame == Call \X (1..Retries)

ASSUME GatewayAssumption ==
  /\ Writes \subseteq Call /\ Cancellable \subseteq Call
  /\ Call \cap (Switcher \cup Closer) = {} /\ Switcher \cap Closer = {}
  /\ WireFraming \in Framings
  /\ Retries \in Nat \ {0}
  /\ NoTask \notin Task /\ NoFrame \notin Frame

VARIABLES
  pc,       \* where each task is
  attempt,  \* the attempt a call is at
  want,     \* the framing a switcher asked for
  holder,   \* the task inside `async with self._lock`
  queue,    \* the tasks waiting for it, first come first served
  client,   \* `self._client`: absent, present but disconnected, or connected
  framing,  \* `self.framing`
  wire,     \* requests on the present socket the board has not taken yet
  orphans,  \* requests of sockets since closed the board may still take
  answers,  \* answers travelling back on the present socket
  applied,  \* the attempts of a write the board has carried out
  got,      \* the request whose answer a call has accepted
  due,      \* `self._next_request_at` lies ahead
  bus       \* what went over the bus less than the inter-request delay ago

lockVars == <<holder, queue>>
linkVars == <<client, framing, wire, orphans, answers>>
busVars == <<due, bus>>
vars == <<pc, attempt, want, lockVars, linkVars, applied, got, busVars>>

OnBus == {"connecting", "pacing", "waiting"}
Ended == {"ok", "rejected", "failed", "cancelled", "abandoned"}

TypeOK ==
  /\ pc \in [Task -> {"idle", "queued", "backoff", "done"} \cup OnBus \cup Ended]
  /\ attempt \in [Call -> 1..Retries]
  /\ want \in [Switcher -> Framings]
  /\ holder \in Call \cup {NoTask}
  /\ queue \in Seq(Task)
  /\ client \in [state : {"none", "down", "up"}, framing : Framings]
  /\ framing \in Framings
  /\ wire \subseteq Frame /\ orphans \subseteq Frame
  /\ answers \subseteq [frame : Frame, ok : BOOLEAN]
  /\ applied \in [Call -> SUBSET (1..Retries)]
  /\ got \in [Call -> Frame \cup {NoFrame}]
  /\ due \in BOOLEAN
  /\ bus \in {"quiet", "sent", "answered"}

Init ==
  /\ pc = [t \in Task |-> "idle"]
  /\ attempt = [c \in Call |-> 1]
  /\ framing \in Framings
  /\ want = [s \in Switcher |-> framing]
  /\ holder = NoTask /\ queue = <<>>
  /\ client = [state |-> "none", framing |-> framing]
  /\ wire = {} /\ orphans = {} /\ answers = {}
  /\ applied = [c \in Call |-> {}]
  /\ got = [c \in Call |-> NoFrame]
  /\ due = FALSE /\ bus = "quiet"

-----------------------------------------------------------------------------
(* The lock and the connection *)

Mine(c) == <<c, attempt[c]>>

Goto(t, label) == pc' = [pc EXCEPT ![t] = label]

Enqueue(t) == queue' = Append(queue, t)

\* Fault of IsNext: the lock is not looked at.
IsNextUnlocked(t) == queue # <<>> /\ Head(queue) = t

IsNext(t) == holder = NoTask /\ queue # <<>> /\ Head(queue) = t

\* Fault of Disconnect: the socket outlives a failure.
DisconnectKeepsSocket == UNCHANGED <<client, orphans, wire, answers>>

\* `_disconnect`: what is still on the closed socket gets no answer any more.
Disconnect ==
  /\ client' = [client EXCEPT !.state = "none"]
  /\ orphans' = orphans \cup wire
  /\ wire' = {} /\ answers' = {}

\* Fault of FailAttempt: one retry too many.
FailAttemptOnceMore(c) ==
  /\ Disconnect
  /\ Goto(c, IF attempt[c] <= Retries THEN "backoff" ELSE "failed")
  /\ holder' = NoTask
  /\ UNCHANGED <<attempt, want, queue, framing, applied, got, busVars>>

\* The `except` branch of `_execute` and what follows the `async with`.
FailAttempt(c) ==
  /\ Disconnect
  /\ Goto(c, IF attempt[c] < Retries THEN "backoff" ELSE "failed")
  /\ holder' = NoTask
  /\ UNCHANGED <<attempt, want, queue, framing, applied, got, busVars>>

-----------------------------------------------------------------------------
(* A call of _execute.  Where a definition is preceded by a faulty variant of   *)
(* it, the variant shows which property would notice the fault.                *)

Begin(c) ==
  /\ pc[c] = "idle"
  /\ Goto(c, "queued") /\ Enqueue(c)
  /\ UNCHANGED <<attempt, want, holder, linkVars, applied, got, busVars>>

\* The lock is ours; `_ensure_connected` runs up to its first await.  A client
\* object left over by a lost connection is used again.
Acquire(c) ==
  /\ pc[c] = "queued" /\ IsNext(c)
  /\ holder' = c /\ queue' = Tail(queue)
  /\ Goto(c, IF client.state = "up" THEN "pacing" ELSE "connecting")
  /\ client' = IF client.state = "none" THEN [state |-> "down", framing |-> framing]
                                        ELSE client
  /\ UNCHANGED <<attempt, want, framing, wire, orphans, answers, applied, got, busVars>>

Connect(c) ==
  /\ pc[c] = "connecting"
  /\ Goto(c, "pacing")
  /\ client' = [client EXCEPT !.state = "up"]
  /\ UNCHANGED <<attempt, want, lockVars, framing, wire, orphans, answers, applied, got, busVars>>

ConnectFails(c) == pc[c] = "connecting" /\ FailAttempt(c)

\* Fault of Send: `_pace` does not wait.
SendUnpaced(c) ==
  /\ pc[c] = "pacing"
  /\ client.state = "up"
  /\ Goto(c, "waiting")
  /\ wire' = IF client.framing = WireFraming THEN wire \cup {Mine(c)} ELSE wire
  /\ bus' = "sent"
  /\ UNCHANGED <<attempt, want, lockVars, client, framing, orphans, answers, applied, got, due>>

\* `_pace` is over and the frame leaves.  In the wrong framing it is noise to
\* the hardware and nothing ever comes of it.
Send(c) ==
  /\ pc[c] = "pacing" /\ ~due
  /\ client.state = "up"
  /\ Goto(c, "waiting")
  /\ wire' = IF client.framing = WireFraming THEN wire \cup {Mine(c)} ELSE wire
  /\ bus' = "sent"
  /\ UNCHANGED <<attempt, want, lockVars, client, framing, orphans, answers, applied, got, due>>

SendFails(c) ==
  /\ pc[c] = "pacing" /\ ~due
  /\ client.state # "up"
  /\ FailAttempt(c)

\* Fault of Deliver: an exception response counts as an answer.
DeliverUnchecked(c) ==
  /\ pc[c] = "waiting"
  /\ \E a \in answers :
       /\ answers' = answers \ {a}
       /\ got' = [got EXCEPT ![c] = a.frame]
  /\ Goto(c, "ok")
  /\ holder' = NoTask
  /\ due' = TRUE /\ bus' = "answered"
  /\ UNCHANGED <<attempt, want, queue, client, framing, wire, orphans, applied>>

\* The client hands any answer on the socket to the request that is pending.
Deliver(c) ==
  /\ pc[c] = "waiting"
  /\ \E a \in answers :
       /\ answers' = answers \ {a}
       /\ got' = [got EXCEPT ![c] = a.frame]
       /\ Goto(c, IF a.ok THEN "ok" ELSE "rejected")
  /\ holder' = NoTask
  /\ due' = TRUE /\ bus' = "answered"
  /\ UNCHANGED <<attempt, want, queue, client, framing, wire, orphans, applied>>

\* The options keep the timeout (1 s or more) above the delay (1 s or less).
Timeout(c) == pc[c] = "waiting" /\ bus = "quiet" /\ FailAttempt(c)

SocketLost(c) == pc[c] = "waiting" /\ FailAttempt(c)

\* Fault of WakeUp: the attempts are not counted.
WakeUpUncounted(c) ==
  /\ pc[c] = "backoff"
  /\ Goto(c, "queued") /\ Enqueue(c)
  /\ UNCHANGED <<attempt, want, holder, linkVars, applied, got, busVars>>

WakeUp(c) ==
  /\ pc[c] = "backoff"
  /\ attempt' = [attempt EXCEPT ![c] = @ + 1]
  /\ Goto(c, "queued") /\ Enqueue(c)
  /\ UNCHANGED <<want, holder, linkVars, applied, got, busVars>>

\* A cancelled task leaves the lock or its queue and disconnects nothing.
Cancel(c) ==
  /\ c \in Cancellable
  /\ pc[c] \in OnBus \cup {"queued", "backoff"}
  /\ Goto(c, IF pc[c] = "waiting" THEN "abandoned" ELSE "cancelled")
  /\ holder' = IF holder = c THEN NoTask ELSE holder
  /\ IF pc[c] = "queued"
     THEN \E i \in DOMAIN queue :
            /\ queue[i] = c
            /\ queue' = SubSeq(queue, 1, i - 1) \o SubSeq(queue, i + 1, Len(queue))
     ELSE UNCHANGED queue
  /\ UNCHANGED <<attempt, want, linkVars, applied, got, busVars>>

CallStep(c) == \/ Acquire(c) \/ Connect(c) \/ ConnectFails(c) \/ Send(c) \/ SendFails(c)
               \/ Deliver(c) \/ Timeout(c) \/ SocketLost(c) \/ WakeUp(c)

-----------------------------------------------------------------------------
(* async_set_framing and async_close *)

\* The framing in use is compared before the lock is asked for.
SetFraming(s) ==
  /\ pc[s] = "idle"
  /\ \E f \in Framings :
       /\ want' = [want EXCEPT ![s] = f]
       /\ IF f = framing THEN Goto(s, "done") /\ UNCHANGED queue
                         ELSE Goto(s, "queued") /\ Enqueue(s)
  /\ UNCHANGED <<attempt, holder, linkVars, applied, got, busVars>>

\* Fault of SwitchUnderLock: the client keeps its old framing.
SwitchWithoutDisconnect(s) ==
  /\ pc[s] = "queued" /\ IsNext(s)
  /\ Goto(s, "done") /\ queue' = Tail(queue)
  /\ framing' = want[s]
  /\ UNCHANGED <<attempt, want, holder, client, wire, orphans, answers, applied, got, busVars>>

SwitchUnderLock(s) ==
  /\ pc[s] = "queued" /\ IsNext(s)
  /\ Goto(s, "done") /\ queue' = Tail(queue)
  /\ Disconnect
  /\ framing' = want[s]
  /\ UNCHANGED <<attempt, want, holder, applied, got, busVars>>

Close(k) ==
  /\ pc[k] = "idle"
  /\ Goto(k, "queued") /\ Enqueue(k)
  /\ UNCHANGED <<attempt, want, holder, linkVars, applied, got, busVars>>

\* Fault of CloseUnderLock: `async_close` does not take the lock.
CloseWithoutLock(k) ==
  /\ pc[k] = "queued" /\ IsNextUnlocked(k)
  /\ Goto(k, "done") /\ queue' = Tail(queue)
  /\ Disconnect
  /\ UNCHANGED <<attempt, want, holder, framing, applied, got, busVars>>

CloseUnderLock(k) ==
  /\ pc[k] = "queued" /\ IsNext(k)
  /\ Goto(k, "done") /\ queue' = Tail(queue)
  /\ Disconnect
  /\ UNCHANGED <<attempt, want, holder, framing, applied, got, busVars>>

-----------------------------------------------------------------------------
(* External: the hardware, the network, the pymodbus client and the clock *)

\* The board executes or refuses a request; the answer needs a live socket.
BoardTakes(f, ok) ==
  /\ f \in wire \cup orphans
  /\ wire' = wire \ {f} /\ orphans' = orphans \ {f}
  /\ answers' = IF f \in wire THEN answers \cup {[frame |-> f, ok |-> ok]} ELSE answers
  /\ applied' = IF ok /\ f[1] \in Writes THEN [applied EXCEPT ![f[1]] = @ \cup {f[2]}]
                                         ELSE applied
  /\ UNCHANGED <<pc, attempt, want, lockVars, client, framing, got, busVars>>

Lose ==
  /\ \/ /\ \E f \in wire : wire' = wire \ {f}
        /\ UNCHANGED <<orphans, answers>>
     \/ /\ \E f \in orphans : orphans' = orphans \ {f}
        /\ UNCHANGED <<wire, answers>>
     \/ /\ \E a \in answers : answers' = answers \ {a}
        /\ UNCHANGED <<wire, orphans>>
  /\ UNCHANGED <<pc, attempt, want, lockVars, client, framing, applied, got, busVars>>

\* The peer drops the socket between two requests.
PeerCloses ==
  /\ client.state = "up" /\ \A c \in Call : pc[c] # "waiting"
  /\ client' = [client EXCEPT !.state = "down"]
  /\ orphans' = orphans \cup wire
  /\ wire' = {} /\ answers' = {}
  /\ UNCHANGED <<pc, attempt, want, lockVars, framing, applied, got, busVars>>

\* pymodbus reopens a dropped connection by itself.
ClientReconnects ==
  /\ client.state = "down"
  /\ client' = [client EXCEPT !.state = "up"]
  /\ UNCHANGED <<pc, attempt, want, lockVars, framing, wire, orphans, answers,
                 applied, got, busVars>>

DelayElapses ==
  /\ bus # "quiet"
  /\ due' = FALSE /\ bus' = "quiet"
  /\ UNCHANGED <<pc, attempt, want, lockVars, linkVars, applied, got>>

-----------------------------------------------------------------------------

Next ==
  \/ \E c \in Call : Begin(c) \/ CallStep(c) \/ Cancel(c)
  \/ \E s \in Switcher : SetFraming(s) \/ SwitchUnderLock(s)
  \/ \E k \in Closer : Close(k) \/ CloseUnderLock(k)
  \/ \E f \in Frame, ok \in BOOLEAN : BoardTakes(f, ok)
  \/ Lose \/ PeerCloses \/ ClientReconnects \/ DelayElapses

Spec == Init /\ [][Next]_vars

\* Tasks are resumed by the event loop, sleeps and timeouts end.  Nothing is
\* assumed of the board, the network or the caller who might submit or cancel.
Fairness ==
  /\ \A c \in Call : WF_vars(CallStep(c))
  /\ \A s \in Switcher : WF_vars(SwitchUnderLock(s))
  /\ \A k \in Closer : WF_vars(CloseUnderLock(k))
  /\ WF_vars(DelayElapses)

FairSpec == Spec /\ Fairness

-----------------------------------------------------------------------------
(* Properties *)

\* A task is between `_ensure_connected` and the end of the `async with` just
\* when it holds the bus lock; in particular nobody sleeps a backoff with it.
ExclusiveBus == \A c \in Call : pc[c] \in OnBus <=> holder = c

Abandonment == \E c \in Call : pc[c] = "abandoned"

\* A call takes the answer to its own last attempt for its answer, never one
\* of an earlier attempt or of another call that came late.  Dropping the
\* connection after every failure is what makes this so; a request cancelled
\* on the wire drops nothing and is the only exception.
NoStaleAnswer ==
  ~Abandonment => \A c \in Call : got[c] # NoFrame => got[c] = Mine(c)

\* A write reported as done to its caller was carried out by the board.
WriteTruth ==
  ~Abandonment => \A c \in Writes : pc[c] = "ok" => applied[c] # {}

\* A connection is never used with a framing that has since been switched away
\* from: the framer is fixed when the client object is made.
ClientFraming == client.state # "none" => client.framing = framing

\* While a request is on the wire nobody touches its connection: closing and
\* switching the framing wait for their turn.
ClientPinned ==
  [][\A c \in Call : pc[c] = "waiting" /\ pc'[c] = "waiting"
                       => client' = client /\ framing' = framing]_vars

Sends(c) == pc[c] = "pacing" /\ pc'[c] = "waiting"

\* No request leaves within the inter-request delay after an answer, whoever
\* received that answer.  (After a failure the code keeps no such gap.)
GapAfterAnswer == [][\A c \in Call : Sends(c) => bus # "answered"]_vars

\* A call that was submitted ends, whatever the board and the network do.
Termination ==
  /\ \A c \in Call : pc[c] = "queued" ~> pc[c] \in Ended
  /\ \A t \in Switcher \cup Closer : pc[t] = "queued" ~> pc[t] = "done"

Status(c) == CASE pc[c] = "idle" -> "idle"
               [] pc[c] \in Ended -> pc[c]
               [] OTHER -> "pending"

\* The gateway implements the promise of ModbusTransport.
Transport == INSTANCE ModbusTransport WITH status <- [c \in Call |-> Status(c)]

TransportSpec == Transport!Spec
=============================================================================
