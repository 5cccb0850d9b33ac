------------------------ MODULE ModbusGatewayProofs -------------------------
(***************************************************************************)
(* Proofs about ModbusGateway, for every number of calls and attempts.     *)
(***************************************************************************)
EXTENDS ModbusGateway, SequenceTheorems, TLAPS

USE GatewayAssumption DEF Task, Frame, OnBus, Ended

-----------------------------------------------------------------------------
(* The inductive invariant *)

\* Without an abandoned request, what is on the present socket belongs to the
\* pending attempt of a call that is waiting, so that the holder of the lock
\* can only be handed its own answer; and a request is there once, as itself
\* or as its answer, so that nothing stays behind when the answer is taken.
SocketIsMine ==
  ~Abandonment =>
    /\ \A f \in wire : pc[f[1]] = "waiting" /\ f = Mine(f[1])
    /\ \A a \in answers : pc[a.frame[1]] = "waiting" /\ a.frame = Mine(a.frame[1])
    /\ \A a \in answers : a.frame \notin wire
    /\ \A a, b \in answers : a.frame = b.frame => a = b

\* A positive answer to a write travels only when the board has obeyed.
AnswersTrue ==
  \A a \in answers : a.ok /\ a.frame[1] \in Writes => applied[a.frame[1]] # {}

\* Only a call that was answered has accepted an answer.
GotWhenAnswered == \A c \in Call : got[c] # NoFrame => pc[c] \in {"ok", "rejected"}

\* The holder of the lock has a client object, which nobody takes away, and a
\* connected one while its request is on the wire.
ClientHeld == /\ holder # NoTask => client.state # "none"
              /\ \A c \in Call : pc[c] = "waiting" => client.state = "up"

IInv == /\ ExclusiveBus /\ SocketIsMine /\ AnswersTrue /\ GotWhenAnswered
        /\ NoStaleAnswer /\ WriteTruth /\ ClientHeld /\ ClientFraming

-----------------------------------------------------------------------------
(* Type correctness *)

\* A call sleeps a backoff only when an attempt is left.
BackoffLeft == \A c \in Call : pc[c] = "backoff" => attempt[c] < Retries

TInv == TypeOK /\ BackoffLeft

\* The initial states are well typed.
LEMMA InitType == Init => TInv
<1> SUFFICES ASSUME Init PROVE TInv
  OBVIOUS
<1>1. pc \in [Task -> {"idle"}] /\ queue \in Seq(Task)
  BY DEF Init
<1>2. TypeOK
  BY <1>1, 1 \in 1..Retries DEF Init, TypeOK
<1> QED BY <1>2 DEF Init, TInv, BackoffLeft

\* A failed attempt keeps the types, and a backoff is slept only before another.
LEMMA FailAttemptType ==
  ASSUME TInv, NEW c \in Call, FailAttempt(c)
  PROVE  TInv'
  BY DEF TInv, BackoffLeft, TypeOK, FailAttempt, Disconnect, Goto, busVars

\* A step of a call keeps the types and leaves no attempt to sleep for in vain.
LEMMA CallType ==
  ASSUME TInv, NEW c \in Call, Begin(c) \/ CallStep(c) \/ Cancel(c)
  PROVE  TInv'
<1> USE DEF TInv, BackoffLeft, TypeOK, Goto, linkVars, lockVars, busVars
<1>1. CASE Begin(c)
  BY <1>1 DEF Begin, Enqueue
<1>2. CASE Acquire(c)
  BY <1>2 DEF Acquire, IsNext
<1>3. CASE Connect(c)
  BY <1>3 DEF Connect
<1>4. CASE ConnectFails(c) \/ SendFails(c) \/ Timeout(c) \/ SocketLost(c)
  BY <1>4, FailAttemptType DEF ConnectFails, SendFails, Timeout, SocketLost
<1>5. CASE Send(c)
  BY <1>5 DEF Send, Mine
<1>6. CASE Deliver(c)
  BY <1>6 DEF Deliver
<1>7. CASE WakeUp(c)
  BY <1>7 DEF WakeUp, Enqueue
<1>8. CASE Cancel(c)
  <2>1. queue' \in Seq(Task)
    <3>1. CASE pc[c] = "queued"
      <4>1. PICK i \in DOMAIN queue :
              queue' = SubSeq(queue, 1, i - 1) \o SubSeq(queue, i + 1, Len(queue))
        BY <1>8, <3>1 DEF Cancel
      <4>2. i \in 1..Len(queue) /\ Len(queue) \in Nat
        OBVIOUS
      <4>3. SubSeq(queue, 1, i - 1) \in Seq(Task)
        BY <4>2, SubSeqProperties
      <4>4. SubSeq(queue, i + 1, Len(queue)) \in Seq(Task)
        BY <4>2, SubSeqProperties
      <4> QED BY <4>1, <4>3, <4>4
    <3>2. CASE pc[c] # "queued"
      BY <1>8, <3>2 DEF Cancel
    <3> QED BY <3>1, <3>2
  <2>2. /\ pc' \in [Task -> {"idle", "queued", "backoff", "done"} \cup OnBus \cup Ended]
        /\ BackoffLeft' /\ holder' \in Call \cup {NoTask}
        /\ UNCHANGED <<attempt, want, linkVars, applied, got, busVars>>
    BY <1>8 DEF Cancel
  <2> QED BY <2>1, <2>2
<1> QED BY <1>1, <1>2, <1>3, <1>4, <1>5, <1>6, <1>7, <1>8 DEF CallStep

\* Every step keeps the types.
LEMMA NextType == TInv /\ [Next]_vars => TInv'
<1> SUFFICES ASSUME TInv, [Next]_vars PROVE TInv'
  OBVIOUS
<1> USE DEF TInv, BackoffLeft, TypeOK, Goto, linkVars, lockVars, busVars
<1>1. ASSUME NEW s \in Switcher, SetFraming(s) \/ SwitchUnderLock(s) PROVE TInv'
  <2>0. s \in Task /\ s \notin Call
    OBVIOUS
  <2>1. CASE SetFraming(s)
    <3>1. PICK f \in Framings :
            /\ want' = [want EXCEPT ![s] = f]
            /\ IF f = framing THEN Goto(s, "done") /\ UNCHANGED queue
                              ELSE Goto(s, "queued") /\ Enqueue(s)
      BY <2>1 DEF SetFraming
    <3>2. queue' = queue \/ queue' = Append(queue, s)
      BY <3>1 DEF Enqueue
    <3>3. queue' \in Seq(Task)
      <4>1. queue \in Seq(Task) /\ Append(queue, s) \in Seq(Task)
        BY <2>0
      <4> QED BY <3>2, <4>1
    <3>4. pc' = [pc EXCEPT ![s] = "done"] \/ pc' = [pc EXCEPT ![s] = "queued"]
      BY <3>1
    <3> QED BY <2>0, <2>1, <3>1, <3>3, <3>4 DEF SetFraming
  <2>2. CASE SwitchUnderLock(s)
    <3>1. queue' \in Seq(Task)
      BY <2>2 DEF SwitchUnderLock, IsNext
    <3> QED BY <2>0, <2>2, <3>1 DEF SwitchUnderLock, Disconnect
  <2> QED BY <1>1, <2>1, <2>2
<1>2. ASSUME NEW k \in Closer, Close(k) \/ CloseUnderLock(k) PROVE TInv'
  <2>0. k \in Task /\ k \notin Call
    OBVIOUS
  <2>1. queue' \in Seq(Task)
    <3>1. CASE Close(k)
      BY <2>0, <3>1 DEF Close, Enqueue
    <3>2. CASE CloseUnderLock(k)
      BY <3>2 DEF CloseUnderLock, IsNext
    <3> QED BY <1>2, <3>1, <3>2
  <2> QED BY <1>2, <2>0, <2>1 DEF Close, CloseUnderLock, Disconnect
<1>3. ASSUME NEW f \in Frame, NEW ok \in BOOLEAN, BoardTakes(f, ok) PROVE TInv'
  <2>1. f[1] \in Call /\ f[2] \in 1..Retries
    OBVIOUS
  <2>2. applied' \in [Call -> SUBSET (1..Retries)]
    BY <1>3, <2>1 DEF BoardTakes
  <2>3. answers' \subseteq [frame : Frame, ok : BOOLEAN]
    BY <1>3 DEF BoardTakes
  <2> QED BY <1>3, <2>2, <2>3 DEF BoardTakes
<1>4. CASE Lose
  BY <1>4 DEF Lose
<1>5. CASE PeerCloses \/ ClientReconnects
  BY <1>5 DEF PeerCloses, ClientReconnects
<1>6. CASE DelayElapses
  BY <1>6 DEF DelayElapses
<1>7. CASE UNCHANGED vars
  BY <1>7 DEF vars
<1> HIDE DEF TInv, BackoffLeft, TypeOK, Goto, linkVars, lockVars, busVars
<1> QED BY <1>1, <1>2, <1>3, <1>4, <1>5, <1>6, <1>7, CallType DEF Next

\* Every variable keeps its type.
THEOREM TypeCorrect == Spec => []TypeOK
<1>1. TInv => TypeOK
  BY DEF TInv
<1> QED BY <1>1, InitType, NextType, PTL DEF Spec

-----------------------------------------------------------------------------
(* The invariant is inductive *)

\* Nothing is on the socket and nobody holds the lock to begin with.
LEMMA InitIInv == Init => IInv
  BY DEF Init, IInv, ExclusiveBus, SocketIsMine, AnswersTrue, GotWhenAnswered,
         NoStaleAnswer, WriteTruth, ClientHeld, ClientFraming

\* An abandoned call stays one: no action moves it.
LEMMA AbandonmentStays ==
  ASSUME TInv, NEW t \in Task, NEW l, pc[t] # "abandoned", Goto(t, l)
  PROVE  ~Abandonment' => ~Abandonment
  BY DEF TInv, TypeOK, Goto, Abandonment

\* A failed attempt leaves nothing on the socket.
LEMMA FailAttemptIInv ==
  ASSUME TInv, IInv, NEW c \in Call, pc[c] \in OnBus, FailAttempt(c)
  PROVE  IInv'
<1> USE DEF TInv, TypeOK, Goto
<1>1. pc' = [pc EXCEPT ![c] = "backoff"] \/ pc' = [pc EXCEPT ![c] = "failed"]
  BY DEF FailAttempt
<1>2. holder = c /\ holder' = NoTask
  BY DEF FailAttempt, IInv, ExclusiveBus
<1>3. ExclusiveBus'
  BY <1>1, <1>2 DEF IInv, ExclusiveBus
<1>4. SocketIsMine' /\ AnswersTrue' /\ ClientHeld' /\ ClientFraming'
  BY <1>2, <1>3 DEF FailAttempt, Disconnect, ExclusiveBus, SocketIsMine, AnswersTrue,
                    ClientHeld, ClientFraming
<1>5. ~Abandonment' => ~Abandonment
  BY <1>1, AbandonmentStays
<1>6. GotWhenAnswered' /\ NoStaleAnswer' /\ WriteTruth'
  BY <1>1, <1>5 DEF FailAttempt, IInv, GotWhenAnswered, NoStaleAnswer, WriteTruth, Mine
<1> QED BY <1>3, <1>4, <1>6 DEF IInv

\* The answer taken is the one to the holder's own attempt.
LEMMA DeliverIInv ==
  ASSUME TInv, IInv, NEW c \in Call, Deliver(c)
  PROVE  IInv'
<1> USE DEF TInv, TypeOK, Goto
<1>1. PICK a \in answers :
        /\ answers' = answers \ {a}
        /\ got' = [got EXCEPT ![c] = a.frame]
        /\ Goto(c, IF a.ok THEN "ok" ELSE "rejected")
  BY DEF Deliver
<1>2. pc[c] = "waiting" /\ holder = c
  BY DEF Deliver, IInv, ExclusiveBus
<1>3. pc' = [pc EXCEPT ![c] = IF a.ok THEN "ok" ELSE "rejected"]
  BY <1>1
<1>4. ExclusiveBus'
  BY <1>2, <1>3 DEF Deliver, IInv, ExclusiveBus
<1>5. ~Abandonment' => ~Abandonment
  BY <1>2, <1>3, AbandonmentStays
<1>6. ~Abandonment => a.frame = Mine(c)
  <2>1. ~Abandonment => pc[a.frame[1]] = "waiting" /\ a.frame = Mine(a.frame[1])
    BY DEF IInv, SocketIsMine
  <2>2. a.frame[1] \in Call
    OBVIOUS
  <2> QED BY <1>2, <2>1, <2>2 DEF IInv, ExclusiveBus
<1>7. ~Abandonment => wire = {} /\ answers' = {}
  <2> SUFFICES ASSUME ~Abandonment PROVE wire = {} /\ answers' = {}
    OBVIOUS
  <2>1. ASSUME NEW f \in wire PROVE FALSE
    <3>1. f[1] \in Call /\ pc[f[1]] = "waiting" /\ f = Mine(f[1]) /\ a.frame # f
      BY DEF IInv, SocketIsMine
    <3>2. f[1] = c
      BY <1>2, <3>1 DEF IInv, ExclusiveBus
    <3> QED BY <1>6, <3>1, <3>2
  <2>2. ASSUME NEW b \in answers PROVE b = a
    <3>1. b.frame[1] \in Call
      OBVIOUS
    <3>2. /\ pc[b.frame[1]] = "waiting" /\ b.frame = Mine(b.frame[1])
          /\ a.frame = b.frame => a = b
      BY DEF IInv, SocketIsMine
    <3>3. b.frame[1] = c
      BY <1>2, <3>1, <3>2 DEF IInv, ExclusiveBus
    <3> QED BY <1>6, <3>2, <3>3
  <2> QED BY <1>1, <2>1, <2>2
<1>8. SocketIsMine' /\ AnswersTrue' /\ ClientHeld' /\ ClientFraming'
  BY <1>1, <1>5, <1>7
     DEF Deliver, IInv, SocketIsMine, AnswersTrue, ClientHeld, ClientFraming
<1>9. GotWhenAnswered' /\ NoStaleAnswer'
  BY <1>1, <1>3, <1>5, <1>6 DEF Deliver, IInv, GotWhenAnswered, NoStaleAnswer, Mine
<1>10. WriteTruth'
  <2>1. ~Abandonment /\ a.ok /\ c \in Writes => applied[c] # {}
    <3>1. a.ok /\ a.frame[1] \in Writes => applied[a.frame[1]] # {}
      BY DEF IInv, AnswersTrue
    <3> QED BY <1>6, <3>1 DEF Mine
  <2>2. pc'[c] = "ok" => a.ok
    BY <1>2, <1>3
  <2> QED BY <1>3, <1>5, <2>1, <2>2 DEF Deliver, IInv, WriteTruth
<1> QED BY <1>4, <1>8, <1>9, <1>10 DEF IInv

\* A step of a call keeps the invariant.
LEMMA CallIInv ==
  ASSUME TInv, IInv, NEW c \in Call, Begin(c) \/ CallStep(c) \/ Cancel(c)
  PROVE  IInv'
<1> USE DEF TInv, TypeOK, Goto, linkVars, lockVars, busVars
<1>1. CASE Begin(c) \/ WakeUp(c)
  <2>1. pc' = [pc EXCEPT ![c] = "queued"] /\ pc[c] \in {"idle", "backoff"}
    BY <1>1 DEF Begin, WakeUp
  <2>2. ~Abandonment' => ~Abandonment
    BY <2>1, AbandonmentStays
  <2>3. \A d \in Call \ {c} : attempt'[d] = attempt[d]
    BY <1>1 DEF Begin, WakeUp
  <2>4. ExclusiveBus' /\ AnswersTrue' /\ ClientHeld' /\ ClientFraming'
    BY <1>1, <2>1
       DEF Begin, WakeUp, IInv, ExclusiveBus, AnswersTrue, ClientHeld, ClientFraming
  <2>5. SocketIsMine'
    BY <1>1, <2>1, <2>2, <2>3 DEF Begin, WakeUp, IInv, SocketIsMine, Mine
  <2>6. GotWhenAnswered' /\ NoStaleAnswer' /\ WriteTruth'
    BY <1>1, <2>1, <2>2, <2>3
       DEF Begin, WakeUp, IInv, GotWhenAnswered, NoStaleAnswer, WriteTruth, Mine
  <2> QED BY <2>4, <2>5, <2>6 DEF IInv
<1>2. CASE Acquire(c) \/ Connect(c)
  <2>1. /\ pc' = [pc EXCEPT ![c] = "pacing"] \/ pc' = [pc EXCEPT ![c] = "connecting"]
        /\ pc[c] \in {"queued", "connecting"}
    BY <1>2 DEF Acquire, Connect
  <2>2. ~Abandonment' => ~Abandonment
    BY <2>1, AbandonmentStays
  <2>3. ExclusiveBus'
    BY <1>2, <2>1 DEF Acquire, Connect, IsNext, IInv, ExclusiveBus
  <2>4. SocketIsMine' /\ AnswersTrue'
    <3>1. UNCHANGED <<attempt, wire, answers, applied>>
      BY <1>2 DEF Acquire, Connect
    <3> QED BY <2>1, <2>2, <3>1 DEF IInv, SocketIsMine, AnswersTrue, Mine
  <2>6. ClientHeld' /\ ClientFraming'
    <3>1. CASE Acquire(c)
      BY <3>1 DEF Acquire, IInv, ClientHeld, ClientFraming
    <3>2. CASE Connect(c)
      BY <3>2 DEF Connect, IInv, ExclusiveBus, ClientHeld, ClientFraming
    <3> QED BY <1>2, <3>1, <3>2
  <2>5. GotWhenAnswered' /\ NoStaleAnswer' /\ WriteTruth'
    BY <1>2, <2>1, <2>2
       DEF Acquire, Connect, IInv, GotWhenAnswered, NoStaleAnswer, WriteTruth, Mine
  <2> QED BY <2>3, <2>4, <2>5, <2>6 DEF IInv
<1>3. CASE ConnectFails(c) \/ SendFails(c) \/ Timeout(c) \/ SocketLost(c)
  BY <1>3, FailAttemptIInv DEF ConnectFails, SendFails, Timeout, SocketLost
<1>4. CASE Send(c)
  <2>1. /\ pc' = [pc EXCEPT ![c] = "waiting"] /\ pc[c] = "pacing"
        /\ wire' = wire \/ wire' = wire \cup {Mine(c)}
        /\ Mine(c) \in Frame /\ Mine(c)[1] = c
    BY <1>4 DEF Send, Mine
  <2>2. ~Abandonment' => ~Abandonment
    BY <2>1, AbandonmentStays
  <2>3. ExclusiveBus' /\ AnswersTrue' /\ ClientHeld' /\ ClientFraming'
    BY <1>4, <2>1 DEF Send, IInv, ExclusiveBus, AnswersTrue, ClientHeld, ClientFraming
  <2>4. ~Abandonment => Mine(c) \notin wire /\ \A a \in answers : a.frame # Mine(c)
    BY <2>1 DEF IInv, SocketIsMine
  <2>5. SocketIsMine'
    BY <1>4, <2>1, <2>2, <2>4 DEF Send, IInv, SocketIsMine, Mine
  <2>6. GotWhenAnswered' /\ NoStaleAnswer' /\ WriteTruth'
    BY <1>4, <2>1, <2>2
       DEF Send, IInv, GotWhenAnswered, NoStaleAnswer, WriteTruth, Mine
  <2> QED BY <2>3, <2>5, <2>6 DEF IInv
<1>5. CASE Deliver(c)
  BY <1>5, DeliverIInv
<1>6. CASE Cancel(c)
  <2>1. /\ pc' = [pc EXCEPT ![c] = "abandoned"] \/ pc' = [pc EXCEPT ![c] = "cancelled"]
        /\ pc[c] = "waiting" => pc'[c] = "abandoned"
        /\ pc[c] \in OnBus \cup {"queued", "backoff"}
    BY <1>6 DEF Cancel
  <2>2. ~Abandonment' => ~Abandonment /\ pc[c] # "waiting"
    BY <2>1, AbandonmentStays DEF Abandonment
  <2>3. ExclusiveBus' /\ AnswersTrue' /\ ClientHeld' /\ ClientFraming'
    BY <1>6, <2>1 DEF Cancel, IInv, ExclusiveBus, AnswersTrue, ClientHeld, ClientFraming
  <2>4. SocketIsMine'
    BY <1>6, <2>1, <2>2 DEF Cancel, IInv, SocketIsMine, Mine
  <2>5. GotWhenAnswered' /\ NoStaleAnswer' /\ WriteTruth'
    BY <1>6, <2>1, <2>2
       DEF Cancel, IInv, GotWhenAnswered, NoStaleAnswer, WriteTruth, Mine
  <2> QED BY <2>3, <2>4, <2>5 DEF IInv
<1> HIDE DEF TInv, TypeOK, Goto, linkVars, lockVars, busVars
<1> QED BY <1>1, <1>2, <1>3, <1>4, <1>5, <1>6 DEF CallStep

\* Switching the framing and closing keep the invariant.
LEMMA ControlIInv ==
  ASSUME TInv, IInv,
         \/ \E s \in Switcher : SetFraming(s) \/ SwitchUnderLock(s)
         \/ \E k \in Closer : Close(k) \/ CloseUnderLock(k)
  PROVE  IInv'
<1> USE DEF TInv, TypeOK, Goto, linkVars, lockVars, busVars
<1>1. /\ \A c \in Call : pc'[c] = pc[c]
      /\ UNCHANGED <<attempt, holder, applied, got>>
  BY DEF SetFraming, SwitchUnderLock, Close, CloseUnderLock
<1>2. Abandonment' <=> Abandonment
  BY <1>1 DEF Abandonment
<1>3. ExclusiveBus' /\ GotWhenAnswered' /\ NoStaleAnswer' /\ WriteTruth'
  BY <1>1, <1>2 DEF IInv, ExclusiveBus, GotWhenAnswered, NoStaleAnswer, WriteTruth, Mine
<1>4. SocketIsMine' /\ AnswersTrue' /\ ClientHeld' /\ ClientFraming'
  <2>1. CASE Disconnect /\ holder = NoTask
    BY <1>1, <1>3, <2>1 DEF Disconnect, ExclusiveBus, SocketIsMine, AnswersTrue,
                            ClientHeld, ClientFraming
  <2>2. CASE UNCHANGED linkVars
    BY <1>1, <1>2, <2>2
       DEF IInv, SocketIsMine, AnswersTrue, ClientHeld, ClientFraming, Mine
  <2> QED BY <2>1, <2>2 DEF SetFraming, SwitchUnderLock, Close, CloseUnderLock, IsNext
<1> QED BY <1>3, <1>4 DEF IInv

\* The board's steps keep the invariant.
LEMMA BoardIInv ==
  ASSUME TInv, IInv, NEW f \in Frame, NEW ok \in BOOLEAN, BoardTakes(f, ok)
  PROVE  IInv'
<1> USE DEF TInv, TypeOK, linkVars, lockVars, busVars
<1>1. UNCHANGED <<pc, attempt, holder, client, framing, got>>
  BY DEF BoardTakes
<1>2. \A c \in Call : applied[c] # {} => applied'[c] # {}
  BY DEF BoardTakes
<1>3. ok /\ f[1] \in Writes => applied'[f[1]] # {}
  BY DEF BoardTakes
<1>4. /\ ExclusiveBus' /\ GotWhenAnswered' /\ NoStaleAnswer' /\ WriteTruth'
      /\ ClientHeld' /\ ClientFraming'
  BY <1>1, <1>2 DEF IInv, ExclusiveBus, GotWhenAnswered, NoStaleAnswer, WriteTruth,
                    ClientHeld, ClientFraming, Mine, Abandonment
<1>5. AnswersTrue'
  <2>1. \A a \in answers' : a \in answers \/ a = [frame |-> f, ok |-> ok]
    BY DEF BoardTakes
  <2>2. \A a \in answers : a.frame[1] \in Call
    OBVIOUS
  <2>3. SUFFICES ASSUME NEW a \in answers', a.ok, a.frame[1] \in Writes
                 PROVE  applied'[a.frame[1]] # {}
    BY DEF AnswersTrue
  <2>4. CASE a \in answers
    BY <1>2, <2>2, <2>3, <2>4 DEF IInv, AnswersTrue
  <2>5. CASE a = [frame |-> f, ok |-> ok]
    BY <1>3, <2>3, <2>5
  <2> QED BY <2>1, <2>4, <2>5
<1>6. SocketIsMine'
  BY <1>1 DEF BoardTakes, IInv, SocketIsMine, Mine, Abandonment
<1> QED BY <1>4, <1>5, <1>6 DEF IInv

\* The network's steps and the clock keep the invariant.
LEMMA NetworkIInv ==
  ASSUME TInv, IInv, Lose \/ PeerCloses \/ ClientReconnects \/ DelayElapses \/ UNCHANGED vars
  PROVE  IInv'
<1> USE DEF lockVars, linkVars, busVars, vars
<1>1. /\ UNCHANGED <<pc, attempt, holder, framing, applied, got>>
      /\ wire' \subseteq wire /\ answers' \subseteq answers
  BY DEF Lose, PeerCloses, ClientReconnects, DelayElapses
<1>2. ExclusiveBus' /\ AnswersTrue' /\ GotWhenAnswered' /\ NoStaleAnswer' /\ WriteTruth'
  BY <1>1 DEF IInv, ExclusiveBus, AnswersTrue, GotWhenAnswered, NoStaleAnswer,
              WriteTruth, Mine, Abandonment
<1>3. SocketIsMine'
  BY <1>1 DEF IInv, SocketIsMine, Mine, Abandonment
<1>4. ClientHeld' /\ ClientFraming'
  BY <1>1 DEF TInv, TypeOK, Lose, PeerCloses, ClientReconnects, DelayElapses, IInv,
              ClientHeld, ClientFraming
<1> QED BY <1>2, <1>3, <1>4 DEF IInv

\* Every step keeps the invariant.
LEMMA NextIInv == TInv /\ IInv /\ [Next]_vars => IInv'
  BY CallIInv, ControlIInv, BoardIInv, NetworkIInv DEF Next

\* The inductive invariant holds throughout: the theorems below are its parts.
THEOREM Invariance == Spec => [](TInv /\ IInv)
  BY InitType, NextType, InitIInv, NextIInv, PTL DEF Spec

\* One task at a time is on the bus, and none sleeps its backoff there.
THEOREM Exclusion == Spec => []ExclusiveBus
  BY Invariance, PTL DEF IInv

\* Answers go to the attempt they belong to unless a request was abandoned.
THEOREM AnswersAreFresh == Spec => []NoStaleAnswer
  BY Invariance, PTL DEF IInv

\* A write is reported as done only when the board has carried it out.
THEOREM WritesAreTrue == Spec => []WriteTruth
  BY Invariance, PTL DEF IInv

\* A connection always speaks the framing the gateway is set to.
THEOREM FramingIsCurrent == Spec => []ClientFraming
  BY Invariance, PTL DEF IInv

-----------------------------------------------------------------------------
(* What follows for single steps *)

\* The connection stays as it is while a request is on the wire.
THEOREM PinnedWhileWaiting == Spec => ClientPinned
<1>1. ASSUME TInv, IInv, [Next]_vars, NEW c \in Call,
             pc[c] = "waiting", pc'[c] = "waiting"
      PROVE  client' = client /\ framing' = framing
  <2> USE <1>1
  <2>1. holder = c /\ client.state = "up" /\ \A d \in Call : pc[d] \in OnBus => d = c
    BY DEF IInv, ExclusiveBus, ClientHeld
  <2>2. \A t \in Task : ~IsNext(t)
    BY <2>1 DEF IsNext
  <2>3. ASSUME NEW d \in Call, CallStep(d) PROVE client' = client /\ framing' = framing
    <3>1. ~FailAttempt(d) \/ d # c
      BY DEF FailAttempt, Goto, TInv, TypeOK
    <3> QED BY <2>1, <2>2, <2>3, <3>1
            DEF CallStep, Acquire, Connect, ConnectFails, Send, SendFails, Deliver,
                Timeout, SocketLost, WakeUp, linkVars
  <2>4. ASSUME NEW d \in Call, Begin(d) \/ Cancel(d)
        PROVE  client' = client /\ framing' = framing
    BY <2>4 DEF Begin, Cancel, linkVars
  <2> QED
    BY <2>1, <2>2, <2>3, <2>4
       DEF Next, SetFraming, SwitchUnderLock, Close, CloseUnderLock, BoardTakes, Lose,
           PeerCloses, ClientReconnects, DelayElapses, linkVars, vars
<1>2. TInv /\ IInv /\ [Next]_vars =>
        [\A c \in Call : pc[c] = "waiting" /\ pc'[c] = "waiting"
                           => client' = client /\ framing' = framing]_vars
  BY <1>1
<1> QED BY <1>2, Invariance, PTL DEF Spec, ClientPinned

\* A delay is still to be waited out while an answer is less than it ago.
DueWhenAnswered == bus = "answered" => due

\* No request leaves within the inter-request delay after an answer.
THEOREM GapIsKept == Spec => GapAfterAnswer
<1>1. Init => DueWhenAnswered
  BY DEF Init, DueWhenAnswered
<1>2. DueWhenAnswered /\ [Next]_vars => DueWhenAnswered'
  <2> SUFFICES ASSUME DueWhenAnswered, [Next]_vars PROVE DueWhenAnswered'
    OBVIOUS
  <2>1. ASSUME UNCHANGED busVars PROVE DueWhenAnswered'
    BY <2>1 DEF DueWhenAnswered, busVars
  <2>2. ASSUME NEW c \in Call, CallStep(c) PROVE DueWhenAnswered'
    BY <2>1, <2>2 DEF CallStep, Acquire, Connect, ConnectFails, Send, SendFails, Deliver,
                      Timeout, SocketLost, WakeUp, FailAttempt, DueWhenAnswered
  <2>3. ASSUME NEW c \in Call, Begin(c) \/ Cancel(c) PROVE DueWhenAnswered'
    BY <2>1, <2>3 DEF Begin, Cancel
  <2> QED BY <2>1, <2>2, <2>3
        DEF Next, SetFraming, SwitchUnderLock, Close, CloseUnderLock, BoardTakes, Lose,
            PeerCloses, ClientReconnects, DelayElapses, DueWhenAnswered, vars
<1>3. ASSUME TInv, DueWhenAnswered, [Next]_vars, NEW c \in Call, Sends(c)
      PROVE  bus # "answered"
  <2> USE <1>3
  <2>1. ASSUME NEW d \in Call, Begin(d) \/ CallStep(d) \/ Cancel(d), d # c
        PROVE  FALSE
    <3>1. pc'[c] = pc[c]
      BY <2>1 DEF Begin, Cancel, CallStep, Acquire, Connect, ConnectFails, Send, SendFails,
                  Deliver, Timeout, SocketLost, WakeUp, FailAttempt, Goto, TInv, TypeOK
    <3> QED BY <3>1 DEF Sends
  <2>2. CASE Begin(c) \/ CallStep(c) \/ Cancel(c)
    <3>1. Send(c)
      BY <2>2 DEF Begin, Cancel, CallStep, Acquire, Connect, ConnectFails, SendFails,
                  Deliver, Timeout, SocketLost, WakeUp, FailAttempt, Goto, TInv, TypeOK, Sends
    <3> QED BY <3>1 DEF Send, DueWhenAnswered
  <2>3. CASE \/ \E s \in Switcher : SetFraming(s) \/ SwitchUnderLock(s)
             \/ \E k \in Closer : Close(k) \/ CloseUnderLock(k)
    BY <2>3 DEF SetFraming, SwitchUnderLock, Close, CloseUnderLock, Goto, TInv, TypeOK, Sends
  <2>4. CASE UNCHANGED pc
    BY <2>4 DEF Sends
  <2> QED BY <2>1, <2>2, <2>3, <2>4
        DEF Next, BoardTakes, Lose, PeerCloses, ClientReconnects, DelayElapses, vars
<1>4. TInv /\ DueWhenAnswered /\ [Next]_vars =>
        [\A c \in Call : Sends(c) => bus # "answered"]_vars
  BY <1>3
<1> QED BY <1>1, <1>2, <1>4, Invariance, PTL DEF Spec, GapAfterAnswer

-----------------------------------------------------------------------------
(* The gateway implements ModbusTransport *)

\* The initial states are those of ModbusTransport.
LEMMA RefineInit == Init => Transport!Init
  BY DEF Init, Transport!Init, Status

\* A call that ends is a Finish of ModbusTransport.
LEMMA RefineFinish ==
  ASSUME TInv, NEW c \in Call, NEW l \in Ended,
         pc[c] \notin Ended \cup {"idle"}, Goto(c, l), UNCHANGED applied
  PROVE  Transport!Finish(c, l)
<1> DEFINE status == [d \in Call |-> Status(d)]
<1>1. status[c] = "pending"
  BY DEF Status
<1>2. \A d \in Call : Status(d)' = IF d = c THEN l ELSE Status(d)
  BY DEF TInv, TypeOK, Goto, Status
<1>3. status' = [status EXCEPT ![c] = l]
  BY <1>2
<1> QED BY <1>1, <1>3 DEF Transport!Finish

\* The abstract state is the same when no call starts, ends or is carried out.
LEMMA RefineStutter ==
  ASSUME TInv, NEW c \in Call, NEW l \in OnBus \cup {"queued", "backoff"},
         pc[c] \notin Ended \cup {"idle"}, Goto(c, l), UNCHANGED applied
  PROVE  UNCHANGED Transport!tvars
<1>1. \A d \in Call : Status(d)' = Status(d)
  BY DEF TInv, TypeOK, Goto, Status
<1> QED BY <1>1 DEF Transport!tvars

\* What may be carried out was submitted before.
FramesBegun == \A f \in wire \cup orphans : pc[f[1]] # "idle"

\* Every step keeps FramesBegun.
LEMMA NextBegun == TInv /\ FramesBegun /\ [Next]_vars => FramesBegun'
<1> SUFFICES ASSUME TInv, FramesBegun, [Next]_vars PROVE FramesBegun'
  OBVIOUS
<1>1. ASSUME NEW t \in Task, pc[t] # "idle" PROVE pc'[t] # "idle"
  BY <1>1 DEF TInv, TypeOK, Next, CallStep, Begin, Acquire, Connect, ConnectFails, Send,
              SendFails, Deliver, Timeout, SocketLost, WakeUp, Cancel, FailAttempt, Goto,
              SetFraming, SwitchUnderLock, Close, CloseUnderLock, BoardTakes, Lose,
              PeerCloses, ClientReconnects, DelayElapses, vars
<1>2. ASSUME NEW f \in wire' \cup orphans', f \notin wire \cup orphans
      PROVE  pc'[f[1]] # "idle"
  <2>1. PICK c \in Call : Send(c)
    BY <1>2 DEF Next, CallStep, Begin, Acquire, Connect, ConnectFails, SendFails, Deliver,
                Timeout, SocketLost, WakeUp, Cancel, FailAttempt, Disconnect,
                SetFraming, SwitchUnderLock, Close, CloseUnderLock, BoardTakes, Lose,
                PeerCloses, ClientReconnects, DelayElapses, linkVars, vars
  <2> QED BY <1>2, <2>1 DEF Send, Mine, Goto, TInv, TypeOK
<1>3. \A f \in wire \cup orphans : f[1] \in Task
  BY DEF TInv, TypeOK
<1> QED BY <1>1, <1>2, <1>3 DEF FramesBegun

\* An accepted answer is a Succeed or a Fail of ModbusTransport.
LEMMA RefineDeliver ==
  ASSUME TInv, IInv, NEW c \in Call, Deliver(c)
  PROVE  Transport!Next
<1>1. PICK a \in answers : Goto(c, IF a.ok THEN "ok" ELSE "rejected")
  BY DEF Deliver
<1>2. pc[c] = "waiting" /\ UNCHANGED applied
  BY DEF Deliver
<1>3. CASE a.ok
  <2>1. Goto(c, "ok")
    BY <1>1, <1>3
  <2>2. Transport!Finish(c, "ok")
    BY <1>2, <2>1, RefineFinish
  <2>3. Transport!Voided <=> Abandonment
    BY DEF Transport!Voided, Abandonment, Status
  <2>4. Abandonment' => Abandonment
    BY <2>1 DEF Goto, Abandonment, TInv, TypeOK
  <2>5. WriteTruth'
    BY DeliverIInv DEF IInv
  <2>6. pc'[c] = "ok"
    BY <2>1 DEF Goto, TInv, TypeOK
  <2>7. c \in Writes => applied[c] # {} \/ Transport!Voided
    BY <1>2, <2>3, <2>4, <2>5, <2>6 DEF WriteTruth
  <2> QED BY <2>2, <2>7 DEF Transport!Succeed, Transport!Next
<1>4. CASE ~a.ok
  <2>1. Goto(c, "rejected")
    BY <1>1, <1>4
  <2> QED BY <1>2, <2>1, RefineFinish DEF Transport!Fail, Transport!Next
<1> QED BY <1>3, <1>4

\* A failed attempt is a stutter, and the last one a Fail.
LEMMA RefineFailAttempt ==
  ASSUME TInv, NEW c \in Call, pc[c] \in OnBus, FailAttempt(c)
  PROVE  [Transport!Next]_(Transport!tvars)
<1>1. UNCHANGED applied
  BY DEF FailAttempt
<1>2. CASE Goto(c, "backoff")
  BY <1>1, <1>2, RefineStutter
<1>3. CASE Goto(c, "failed")
  BY <1>1, <1>3, RefineFinish DEF Transport!Fail, Transport!Next
<1> QED BY <1>2, <1>3 DEF FailAttempt

\* Every step of a call is one of ModbusTransport or a stutter.
LEMMA RefineCall ==
  ASSUME TInv, IInv, NEW c \in Call, Begin(c) \/ CallStep(c) \/ Cancel(c)
  PROVE  [Transport!Next]_(Transport!tvars)
<1>1. CASE Begin(c)
  <2>1. Goto(c, "queued") /\ pc[c] = "idle" /\ UNCHANGED applied
    BY <1>1 DEF Begin
  <2>2. \A d \in Call : Status(d)' = IF d = c THEN "pending" ELSE Status(d)
    BY <2>1 DEF TInv, TypeOK, Goto, Status
  <2>3. Transport!Submit(c)
    BY <2>1, <2>2 DEF Transport!Submit, Status
  <2> QED BY <2>3 DEF Transport!Next
<1>2. CASE Acquire(c) \/ Connect(c) \/ Send(c) \/ WakeUp(c)
  <2>1. /\ Goto(c, "pacing") \/ Goto(c, "connecting") \/ Goto(c, "waiting") \/ Goto(c, "queued")
        /\ pc[c] \notin Ended \cup {"idle"} /\ UNCHANGED applied
    BY <1>2 DEF Acquire, Connect, Send, WakeUp
  <2> QED BY <2>1, RefineStutter
<1>3. CASE ConnectFails(c) \/ SendFails(c) \/ Timeout(c) \/ SocketLost(c)
  BY <1>3, RefineFailAttempt DEF ConnectFails, SendFails, Timeout, SocketLost
<1>4. CASE Deliver(c)
  BY <1>4, RefineDeliver
<1>5. CASE Cancel(c)
  <2>1. /\ Goto(c, "abandoned") \/ Goto(c, "cancelled")
        /\ pc[c] \notin Ended \cup {"idle"} /\ UNCHANGED applied
    BY <1>5 DEF Cancel
  <2> QED BY <2>1, RefineFinish DEF Transport!Fail, Transport!Next
<1> QED BY <1>1, <1>2, <1>3, <1>4, <1>5 DEF CallStep

\* The board's taking of a request is an Apply or a stutter.
LEMMA RefineBoard ==
  ASSUME TInv, FramesBegun, NEW f \in Frame, NEW ok \in BOOLEAN, BoardTakes(f, ok)
  PROVE  [Transport!Next]_(Transport!tvars)
<1>1. f[1] \in Call /\ f[2] \in 1..Retries /\ pc[f[1]] # "idle" /\ UNCHANGED pc
  BY DEF BoardTakes, FramesBegun
<1>2. \A d \in Call : Status(d)' = Status(d)
  BY <1>1 DEF Status
<1>3. CASE UNCHANGED applied
  BY <1>2, <1>3 DEF Transport!tvars
<1>4. CASE ~UNCHANGED applied
  <2>1. f[1] \in Writes /\ applied' = [applied EXCEPT ![f[1]] = @ \cup {f[2]}]
    BY <1>4 DEF BoardTakes
  <2>2. f[2] \notin applied[f[1]]
    BY <1>4, <2>1 DEF TInv, TypeOK
  <2>3. Status(f[1]) # "idle"
    BY <1>1 DEF Status
  <2>4. Transport!Apply(f[1])
    BY <1>1, <1>2, <2>1, <2>2, <2>3 DEF Transport!Apply
  <2> QED BY <1>1, <2>4 DEF Transport!Next
<1> QED BY <1>3, <1>4

\* Every step is one of ModbusTransport or a stutter.
LEMMA RefineNext ==
  TInv /\ IInv /\ FramesBegun /\ [Next]_vars => [Transport!Next]_(Transport!tvars)
<1> SUFFICES ASSUME TInv, IInv, FramesBegun, [Next]_vars
             PROVE  [Transport!Next]_(Transport!tvars)
  OBVIOUS
<1>1. ASSUME \A c \in Call : pc'[c] = pc[c], UNCHANGED applied
      PROVE  UNCHANGED Transport!tvars
  BY <1>1 DEF Transport!tvars, Status
<1>2. ASSUME NEW t \in Switcher \cup Closer,
             \/ t \in Switcher /\ (SetFraming(t) \/ SwitchUnderLock(t))
             \/ t \in Closer /\ (Close(t) \/ CloseUnderLock(t))
      PROVE  UNCHANGED Transport!tvars
  <2>1. (\A c \in Call : pc'[c] = pc[c]) /\ UNCHANGED applied
    BY <1>2 DEF SetFraming, SwitchUnderLock, Close, CloseUnderLock, Goto, TInv, TypeOK
  <2> QED BY <1>1, <2>1
<1>3. CASE Lose \/ PeerCloses \/ ClientReconnects \/ DelayElapses \/ UNCHANGED vars
  <2>1. UNCHANGED <<pc, applied>>
    BY <1>3 DEF Lose, PeerCloses, ClientReconnects, DelayElapses, vars
  <2> QED BY <1>1, <2>1
<1> QED BY <1>2, <1>3, RefineCall, RefineBoard DEF Next

\* What the callers see of the gateway is what ModbusTransport allows.
THEOREM Refinement == Spec => TransportSpec
<1>1. Init => FramesBegun
  BY DEF Init, FramesBegun
<1>2. Init => Transport!Init
  BY RefineInit
<1> QED BY <1>1, <1>2, InitType, NextType, InitIInv, NextIInv, NextBegun, RefineNext, PTL
        DEF Spec, TransportSpec, Transport!Spec

\* The promise alone, of whatever implements it, makes a write that is reported
\* as done one that the board has carried out (`async_write_register`).
THEOREM PromiseIsTruth == TransportSpec => []WriteTruth
<1> DEFINE status == [c \in Call |-> Status(c)]
           Promise == /\ applied \in [Call -> SUBSET Nat]
                      /\ \A c \in Writes : status[c] = "ok" => applied[c] # {} \/ Transport!Voided
<1>1. Transport!Init => Promise
  BY DEF Transport!Init
<1>2. ASSUME Promise, [Transport!Next]_(Transport!tvars)
      PROVE  Promise'
  <2>1. CASE UNCHANGED Transport!tvars
    BY <1>2, <2>1 DEF Transport!tvars, Transport!Voided
  <2>2. ASSUME NEW c \in Call, Transport!Apply(c)
        PROVE  Promise'
    <3>1. /\ status' = status
          /\ \E n \in 1..Retries : applied' = [applied EXCEPT ![c] = @ \cup {n}]
      BY <2>2 DEF Transport!Apply
    <3> QED BY <1>2, <3>1 DEF Transport!Voided
  <2>3. ASSUME NEW c \in Call, Transport!Submit(c) \/ Transport!Succeed(c) \/ Transport!Fail(c)
        PROVE  Promise'
    <3>1. PICK s : /\ status[c] \in {"idle", "pending"} /\ applied' = applied
                   /\ status' = [status EXCEPT ![c] = s]
                   /\ s = "ok" /\ c \in Writes => applied[c] # {} \/ Transport!Voided
      BY <2>3 DEF Transport!Submit, Transport!Succeed, Transport!Fail, Transport!Finish
    <3>2. \A d \in Call : status'[d] = (IF d = c THEN s ELSE status[d])
      BY <3>1
    <3>3. Transport!Voided => Transport!Voided'
      BY <3>1, <3>2 DEF Transport!Voided
    <3> HIDE DEF status
    <3> QED BY <1>2, <3>1, <3>2, <3>3
  <2> QED BY <1>2, <2>1, <2>2, <2>3 DEF Transport!Next
<1>3. Promise => WriteTruth
  <2> SUFFICES ASSUME Promise, ~Abandonment, NEW c \in Writes, pc[c] = "ok"
               PROVE  applied[c] # {}
    BY DEF WriteTruth
  <2>1. \A d \in Call : status[d] = Status(d)
    OBVIOUS
  <2>2. Status(c) = "ok" /\ \A d \in Call : Status(d) = "abandoned" => pc[d] = "abandoned"
    BY DEF Status, Ended
  <2>3. c \in Call
    BY GatewayAssumption
  <2>4. status[c] = "ok"
    BY <2>1, <2>2, <2>3
  <2>5. applied[c] # {} \/ Transport!Voided
    BY <2>4
  <2>6. ASSUME Transport!Voided
        PROVE  \E d \in Call : status[d] = "abandoned"
    BY <2>6 DEF Transport!Voided
  <2>7. ~Transport!Voided
    BY <2>1, <2>2, <2>6 DEF Abandonment
  <2> QED BY <2>5, <2>7
<1> HIDE DEF Promise
<1> QED BY <1>1, <1>2, <1>3, PTL DEF TransportSpec, Transport!Spec
=============================================================================
