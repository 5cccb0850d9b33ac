------------------------ MODULE WaterstageTierProofs ------------------------
(***************************************************************************)
(* Proofs about WaterstageTier, for every tier, every set of writes and    *)
(* any number of failures.                                                 *)
(***************************************************************************)
EXTENDS WaterstageTier, TLAPS

USE TierAssumption

-----------------------------------------------------------------------------
(* Type correctness *)

\* What a poll, a re-read or an answer puts together has the type of the data.
LEMMA MergeType ==
  ASSUME NEW g \in Group, NEW d \in [Reg -> Value \cup {NoValue}], TypeOK
  PROVE  Merge(g, d) \in [Reg -> Value \cup {NoValue}]
  BY DEF TypeOK, Merge

\* Going on with a poll, or publishing it, keeps the types.
LEMMA ProceedType ==
  ASSUME TypeOK, poll # 0, NEW vals \in [Reg -> Value \cup {NoValue}],
         NEW new \in SUBSET Reg, Proceed(vals, new),
         UNCHANGED <<boardVars, during, writeVars, panel>>, failures' \in 0..MaxFailures
  PROVE  TypeOK'
<1> USE DEF TypeOK, boardVars, writeVars, dataVars, Group
<1>1. CASE poll < NumGroups
  BY <1>1 DEF Proceed
<1>2. CASE ~(poll < NumGroups)
  <2>1. Publish(vals, new)
    BY <1>2 DEF Proceed
  <2>2. Nothing \in [Reg -> Value \cup {NoValue}]
    BY DEF Nothing
  <2> QED BY <2>1, <2>2 DEF Publish
<1> QED BY <1>1, <1>2

\* The initial state is well typed.
LEMMA InitType == Init => TypeOK
<1> SUFFICES ASSUME Init PROVE TypeOK
  OBVIOUS
<1>1. board \in [Reg -> Value] /\ data \in [Reg -> Value \cup {NoValue}]
  BY DEF Init, Value
<1>2. Nothing \in [Reg -> Value \cup {NoValue}]
  BY DEF Nothing
<1>3. failures \in 0..MaxFailures /\ panel \in 0..MaxPanel
  BY DEF Init
<1> QED BY <1>1, <1>2, <1>3 DEF Init, TypeOK

\* Every step keeps the types.
LEMMA NextType == TypeOK /\ [Next]_vars => TypeOK'
<1> SUFFICES ASSUME TypeOK, [Next]_vars PROVE TypeOK'
  OBVIOUS
<1>1. CASE StartPoll
  BY <1>1 DEF TypeOK, StartPoll, boardVars, dataVars, writeVars, Group
<1>2. CASE PollGroup
  <2>1. poll \in Group /\ poll # 0
    BY <1>2 DEF TypeOK, PollGroup
  <2>2. Merge(poll, values) \in [Reg -> Value \cup {NoValue}]
    BY <2>1, MergeType DEF TypeOK
  <2>3. readFresh \cup Members(poll) \in SUBSET Reg
    BY DEF TypeOK, Members
  <2>4. failures' \in 0..MaxFailures
    BY <1>2 DEF TypeOK, PollGroup
  <2> QED BY <1>2, <2>1, <2>2, <2>3, <2>4, ProceedType DEF PollGroup
<1>3. CASE PollGroupFails
  <2>1. failures' \in 0..MaxFailures
    BY <1>3 DEF TypeOK, PollGroupFails, Fails
  <2> QED BY <1>3, <2>1, ProceedType DEF PollGroupFails, TypeOK
<1>4. ASSUME NEW w \in Write,
             StartWrite(w) \/ AttemptTimesOut(w) \/ WriteEnds(w) \/ StrayArrives(w)
      PROVE  TypeOK'
  <2>1. w \in Value /\ Target[w] \in Reg
    BY DEF Value
  <2> QED BY <1>4, <2>1
        DEF TypeOK, StartWrite, AttemptTimesOut, WriteEnds, WriteOk, WriteFails,
            StrayArrives, Fails, boardVars, dataVars, pollVars
<1>5. ASSUME NEW w \in Write, ConfirmStep(w)
      PROVE  TypeOK'
  <2>1. optimistic' \in [Reg -> Value \cup {NoValue}]
    BY <1>5 DEF TypeOK, ConfirmStep, RereadOk, RereadFails, DropOverlays
  <2>2. CASE RereadOk(w)
    <3>1. GroupOf[Target[w]] \in Group
      OBVIOUS
    <3>2. Merge(GroupOf[Target[w]], data) \in [Reg -> Value \cup {NoValue}]
      BY <3>1, MergeType DEF TypeOK
    <3> QED BY <2>1, <2>2, <3>2 DEF TypeOK, RereadOk, boardVars, pollVars, Members
  <2>3. CASE RereadFails(w)
    BY <2>1, <2>3 DEF TypeOK, RereadFails, Fails, boardVars, dataVars, pollVars
  <2> QED BY <1>5, <2>2, <2>3 DEF ConfirmStep
<1>6. ASSUME NEW r \in Reg, Expire(r) \/ PanelSets(r)
      PROVE  TypeOK'
  BY <1>6 DEF TypeOK, Expire, PanelSets, boardVars, dataVars, pollVars, writeVars, Value
<1>7. CASE UNCHANGED vars
  BY <1>7 DEF TypeOK, vars, boardVars, dataVars, pollVars, writeVars
<1> QED BY <1>1, <1>2, <1>3, <1>4, <1>5, <1>6, <1>7 DEF Next, PollStep

\* Every variable of the tier keeps its type.
THEOREM TypeCorrect == Spec => []TypeOK
  BY InitType, NextType, PTL DEF Spec

-----------------------------------------------------------------------------
(* Overlays *)

\* A written value on show always has a re-read under way.
THEOREM OverlaysAreConfirmed == Spec => []OverlayHasConfirm
<1>1. Init => OverlayHasConfirm
  BY DEF Init, OverlayHasConfirm, Nothing
<1>2. TypeOK /\ OverlayHasConfirm /\ [Next]_vars => OverlayHasConfirm'
  <2> SUFFICES ASSUME TypeOK, OverlayHasConfirm, [Next]_vars
               PROVE  OverlayHasConfirm'
    OBVIOUS
  <2>1. ASSUME UNCHANGED <<optimistic, confirm>>
        PROVE  OverlayHasConfirm'
    BY <2>1 DEF OverlayHasConfirm
  <2>2. ASSUME NEW w \in Write, WriteOk(w)
        PROVE  OverlayHasConfirm'
    BY <2>2 DEF WriteOk, OverlayHasConfirm, TypeOK
  <2>3. ASSUME NEW w \in Write, ConfirmStep(w)
        PROVE  OverlayHasConfirm'
    BY <2>3 DEF ConfirmStep, RereadOk, RereadFails, DropOverlays, OverlayHasConfirm, TypeOK
  <2>4. ASSUME NEW r \in Reg, Expire(r)
        PROVE  OverlayHasConfirm'
    BY <2>4 DEF Expire, OverlayHasConfirm, TypeOK
  <2>5. CASE PollStep
    BY <2>1, <2>5 DEF PollStep, StartPoll, PollGroup, PollGroupFails, writeVars
  <2>6. ASSUME NEW w \in Write,
               StartWrite(w) \/ AttemptTimesOut(w) \/ WriteFails(w) \/ StrayArrives(w)
        PROVE  OverlayHasConfirm'
    BY <2>1, <2>6 DEF StartWrite, AttemptTimesOut, WriteFails, StrayArrives
  <2>7. ASSUME NEW r \in Reg, PanelSets(r)
        PROVE  OverlayHasConfirm'
    BY <2>1, <2>7 DEF PanelSets, writeVars
  <2>8. CASE UNCHANGED vars
    BY <2>1, <2>8 DEF vars, writeVars
  <2> QED BY <2>2, <2>3, <2>4, <2>5, <2>6, <2>7, <2>8 DEF Next, WriteEnds
<1> QED BY <1>1, <1>2, TypeCorrect, PTL DEF Spec

-----------------------------------------------------------------------------
(* Readings and what they replace *)

\* What a poll has read of a register was read after its last write, unless the
\* write was acknowledged since the poll began.
Covered ==
  /\ poll = 0 => values = Nothing
  /\ \A r \in Reg : values[r] # NoValue => r \in readFresh \cup during

\* A button has no value to be shown before it is read.
Bare == \A p \in Presses : optimistic[Target[p]] = NoValue

\* A register that nobody else changes holds what was read of it after its last
\* write, and what is shown in place of a reading.
Truth ==
  \A r \in Reg \ foreign :
    /\ r \in fresh => data[r] \in {board[r], NoValue}
    /\ r \in readFresh => values[r] = board[r]
    /\ optimistic[r] \in {board[r], NoValue}

ReadInv == Covered /\ Bare /\ Truth

\* Going on with a poll, or publishing it, carries over what has been read.
LEMMA ProceedReads ==
  ASSUME ReadInv, poll # 0, NEW vals, NEW new, Proceed(vals, new),
         UNCHANGED <<boardVars, during, optimistic>>,
         \A r \in Reg : vals[r] # NoValue => r \in new \cup during,
         \A r \in Reg \ foreign : r \in new => vals[r] = board[r],
         poll \in Nat
  PROVE  ReadInv'
<1> USE DEF ReadInv, boardVars
<1>1. Bare'
  BY DEF Bare
<1>2. CASE poll < NumGroups
  <2>1. /\ poll' = poll + 1 /\ values' = vals /\ readFresh' = new
        /\ UNCHANGED dataVars
    BY <1>2 DEF Proceed
  <2> QED BY <1>1, <2>1 DEF Covered, Truth, dataVars
<1>3. CASE ~(poll < NumGroups)
  <2>1. Publish(vals, new)
    BY <1>3 DEF Proceed
  <2>2. Covered'
    BY <2>1 DEF Publish, Covered, Nothing
  <2>3. Truth'
    BY <2>1 DEF Publish, Truth, Nothing
  <2> QED BY <1>1, <2>2, <2>3
<1> QED BY <1>2, <1>3

\* The steps of a poll.
LEMMA PollReads ==
  ASSUME TypeOK, ReadInv, PollStep
  PROVE  ReadInv'
<1> USE DEF ReadInv
<1>1. CASE StartPoll
  BY <1>1 DEF StartPoll, Covered, Bare, Truth, Nothing, boardVars, dataVars, writeVars
<1>2. CASE PollGroup
  <2> DEFINE vals == Merge(poll, values)
             new == readFresh \cup Members(poll)
  <2>1. poll # 0 /\ Proceed(vals, new) /\ UNCHANGED <<boardVars, during, optimistic>>
    BY <1>2 DEF PollGroup, writeVars
  <2>2. \A r \in Reg : IF r \in Members(poll) THEN vals[r] = board[r]
                                              ELSE vals[r] = values[r]
    BY DEF Merge, Members
  <2>3. \A r \in Reg : vals[r] # NoValue => r \in new \cup during
    BY <2>2 DEF Covered
  <2>4. \A r \in Reg \ foreign : r \in new => vals[r] = board[r]
    BY <2>2 DEF Truth
  <2>5. poll \in Nat
    BY DEF TypeOK, Group
  <2> HIDE DEF vals, new
  <2> QED BY <2>1, <2>3, <2>4, <2>5, ProceedReads
<1>3. CASE PollGroupFails
  <2>1. poll # 0 /\ Proceed(values, readFresh) /\ UNCHANGED <<boardVars, during, optimistic>>
    BY <1>3 DEF PollGroupFails, writeVars
  <2>2. \A r \in Reg : values[r] # NoValue => r \in readFresh \cup during
    BY DEF Covered
  <2>3. \A r \in Reg \ foreign : r \in readFresh => values[r] = board[r]
    BY DEF Truth
  <2>4. poll \in Nat
    BY DEF TypeOK, Group
  <2> QED BY <2>1, <2>2, <2>3, <2>4, ProceedReads
<1> QED BY <1>1, <1>2, <1>3 DEF PollStep

\* An acknowledged write is in the register and on show, and nothing read
\* before it counts as fresh any more.
LEMMA WriteReads ==
  ASSUME TypeOK, ReadInv, NEW w \in Write, WriteOk(w)
  PROVE  ReadInv'
<1> USE DEF ReadInv
<1>1. /\ board' = [board EXCEPT ![Target[w]] = w]
      /\ optimistic' = IF w \in Presses THEN optimistic
                                        ELSE [optimistic EXCEPT ![Target[w]] = w]
      /\ fresh' = fresh \ {Target[w]} /\ readFresh' = readFresh \ {Target[w]}
      /\ during' = during \cup {Target[w]}
      /\ UNCHANGED <<foreign, data, poll, values>>
  BY DEF WriteOk
<1>2. Covered'
  BY <1>1 DEF Covered
<1>3. \A r \in Reg : r # Target[w] => board'[r] = board[r] /\ optimistic'[r] = optimistic[r]
  BY <1>1 DEF TypeOK
<1>4. board'[Target[w]] = w
  BY <1>1 DEF TypeOK
<1>5. CASE w \in Presses
  <2>1. optimistic' = optimistic /\ optimistic[Target[w]] = NoValue
    BY <1>1, <1>5 DEF Bare
  <2>2. Truth'
    BY <1>1, <1>3, <2>1 DEF Truth
  <2> QED BY <1>2, <2>1, <2>2 DEF Bare
<1>6. CASE w \notin Presses
  <2>1. optimistic'[Target[w]] = w
    BY <1>1, <1>6 DEF TypeOK
  <2>2. Truth'
    BY <1>1, <1>3, <1>4, <2>1 DEF Truth
  <2>3. \A p \in Presses : Target[p] \in Reg /\ Target[p] # Target[w]
    BY <1>6
  <2> QED BY <1>2, <1>3, <2>2, <2>3 DEF Bare
<1> QED BY <1>5, <1>6

\* A re-read shows its whole group as it is.
LEMMA RereadReads ==
  ASSUME TypeOK, ReadInv, NEW w \in Write, ConfirmStep(w)
  PROVE  ReadInv'
<1> USE DEF ReadInv
<1>1. UNCHANGED <<board, foreign, poll, values, readFresh, during>>
  BY DEF ConfirmStep, RereadOk, RereadFails, boardVars, pollVars
<1>2. \A r \in Reg : optimistic'[r] \in {optimistic[r], NoValue}
  BY DEF ConfirmStep, RereadOk, RereadFails, DropOverlays
<1>3. \A r \in Reg \ foreign : r \in fresh' => data'[r] \in {board[r], NoValue}
  <2>1. CASE RereadOk(w)
    <3>1. /\ data' = Merge(GroupOf[Target[w]], data)
          /\ fresh' = fresh \cup Members(GroupOf[Target[w]])
      BY <2>1 DEF RereadOk
    <3> QED BY <3>1 DEF Merge, Members, Truth
  <2>2. CASE RereadFails(w)
    BY <2>2 DEF RereadFails, dataVars, Truth
  <2> QED BY <2>1, <2>2 DEF ConfirmStep
<1>4. Covered' /\ Bare'
  BY <1>1, <1>2 DEF Covered, Bare
<1>5. Truth'
  BY <1>1, <1>2, <1>3 DEF Truth
<1> QED BY <1>4, <1>5

\* What others do to a register is on record.
LEMMA ForeignReads ==
  ASSUME TypeOK, ReadInv,
         \/ \E w \in Write : StrayArrives(w)
         \/ \E r \in Reg : PanelSets(r)
  PROVE  ReadInv'
<1> USE DEF ReadInv
<1>1. /\ foreign \subseteq foreign'
      /\ \A r \in Reg : r \notin foreign' => board'[r] = board[r]
      /\ UNCHANGED <<data, fresh, poll, values, readFresh, during, optimistic>>
  <2>1. ASSUME NEW w \in Write, StrayArrives(w)
        PROVE  <1>1
    BY <2>1 DEF StrayArrives, dataVars, pollVars
  <2>2. ASSUME NEW r \in Reg, PanelSets(r)
        PROVE  <1>1
    BY <2>2 DEF PanelSets, dataVars, pollVars, writeVars, TypeOK
  <2> QED BY <2>1, <2>2
<1>2. Covered' /\ Bare'
  BY <1>1 DEF Covered, Bare
<1>3. Truth'
  BY <1>1 DEF Truth
<1> QED BY <1>2, <1>3

\* Every step keeps what is known of the readings.
LEMMA NextReads ==
  TypeOK /\ ReadInv /\ [Next]_vars => ReadInv'
<1> SUFFICES ASSUME TypeOK, ReadInv, [Next]_vars PROVE ReadInv'
  OBVIOUS
<1>1. ASSUME UNCHANGED <<boardVars, data, fresh, pollVars>>,
             \A r \in Reg : optimistic'[r] \in {optimistic[r], NoValue}
      PROVE  ReadInv'
  BY <1>1 DEF ReadInv, Covered, Bare, Truth, boardVars, pollVars
<1>2. ASSUME NEW w \in Write, StartWrite(w) \/ AttemptTimesOut(w) \/ WriteFails(w)
      PROVE  ReadInv'
  BY <1>1, <1>2 DEF StartWrite, AttemptTimesOut, WriteFails, dataVars
<1>3. ASSUME NEW r \in Reg, Expire(r)
      PROVE  ReadInv'
  <2>1. \A s \in Reg : optimistic'[s] \in {optimistic[s], NoValue}
    BY <1>3 DEF Expire, TypeOK
  <2> QED BY <1>1, <1>3, <2>1 DEF Expire, dataVars
<1>4. CASE UNCHANGED vars
  BY <1>1, <1>4 DEF vars, dataVars, writeVars
<1> QED BY <1>2, <1>3, <1>4, PollReads, WriteReads, RereadReads, ForeignReads
      DEF Next, WriteEnds

\* The invariant of the readings holds from the first refresh on.
LEMMA ReadingsInvariant ==
  Spec => []ReadInv
<1>1. Init => ReadInv
  BY DEF Init, ReadInv, Covered, Bare, Truth, Nothing
<1> QED BY <1>1, NextReads, TypeCorrect, PTL DEF Spec

\* A re-read uncovers only what it has read, and a poll publishes, of a register
\* that was not written meanwhile, a value read after its last write
\* (`_async_update_data`, `async_refresh_group`).
THEOREM ReadingsAreNewer == Spec => ReadingIsNewer
<1>1. ASSUME TypeOK, ReadInv, NEW w \in Write, RereadOk(w), NEW r \in Reg, Uncovered(r)
      PROVE  r \in fresh'
  <2>1. GroupOf[r] = GroupOf[Target[w]]
    BY <1>1 DEF Uncovered, RereadOk, DropOverlays
  <2> QED BY <1>1, <2>1 DEF RereadOk, Members
<1>2. ASSUME NEW vals, NEW new, Publish(vals, new), success', NEW r \in Reg, data'[r] # NoValue,
             \A s \in Reg : vals[s] # NoValue => s \in new \cup during
      PROVE  r \in fresh' \cup during
  BY <1>2 DEF Publish
<1>3. ASSUME TypeOK, ReadInv, [Next]_vars, PollEnds, success', NEW r \in Reg, data'[r] # NoValue
      PROVE  r \in fresh' \cup during
  <2>1. poll \in 1..NumGroups /\ poll' = 0
    BY <1>3 DEF PollEnds, TypeOK, Group
  <2>2. CASE PollGroup
    <3>1. Publish(Merge(poll, values), readFresh \cup Members(poll))
      BY <2>1, <2>2 DEF PollGroup, Proceed
    <3>2. \A s \in Reg : Merge(poll, values)[s] # NoValue
                          => s \in (readFresh \cup Members(poll)) \cup during
      BY <1>3 DEF ReadInv, Covered, Merge, Members
    <3> QED BY <1>2, <1>3, <3>1, <3>2
  <2>3. CASE PollGroupFails
    <3>1. Publish(values, readFresh)
      BY <2>1, <2>3 DEF PollGroupFails, Proceed
    <3>2. \A s \in Reg : values[s] # NoValue => s \in readFresh \cup during
      BY <1>3 DEF ReadInv, Covered
    <3> QED BY <1>2, <1>3, <3>1, <3>2
  <2>4. poll' # poll /\ poll' # 1
    BY <2>1
  <2>5. ASSUME NEW w \in Write, \/ StartWrite(w) \/ AttemptTimesOut(w) \/ WriteEnds(w)
                               \/ ConfirmStep(w) \/ StrayArrives(w)
        PROVE  poll' = poll
    BY <2>5 DEF StartWrite, AttemptTimesOut, WriteEnds, WriteOk, WriteFails, ConfirmStep,
                RereadOk, RereadFails, StrayArrives, pollVars
  <2>6. ASSUME NEW q \in Reg, Expire(q) \/ PanelSets(q)
        PROVE  poll' = poll
    BY <2>6 DEF Expire, PanelSets, pollVars
  <2>7. Next
    BY <1>3, <2>4 DEF vars, pollVars
  <2>8. PollStep
    BY <2>4, <2>5, <2>6, <2>7 DEF Next
  <2>9. PollGroup \/ PollGroupFails
    BY <2>4, <2>8 DEF PollStep, StartPoll
  <2> QED BY <2>2, <2>3, <2>9
<1>4. TypeOK /\ ReadInv /\ [Next]_vars =>
        [/\ (\E w \in Write : RereadOk(w)) => \A r \in Reg : Uncovered(r) => r \in fresh'
         /\ PollEnds /\ success' =>
              \A r \in Reg : data'[r] # NoValue => r \in fresh' \cup during]_vars
  BY <1>1, <1>3
<1> QED BY <1>4, TypeCorrect, ReadingsInvariant, PTL DEF Spec, ReadingIsNewer

\* What an entity shows of a register that nobody else changes is what the
\* register holds, as long as the last write has been read back or its value
\* is shown (`decoded`).
THEOREM ShowsWhatIsHeld == Spec => []ShownIsHeld
<1>1. ReadInv => ShownIsHeld
  BY DEF ReadInv, Truth, ShownIsHeld, Decoded
<1> QED BY <1>1, ReadingsInvariant, PTL

-----------------------------------------------------------------------------
(* Honesty *)

\* Only a re-read after a failure of the whole tier brings old readings back.
THEOREM OldReadingsAreRevived == Spec => []StaleOnlyAfterRevival
<1>1. Init => StaleOnlyAfterRevival
  BY DEF Init, StaleOnlyAfterRevival
<1>2. TypeOK /\ StaleOnlyAfterRevival /\ [Next]_vars => StaleOnlyAfterRevival'
  <2> SUFFICES ASSUME TypeOK, StaleOnlyAfterRevival, [Next]_vars
               PROVE  StaleOnlyAfterRevival'
    OBVIOUS
  <2>1. ASSUME UNCHANGED <<data, success, stale, revived>>
        PROVE  StaleOnlyAfterRevival'
    BY <2>1 DEF StaleOnlyAfterRevival, Available
  <2>2. ASSUME NEW vals, NEW new, Publish(vals, new)
        PROVE  StaleOnlyAfterRevival'
    BY <2>2 DEF Publish, StaleOnlyAfterRevival, Available
  <2>3. ASSUME NEW vals, NEW new, Proceed(vals, new)
        PROVE  StaleOnlyAfterRevival'
    BY <2>1, <2>2, <2>3 DEF Proceed, dataVars
  <2>4. CASE PollStep
    BY <2>1, <2>3, <2>4 DEF PollStep, StartPoll, PollGroup, PollGroupFails, dataVars
  <2>5. ASSUME NEW w \in Write, RereadOk(w)
        PROVE  StaleOnlyAfterRevival'
    <3>1. /\ data' = Merge(GroupOf[Target[w]], data) /\ success'
          /\ revived' = (revived \/ ~success)
          /\ stale' = stale \ Members(GroupOf[Target[w]])
      BY <2>5 DEF RereadOk
    <3>2. SUFFICES ASSUME ~revived, success, NEW r \in Reg, data'[r] # NoValue,
                          r \notin Members(GroupOf[Target[w]])
                   PROVE  r \notin stale
      BY <3>1 DEF StaleOnlyAfterRevival, Available
    <3>3. data'[r] = data[r]
      BY <3>1, <3>2 DEF Merge, Members
    <3> QED BY <3>2, <3>3 DEF StaleOnlyAfterRevival, Available
  <2>6. ASSUME NEW w \in Write, \/ StartWrite(w) \/ AttemptTimesOut(w) \/ WriteEnds(w)
                                \/ RereadFails(w) \/ StrayArrives(w)
        PROVE  StaleOnlyAfterRevival'
    BY <2>1, <2>6 DEF StartWrite, AttemptTimesOut, WriteEnds, WriteOk, WriteFails,
                      RereadFails, StrayArrives, dataVars
  <2>7. ASSUME NEW r \in Reg, Expire(r) \/ PanelSets(r)
        PROVE  StaleOnlyAfterRevival'
    BY <2>1, <2>7 DEF Expire, PanelSets, dataVars
  <2>8. CASE UNCHANGED vars
    BY <2>1, <2>8 DEF vars, dataVars
  <2> QED BY <2>4, <2>5, <2>6, <2>7, <2>8 DEF Next, ConfirmStep
<1> QED BY <1>1, <1>2, TypeCorrect, PTL DEF Spec
=============================================================================
