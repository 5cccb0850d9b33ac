---------------------------- MODULE WaterstageTier ----------------------------
(***************************************************************************)
(* One polling tier (`MbioCoordinator`) and the writing side of            *)
(* `WaterstageRuntime` (coordinator.py): polls that read the tier group by *)
(* group, writes, the optimistic value shown after a write, and the        *)
(* re-read of one group that confirms it.                                  *)
(*                                                                         *)
(* The bus serves one request at a time (ModbusGateway), and the code that *)
(* follows the answer runs without an await, so a read and what is done    *)
(* with it are one step: a group of a poll, and the whole of a re-read.    *)
(* The poll publishes in the step that reads its last group.               *)
(***************************************************************************)
EXTENDS Naturals

CONSTANTS Reg,          \* registers of the tier
          NumGroups,    \* `self.groups`, read in the order 1..NumGroups
          GroupOf,      \* the group of each register
          Write,        \* calls of `async_write` and `async_press`; the value
                        \* a call writes goes by the name of the call
          Target,       \* the register each call writes
          Presses,      \* the calls that are `async_press`
          Old, NoValue,
          MaxFailures,  \* bound: requests that find no answer
          MaxPanel      \* bound: changes made at the controller itself

Group == 1..NumGroups
Value == Write \cup {Old}
Members(g) == {r \in Reg : GroupOf[r] = g}

ASSUME TierAssumption ==
  /\ NumGroups \in Nat \ {0} /\ MaxFailures \in Nat /\ MaxPanel \in Nat
  /\ GroupOf \in [Reg -> Group] /\ \A g \in Group : Members(g) # {}
  /\ Target \in [Write -> Reg] /\ Presses \subseteq Write
  \* a register has one control, a button or another (`assign_controls`)
  /\ \A p \in Presses, w \in Write \ Presses : Target[p] # Target[w]
  /\ Old \notin Write /\ NoValue \notin Value

VARIABLES
  board,       \* what the registers hold
  data,        \* `coordinator.data`; NoValue where a register dropped out
  success,     \* `coordinator.last_update_success`
  poll,        \* the group the running poll reads next, 0 when none runs
  values,      \* what the running poll has read
  write,       \* where each write is
  strays,      \* writes with an unanswered attempt the board may yet carry out
  optimistic,  \* `_optimistic`
  confirm,     \* the writes whose `_confirm` task is alive
  failures, panel,
  \* history, read by no action
  fresh,       \* the registers whose `data` was read after their last write
  readFresh,   \* the same of `values`
  during,      \* the registers written since the last poll began
  foreign,     \* the registers changed by others than an acknowledged write
  stale,       \* the registers the last finished poll did not read
  revived      \* a re-read has since ended a failure of the whole tier

boardVars == <<board, foreign>>
pollVars == <<poll, values, readFresh, during>>
dataVars == <<data, success, fresh, stale, revived>>
writeVars == <<write, strays, optimistic, confirm>>
vars == <<boardVars, dataVars, pollVars, writeVars, failures, panel>>

Nothing == [r \in Reg |-> NoValue]

TypeOK ==
  /\ board \in [Reg -> Value]
  /\ data \in [Reg -> Value \cup {NoValue}]
  /\ success \in BOOLEAN /\ revived \in BOOLEAN
  /\ poll \in Group \cup {0}
  /\ values \in [Reg -> Value \cup {NoValue}]
  /\ write \in [Write -> {"idle", "sent", "ok", "failed"}]
  /\ strays \subseteq Write /\ confirm \subseteq Write
  /\ optimistic \in [Reg -> Value \cup {NoValue}]
  /\ failures \in 0..MaxFailures /\ panel \in 0..MaxPanel
  /\ fresh \subseteq Reg /\ readFresh \subseteq Reg /\ stale \subseteq Reg
  /\ during \subseteq Reg /\ foreign \subseteq Reg

\* After a first refresh that read every group.
Init ==
  /\ board = [r \in Reg |-> Old]
  /\ data = board /\ stale = {}
  /\ success = TRUE /\ revived = FALSE
  /\ poll = 0 /\ values = Nothing
  /\ write = [w \in Write |-> "idle"] /\ strays = {}
  /\ optimistic = Nothing /\ confirm = {}
  /\ failures = 0 /\ panel = 0
  /\ fresh = Reg /\ readFresh = {} /\ during = {} /\ foreign = {}

Fails == failures < MaxFailures /\ failures' = failures + 1

\* `ReadGroup.decode` merged into what is known of the other groups.
Merge(g, d) == [r \in Reg |-> IF GroupOf[r] = g THEN board[r] ELSE d[r]]

-----------------------------------------------------------------------------
(* _async_update_data *)

StartPoll ==
  /\ poll = 0
  /\ poll' = 1 /\ during' = {}
  /\ UNCHANGED <<boardVars, dataVars, values, readFresh, writeVars, failures, panel>>

\* Fault of Publish: a failed group keeps its old values.
PublishOverOld(vals, new) ==
  /\ IF vals = Nothing
     THEN /\ success' = FALSE
          /\ UNCHANGED <<data, fresh, revived>>
     ELSE /\ success' = TRUE /\ revived' = FALSE
          /\ data' = [r \in Reg |-> IF vals[r] = NoValue THEN data[r] ELSE vals[r]]
          /\ fresh' = new
  /\ stale' = {r \in Reg : vals[r] = NoValue}
  /\ poll' = 0 /\ values' = Nothing /\ readFresh' = {}

\* The end of the poll and what the DataUpdateCoordinator makes of it: the
\* registers of a failed group drop out, a complete failure keeps the data.
Publish(vals, new) ==
  /\ IF vals = Nothing
     THEN /\ success' = FALSE
          /\ UNCHANGED <<data, fresh, revived>>
     ELSE /\ success' = TRUE /\ revived' = FALSE
          /\ data' = vals
          /\ fresh' = new
  /\ stale' = {r \in Reg : vals[r] = NoValue}
  /\ poll' = 0 /\ values' = Nothing /\ readFresh' = {}

\* Fault of Proceed: one group too many.
ProceedPastTheLast(vals, new) ==
  IF poll <= NumGroups
  THEN /\ poll' = poll + 1 /\ values' = vals /\ readFresh' = new
       /\ UNCHANGED dataVars
  ELSE Publish(vals, new)

Proceed(vals, new) ==
  IF poll < NumGroups
  THEN /\ poll' = poll + 1 /\ values' = vals /\ readFresh' = new
       /\ UNCHANGED dataVars
  ELSE Publish(vals, new)

PollGroup ==
  /\ poll # 0
  /\ Proceed(Merge(poll, values), readFresh \cup Members(poll))
  /\ UNCHANGED <<boardVars, during, writeVars, failures, panel>>

PollGroupFails ==
  /\ poll # 0
  /\ Fails
  /\ Proceed(values, readFresh)
  /\ UNCHANGED <<boardVars, during, writeVars, panel>>

-----------------------------------------------------------------------------
(* async_write, async_press and the confirming re-read *)

\* Fault of StartWrite: the value is shown before the board has taken it.
StartWriteShown(w) ==
  /\ write[w] = "idle"
  /\ write' = [write EXCEPT ![w] = "sent"]
  /\ optimistic' = [optimistic EXCEPT ![Target[w]] = w]
  /\ UNCHANGED <<boardVars, dataVars, pollVars, strays, confirm, failures, panel>>

StartWrite(w) ==
  /\ write[w] = "idle"
  /\ write' = [write EXCEPT ![w] = "sent"]
  /\ UNCHANGED <<boardVars, dataVars, pollVars, strays, optimistic, confirm, failures, panel>>

\* An attempt finds no answer.  The board may have it all the same.
AttemptTimesOut(w) ==
  /\ write[w] = "sent" /\ Fails
  /\ strays' = strays \cup {w}
  /\ UNCHANGED <<boardVars, dataVars, pollVars, write, optimistic, confirm, panel>>

WriteOk(w) ==
  /\ write[w] = "sent"
  /\ write' = [write EXCEPT ![w] = "ok"]
  /\ board' = [board EXCEPT ![Target[w]] = w]
  /\ optimistic' = IF w \in Presses THEN optimistic
                                    ELSE [optimistic EXCEPT ![Target[w]] = w]
  /\ confirm' = confirm \cup {w}
  /\ fresh' = fresh \ {Target[w]} /\ readFresh' = readFresh \ {Target[w]}
  /\ during' = during \cup {Target[w]}
  /\ UNCHANGED <<foreign, data, success, stale, revived, poll, values, strays, failures, panel>>

\* Refused by the board or out of attempts: the caller gets an error and that
\* is all, no re-read is scheduled.
WriteFails(w) ==
  /\ write[w] = "sent"
  /\ write' = [write EXCEPT ![w] = "failed"]
  /\ UNCHANGED <<boardVars, dataVars, pollVars, strays, optimistic, confirm, failures, panel>>

\* The `finally` clause of `_confirm`.
DropOverlays(w) ==
  optimistic' = [r \in Reg |-> IF GroupOf[r] = GroupOf[Target[w]] THEN NoValue
                                                                  ELSE optimistic[r]]

\* Fault of RereadOk: only the written register is read again.
RereadOneRegister(w) ==
  LET r == Target[w] IN
  /\ w \in confirm
  /\ data' = [data EXCEPT ![r] = board[r]]
  /\ success' = TRUE /\ revived' = (revived \/ ~success)
  /\ fresh' = fresh \cup {r} /\ stale' = stale \ {r}
  /\ DropOverlays(w)
  /\ confirm' = confirm \ {w}
  /\ UNCHANGED <<boardVars, pollVars, write, strays, failures, panel>>

\* `async_refresh_group` and `async_set_updated_data`.
RereadOk(w) ==
  LET g == GroupOf[Target[w]] IN
  /\ w \in confirm
  /\ data' = Merge(g, data)
  /\ success' = TRUE /\ revived' = (revived \/ ~success)
  /\ fresh' = fresh \cup Members(g) /\ stale' = stale \ Members(g)
  /\ DropOverlays(w)
  /\ confirm' = confirm \ {w}
  /\ UNCHANGED <<boardVars, pollVars, write, strays, failures, panel>>

\* Fault of RereadFails: the overlays stay.
RereadFailsOverlayKept(w) ==
  /\ w \in confirm /\ Fails
  /\ confirm' = confirm \ {w}
  /\ UNCHANGED <<boardVars, dataVars, pollVars, write, strays, optimistic, panel>>

RereadFails(w) ==
  /\ w \in confirm /\ Fails
  /\ DropOverlays(w)
  /\ confirm' = confirm \ {w}
  /\ UNCHANGED <<boardVars, dataVars, pollVars, write, strays, panel>>

\* `decoded` drops an overlay past WRITE_OPTIMISTIC_TTL; a re-read that has to
\* wait for the bus and its own retries may take longer than that.
Expire(r) ==
  /\ optimistic[r] # NoValue
  /\ optimistic' = [optimistic EXCEPT ![r] = NoValue]
  /\ UNCHANGED <<boardVars, dataVars, pollVars, write, strays, confirm, failures, panel>>

-----------------------------------------------------------------------------
(* External: the board and the controller behind it *)

StrayArrives(w) ==
  /\ w \in strays
  /\ strays' = strays \ {w}
  /\ board' \in {board, [board EXCEPT ![Target[w]] = w]}
  /\ foreign' = foreign \cup {r \in Reg : board'[r] # board[r]}
  /\ UNCHANGED <<dataVars, pollVars, write, optimistic, confirm, failures, panel>>

\* The controller clamps a value, or someone turns it at the panel.
PanelSets(r) ==
  /\ panel < MaxPanel /\ panel' = panel + 1
  /\ board[r] # Old /\ board' = [board EXCEPT ![r] = Old]
  /\ foreign' = foreign \cup {r}
  /\ UNCHANGED <<dataVars, pollVars, writeVars, failures>>

-----------------------------------------------------------------------------

PollStep == StartPoll \/ PollGroup \/ PollGroupFails
WriteEnds(w) == WriteOk(w) \/ WriteFails(w)
ConfirmStep(w) == RereadOk(w) \/ RereadFails(w)

Next ==
  \/ PollStep
  \/ \E w \in Write : StartWrite(w) \/ AttemptTimesOut(w) \/ WriteEnds(w)
                        \/ ConfirmStep(w) \/ StrayArrives(w)
  \/ \E r \in Reg : Expire(r) \/ PanelSets(r)

Spec == Init /\ [][Next]_vars

\* The poll timer is rearmed after every poll and every re-read, and every
\* request ends (ModbusGateway, Termination); writes are finitely many, so the
\* timer is not put off for ever.  A lost frame is lost or taken some day.
Fairness ==
  /\ WF_vars(PollStep)
  /\ \A w \in Write : /\ WF_vars(WriteEnds(w))
                      /\ WF_vars(ConfirmStep(w))
                      /\ WF_vars(StrayArrives(w))

FairSpec == Spec /\ Fairness

-----------------------------------------------------------------------------
(* Properties *)

\* `decoded`: what an entity shows, and `register_is_available` but for the link.
Decoded(r) == IF optimistic[r] # NoValue THEN optimistic[r] ELSE data[r]
Available(r) == success /\ data[r] # NoValue

\* A value that was only written, not read, is never left standing: whoever
\* wrote to its group has a re-read under way that will take it down.
OverlayHasConfirm ==
  \A r \in Reg : optimistic[r] # NoValue =>
    \E w \in confirm : GroupOf[Target[w]] = GroupOf[r]

Uncovered(r) == optimistic[r] # NoValue /\ optimistic'[r] = NoValue

PollEnds == poll # 0 /\ poll' = 0

\* What comes up as a reading was read after the register's last write: when a
\* re-read that succeeds uncovers it, also one that another write asked for,
\* and when a poll ends, unless the write was acknowledged while it ran (NoUndo
\* shows what happens then).  A re-read that fails uncovers the old reading,
\* long before WRITE_OPTIMISTIC_TTL.
ReadingIsNewer ==
  [][/\ (\E w \in Write : RereadOk(w)) => \A r \in Reg : Uncovered(r) => r \in fresh'
     /\ PollEnds /\ success' =>
          \A r \in Reg : data'[r] # NoValue => r \in fresh' \cup during]_vars

\* A register that nobody else changes is shown as it is, or not at all, but
\* for one case: it was written after it was read, and the value written is
\* not, or no longer, shown in place of the reading.
ShownIsHeld ==
  \A r \in Reg \ foreign : \/ Decoded(r) \in {board[r], NoValue}
                           \/ r \notin fresh /\ optimistic[r] = NoValue

\* What the last poll could not read is unavailable, "which is honest rather
\* than stale" (`_async_update_data`), except that a re-read after a failure
\* of the whole tier brings back the readings from before it.
StaleOnlyAfterRevival ==
  ~revived => \A r \in Reg : Available(r) => r \notin stale

\* The docstring of `async_refresh_group`: once a re-read has shown a written
\* setpoint it is shown, and not taken back by a reading from before the write.
NoUndo ==
  [][\A r \in fresh : \/ r \in fresh'
                      \/ data'[r] = NoValue
                      \/ \E w \in Write : Target[w] = r /\ WriteOk(w)]_vars

\* When the writes and the failures are over, every entity is available and
\* shows what its register holds.
Converges == <>[](\A r \in Reg : Available(r) /\ Decoded(r) = board[r])
=============================================================================
