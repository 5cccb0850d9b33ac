-------------------------- MODULE BoardEntriesProofs --------------------------
(***************************************************************************)
(* How far an entry is where its flow has proved it to be.  The run        *)
(* `neighbour` shows an entry at a place no board has proved; the theorems *)
(* say how much of the address is proved all the same, which step loses    *)
(* the rest, and for which boards and buses nothing is lost.               *)
(***************************************************************************)
EXTENDS BoardEntries, TLAPS

\* The boards are no addresses: a serial number is no host and slave id.
BoardsAreNoPlaces == Board \cap Place = {}

EntryIsProved(i) == <<entry[i].host, entry[i].slave>> \in verified

\* Each half of the address of an entry, and with the slave id the wording, is
\* from a place where a board has proved itself.
HalvesAreProved ==
  \A i \in Id : entry[i] # None =>
    /\ \E s \in Slave : <<entry[i].host, s>> \in verified
    /\ \E h \in Host : <<h, entry[i].slave>> \in verified /\ entry[i].wording = Wording[h]

\* An entry named after its address is at that address.
NamedAfterItsPlace ==
  \A i \in Id : i \in Place /\ entry[i] # None =>
    <<entry[i].host, entry[i].slave>> = i /\ i \in verified

\* An entry at a proved place leaves it in one way only: a flow meets its board
\* at a slave id the entry does not have, and updates the host alone.
LostByRenumberingOnly ==
  [][\A i \in Id :
       entry[i] # None /\ EntryIsProved(i) /\ ~EntryIsProved(i)' =>
         \E b \in Board : /\ i = UniqueId(b) /\ place[b] # Nowhere
                          /\ entry'[i].host = place[b][1]
                          /\ entry'[i].slave # place[b][2]]_vars

-----------------------------------------------------------------------------
(* Types *)

TypeInv ==
  /\ place \in [Device -> Place \cup {Nowhere}]
  /\ flow \in [Flow -> [id : Id, target : Target] \cup {None}]
  /\ entry \in [Id -> Target \cup {None}]
  /\ verified \subseteq Place

\* What a flow makes of a board that answers.
LEMMA FoundIsTarget ==
  ASSUME TypeInv, NEW b \in Board, place[b] # Nowhere
  PROVE  /\ place[b] \in Place /\ UniqueId(b) \in Id /\ Found(b) \in Target
         /\ place[b] = <<place[b][1], place[b][2]>>
         /\ place[b][1] \in Host /\ place[b][2] \in Slave
<1>1. place[b] \in Place
  BY DEF TypeInv, Device
<1>2. PICK h \in Host, s \in Slave : place[b] = <<h, s>>
  BY <1>1 DEF Place
<1>3. place[b][1] = h /\ place[b][2] = s
  BY <1>2
<1>4. UniqueId(b) \in Id
  BY <1>1 DEF UniqueId, Id
<1>5. Found(b) \in Target
  BY <1>3 DEF Found, Target
<1> QED BY <1>1, <1>2, <1>3, <1>4, <1>5

LEMMA TypeStep == TypeInv /\ [Next]_vars => TypeInv'
<1> SUFFICES ASSUME TypeInv, [Next]_vars
             PROVE  TypeInv'
  OBVIOUS
<1>1. ASSUME NEW f \in Flow, CreateEntry(f)
      PROVE  TypeInv'
  <2>1. flow[f] \in [id : Id, target : Target]
    BY <1>1 DEF CreateEntry, TypeInv
  <2> QED BY <1>1, <2>1 DEF CreateEntry, TypeInv
<1>2. ASSUME NEW f \in Flow, NEW b \in Board, Proceed(f, b)
      PROVE  TypeInv'
  <2>1. place[b] # Nowhere
    BY <1>2 DEF Proceed, Proves
  <2>2. place[b] \in Place /\ [id |-> UniqueId(b), target |-> Found(b)] \in [id : Id, target : Target]
    BY <2>1, FoundIsTarget
  <2> QED BY <1>2, <2>2 DEF Proceed, Proves, TypeInv
<1>3. ASSUME NEW f \in Flow, NEW b \in Board, AlreadyConfigured(f, b)
      PROVE  TypeInv'
  <2>1. place[b] # Nowhere
    BY <1>3 DEF AlreadyConfigured, Proves
  <2> DEFINE i == UniqueId(b)
  <2>2. i \in Id /\ place[b] \in Place /\ place[b][1] \in Host
    BY <2>1, FoundIsTarget
  <2>3. entry[i] \in Target
    BY <1>3, <2>2 DEF AlreadyConfigured, TypeInv
  <2>4. [entry[i] EXCEPT !.host = place[b][1]] \in Target
    BY <2>2, <2>3 DEF Target
  <2>5. entry' = [entry EXCEPT ![i] = [entry[i] EXCEPT !.host = place[b][1]]]
    BY <1>3 DEF AlreadyConfigured
  <2> HIDE DEF i
  <2> QED BY <1>3, <2>2, <2>4, <2>5 DEF AlreadyConfigured, Proves, TypeInv
<1>4. ASSUME NEW d \in Device, Move(d)
      PROVE  TypeInv'
  BY <1>4 DEF Move, TypeInv
<1>5. CASE UNCHANGED vars
  BY <1>5 DEF vars, TypeInv
<1> QED BY <1>1, <1>2, <1>3, <1>4, <1>5 DEF Next

\* Every variable keeps its type.
THEOREM TypeCorrect == ASSUME MaxMoves \in Nat PROVE Spec => []TypeOK
<1>1. Init => TypeInv /\ moves \in 0..MaxMoves
  BY DEF Init, TypeInv
<1>2. TypeInv /\ moves \in 0..MaxMoves /\ [Next]_vars => (TypeInv /\ moves \in 0..MaxMoves)'
  <2>1. moves \in 0..MaxMoves /\ [Next]_vars => (moves \in 0..MaxMoves)'
    BY DEF Next, vars, CreateEntry, Proceed, AlreadyConfigured, Proves, Move
  <2> QED BY <2>1, TypeStep
<1>3. TypeInv /\ moves \in 0..MaxMoves => TypeOK
  BY DEF TypeInv, TypeOK
<1> QED BY <1>1, <1>2, <1>3, PTL DEF Spec

-----------------------------------------------------------------------------
(* Where the entries point *)

\* A flow in the middle of discovery goes by the place where its board answered.
FlowIsProved(f) ==
  LET t == flow[f].target
  IN  <<t.host, t.slave>> \in verified /\ t.wording = Wording[t.host]

Proved ==
  /\ TypeInv
  /\ \A f \in Flow : flow[f] # None => FlowIsProved(f)
  /\ HalvesAreProved

\* What is proved stays proved.
LEMMA ProofsStay == [Next]_vars => verified \subseteq verified'
  BY DEF Next, vars, CreateEntry, Proceed, AlreadyConfigured, Proves, Move

\* An entry or a flow that a step leaves alone stays as well proved as it was.
LEMMA UntouchedStay ==
  ASSUME Proved, verified \subseteq verified'
  PROVE  /\ \A f \in Flow : flow'[f] = flow[f] /\ flow'[f] # None => FlowIsProved(f)'
         /\ \A i \in Id : entry'[i] = entry[i] /\ entry'[i] # None =>
              /\ \E s \in Slave : <<entry'[i].host, s>> \in verified'
              /\ \E h \in Host : <<h, entry'[i].slave>> \in verified'
                                 /\ entry'[i].wording = Wording[h]
  BY DEF Proved, HalvesAreProved, FlowIsProved

LEMMA CreateProves ==
  ASSUME Proved, NEW f \in Flow, CreateEntry(f)
  PROVE  HalvesAreProved' /\ \A g \in Flow : flow'[g] # None => FlowIsProved(g)'
<1> DEFINE i == flow[f].id
           t == flow[f].target
<1>1. i \in Id /\ t \in Target
  BY DEF CreateEntry, Proved, TypeInv
<1>2. <<t.host, t.slave>> \in verified /\ t.wording = Wording[t.host]
  BY DEF CreateEntry, Proved, FlowIsProved
<1>3. t.host \in Host /\ t.slave \in Slave
  BY <1>1 DEF Target
<1>4. verified' = verified /\ entry' = [entry EXCEPT ![i] = t]
  BY DEF CreateEntry
<1>5. \A j \in Id : entry'[j] = (IF j = i THEN t ELSE entry[j])
  BY <1>1, <1>4 DEF Proved, TypeInv
<1>6. \A g \in Flow : flow'[g] # None => flow'[g] = flow[g]
  BY DEF CreateEntry, Proved, TypeInv
<1> HIDE DEF i, t
<1>7. HalvesAreProved'
  <2> SUFFICES ASSUME NEW j \in Id, entry'[j] # None
               PROVE  /\ \E s \in Slave : <<entry'[j].host, s>> \in verified'
                      /\ \E h \in Host : <<h, entry'[j].slave>> \in verified'
                                         /\ entry'[j].wording = Wording[h]
    BY DEF HalvesAreProved
  <2>1. CASE j = i
    BY <1>2, <1>3, <1>4, <1>5, <2>1
  <2>2. CASE j # i
    BY <1>4, <1>5, <2>2, UntouchedStay
  <2> QED BY <2>1, <2>2
<1> QED BY <1>4, <1>6, <1>7, UntouchedStay

LEMMA ProceedProves ==
  ASSUME Proved, NEW f \in Flow, NEW b \in Board, Proceed(f, b)
  PROVE  HalvesAreProved' /\ \A g \in Flow : flow'[g] # None => FlowIsProved(g)'
<1>1. place[b] # Nowhere /\ verified' = verified \cup {place[b]} /\ entry' = entry
  BY DEF Proceed, Proves
<1>2. place[b] = <<place[b][1], place[b][2]>>
  BY <1>1, FoundIsTarget DEF Proved
<1>3. \A g \in Flow : flow'[g] = (IF g = f THEN [id |-> UniqueId(b), target |-> Found(b)]
                                          ELSE flow[g])
  BY DEF Proceed, Proved, TypeInv
<1>4. FlowIsProved(f)'
  BY <1>1, <1>2, <1>3 DEF FlowIsProved, Found
<1> QED BY <1>1, <1>3, <1>4, UntouchedStay DEF HalvesAreProved

LEMMA UpdateProves ==
  ASSUME Proved, NEW f \in Flow, NEW b \in Board, AlreadyConfigured(f, b)
  PROVE  HalvesAreProved' /\ \A g \in Flow : flow'[g] # None => FlowIsProved(g)'
<1> DEFINE i == UniqueId(b)
<1>1. /\ place[b] # Nowhere /\ verified' = verified \cup {place[b]} /\ flow' = flow
      /\ entry[i] # None /\ entry' = [entry EXCEPT ![i].host = place[b][1]]
  BY DEF AlreadyConfigured, Proves
<1>2. place[b] = <<place[b][1], place[b][2]>> /\ place[b][2] \in Slave /\ i \in Id
  BY <1>1, FoundIsTarget DEF Proved
<1>3. entry[i] \in Target
  BY <1>1, <1>2 DEF Proved, TypeInv
<1>4. \A j \in Id : j # i => entry'[j] = entry[j]
  BY <1>1, <1>2 DEF Proved, TypeInv
<1>5. entry'[i] = [entry[i] EXCEPT !.host = place[b][1]]
  BY <1>1, <1>2 DEF Proved, TypeInv
<1>6. /\ entry'[i].host = place[b][1] /\ entry'[i].slave = entry[i].slave
      /\ entry'[i].wording = entry[i].wording
  BY <1>3, <1>5 DEF Target
<1>7. \E h \in Host : <<h, entry[i].slave>> \in verified /\ entry[i].wording = Wording[h]
  BY <1>1, <1>2 DEF Proved, HalvesAreProved
<1> HIDE DEF i
<1>8. HalvesAreProved'
  <2> SUFFICES ASSUME NEW j \in Id, entry'[j] # None
               PROVE  /\ \E s \in Slave : <<entry'[j].host, s>> \in verified'
                      /\ \E h \in Host : <<h, entry'[j].slave>> \in verified'
                                         /\ entry'[j].wording = Wording[h]
    BY DEF HalvesAreProved
  <2>1. CASE j = i
    BY <1>1, <1>2, <1>6, <1>7, <2>1
  <2>2. CASE j # i
    BY <1>1, <1>4, <2>2, UntouchedStay
  <2> QED BY <2>1, <2>2
<1> QED BY <1>1, <1>8, UntouchedStay

LEMMA ProvedStep == Proved /\ [Next]_vars => Proved'
<1> SUFFICES ASSUME Proved, [Next]_vars
             PROVE  HalvesAreProved' /\ \A g \in Flow : flow'[g] # None => FlowIsProved(g)'
  BY TypeStep DEF Proved
<1>1. ASSUME NEW d \in Device, Move(d)
      PROVE  HalvesAreProved' /\ \A g \in Flow : flow'[g] # None => FlowIsProved(g)'
  BY <1>1, UntouchedStay DEF Move, HalvesAreProved
<1>2. CASE UNCHANGED vars
  BY <1>2, UntouchedStay DEF vars, HalvesAreProved
<1> QED BY <1>1, <1>2, CreateProves, ProceedProves, UpdateProves DEF Next

LEMMA ProvedInvariant == Spec => []Proved
<1>1. Init => Proved
  BY DEF Init, Proved, TypeInv, HalvesAreProved
<1> QED BY <1>1, ProvedStep, PTL DEF Spec

\* Whatever is moved and renumbered, the gateway of an entry is one where a
\* board has proved itself, and its slave id and wording are those of another
\* such proof: what `neighbour` mixes is two proved addresses, no more.
THEOREM HalvesOfProofs == Spec => []HalvesAreProved
  BY ProvedInvariant, PTL DEF Proved

\* Where every board answers to the same slave id, an entry reads and writes
\* only where a board has proved itself.
THEOREM OneSlaveIdIsSafe ==
  ASSUME NEW s, Slave = {s}
  PROVE  Spec => []OnlyWhereProved
<1>1. Proved => OnlyWhereProved
  <2> SUFFICES ASSUME Proved, NEW i \in Id, entry[i] # None
               PROVE  <<entry[i].host, entry[i].slave>> \in verified
    BY DEF OnlyWhereProved
  <2>1. entry[i].slave = s
    BY DEF Proved, TypeInv, Target
  <2>2. \E r \in Slave : <<entry[i].host, r>> \in verified
    BY DEF Proved, HalvesAreProved
  <2> QED BY <2>1, <2>2
<1> QED BY <1>1, ProvedInvariant, PTL

-----------------------------------------------------------------------------
(* Entries named after their address *)

NamedInv ==
  /\ Proved
  /\ \A f \in Flow : flow[f] # None /\ flow[f].id \in Place =>
       flow[f].id = <<flow[f].target.host, flow[f].target.slave>>
  /\ NamedAfterItsPlace

\* A board whose id is an address has no serial number, and is at that address.
LEMMA NamedByPlace ==
  ASSUME BoardsAreNoPlaces, NEW b \in Board, UniqueId(b) \in Place
  PROVE  UniqueId(b) = place[b]
  BY DEF BoardsAreNoPlaces, UniqueId

LEMMA NamedStep ==
  ASSUME BoardsAreNoPlaces
  PROVE  NamedInv /\ [Next]_vars => NamedInv'
<1> SUFFICES ASSUME NamedInv, [Next]_vars
             PROVE  NamedInv'
  OBVIOUS
<1>0. Proved' /\ verified \subseteq verified'
  BY ProvedStep, ProofsStay DEF NamedInv
<1>1. ASSUME NEW f \in Flow, CreateEntry(f)
      PROVE  NamedInv'
  <2>1. /\ flow[f].id \in Id /\ verified' = verified
        /\ \A j \in Id : entry'[j] = (IF j = flow[f].id THEN flow[f].target ELSE entry[j])
        /\ \A g \in Flow : flow'[g] # None => flow'[g] = flow[g]
    BY <1>1 DEF CreateEntry, NamedInv, Proved, TypeInv
  <2>2. <<flow[f].target.host, flow[f].target.slave>> \in verified
    BY <1>1 DEF CreateEntry, NamedInv, Proved, FlowIsProved
  <2>3. NamedAfterItsPlace'
    BY <1>1, <2>1, <2>2 DEF CreateEntry, NamedInv, NamedAfterItsPlace
  <2> QED BY <1>0, <2>1, <2>3 DEF NamedInv
<1>2. ASSUME NEW f \in Flow, NEW b \in Board, Proceed(f, b)
      PROVE  NamedInv'
  <2>1. place[b] # Nowhere /\ entry' = entry
    BY <1>2 DEF Proceed, Proves
  <2>2. place[b] = <<place[b][1], place[b][2]>>
    BY <2>1, FoundIsTarget DEF NamedInv, Proved
  <2>3. \A g \in Flow : flow'[g] = (IF g = f THEN [id |-> UniqueId(b), target |-> Found(b)]
                                            ELSE flow[g])
    BY <1>2 DEF Proceed, NamedInv, Proved, TypeInv
  <2>4. \A g \in Flow : flow'[g] # None /\ flow'[g].id \in Place =>
          flow'[g].id = <<flow'[g].target.host, flow'[g].target.slave>>
    BY <2>2, <2>3, NamedByPlace DEF NamedInv, Found
  <2>5. NamedAfterItsPlace'
    BY <1>0, <2>1 DEF NamedInv, NamedAfterItsPlace
  <2> QED BY <1>0, <2>4, <2>5 DEF NamedInv
<1>3. ASSUME NEW f \in Flow, NEW b \in Board, AlreadyConfigured(f, b)
      PROVE  NamedInv'
  <2> DEFINE i == UniqueId(b)
  <2>1. /\ place[b] # Nowhere /\ flow' = flow /\ entry[i] # None
        /\ entry' = [entry EXCEPT ![i].host = place[b][1]]
    BY <1>3 DEF AlreadyConfigured, Proves
  <2>2. i \in Id /\ entry \in [Id -> Target \cup {None}]
    BY <2>1, FoundIsTarget DEF NamedInv, Proved, TypeInv
  <2>3. /\ \A j \in Id : j # i => entry'[j] = entry[j]
        /\ entry'[i] = [entry[i] EXCEPT !.host = place[b][1]] /\ entry[i] \in Target
    BY <2>1, <2>2
  <2>4. entry'[i].host = place[b][1] /\ entry'[i].slave = entry[i].slave
    BY <2>3 DEF Target
  <2>5. i \in Place => i[1] = place[b][1]
    BY NamedByPlace
  <2>6. i \in Place => <<entry[i].host, entry[i].slave>> = i /\ i \in verified
    BY <2>1, <2>2 DEF NamedInv, NamedAfterItsPlace
  <2> HIDE DEF i
  <2>7. i \in Place => <<entry'[i].host, entry'[i].slave>> = i
    BY <2>4, <2>5, <2>6
  <2>8. NamedAfterItsPlace'
    <3> SUFFICES ASSUME NEW j \in Id, j \in Place, entry'[j] # None
                 PROVE  <<entry'[j].host, entry'[j].slave>> = j /\ j \in verified'
      BY DEF NamedAfterItsPlace
    <3>1. CASE j = i
      BY <1>0, <2>6, <2>7, <3>1
    <3>2. CASE j # i
      BY <1>0, <2>3, <3>2 DEF NamedInv, NamedAfterItsPlace
    <3> QED BY <3>1, <3>2
  <2> QED BY <1>0, <2>1, <2>8 DEF NamedInv
<1>4. ASSUME NEW d \in Device, Move(d)
      PROVE  NamedInv'
  BY <1>0, <1>4 DEF Move, NamedInv, NamedAfterItsPlace
<1>5. CASE UNCHANGED vars
  BY <1>0, <1>5 DEF vars, NamedInv, NamedAfterItsPlace
<1> QED BY <1>1, <1>2, <1>3, <1>4, <1>5 DEF Next

\* An entry of a board without a serial number, named after the address where
\* the board proved itself, stays at exactly that address.
THEOREM NamedEntriesStay ==
  ASSUME BoardsAreNoPlaces
  PROVE  Spec => []NamedAfterItsPlace
<1>1. Init => NamedInv
  BY DEF Init, NamedInv, NamedAfterItsPlace, Proved, TypeInv, HalvesAreProved
<1>2. NamedInv => NamedAfterItsPlace
  BY DEF NamedInv
<1> QED BY <1>1, <1>2, NamedStep, PTL DEF Spec

\* So with boards that report no serial number an entry reads and writes only
\* where a board has proved itself.
COROLLARY WithoutSerialsSafe ==
  ASSUME BoardsAreNoPlaces, Board \subseteq NoSerial
  PROVE  Spec => []OnlyWhereProved
<1>1. NamedAfterItsPlace => OnlyWhereProved
  BY DEF NamedAfterItsPlace, OnlyWhereProved, Id
<1> QED BY <1>1, NamedEntriesStay, PTL

-----------------------------------------------------------------------------
(* How a proved address is lost *)

\* An entry that is at a proved place stays at one until a flow meets its board
\* at another slave id: then the flow updates the host and keeps the old id.
THEOREM OnlyRenumberedBoardsAreLost == Spec => LostByRenumberingOnly
<1> DEFINE Lost(i) == entry[i] # None /\ EntryIsProved(i) /\ ~EntryIsProved(i)'
           How(i) == \E b \in Board : /\ i = UniqueId(b) /\ place[b] # Nowhere
                                      /\ entry'[i].host = place[b][1]
                                      /\ entry'[i].slave # place[b][2]
<1>1. ASSUME Proved, [Next]_vars, NEW i \in Id, Lost(i)
      PROVE  How(i)
  <2>0. verified \subseteq verified'
    BY <1>1, ProofsStay
  <2>1. entry'[i] # entry[i]
    BY <1>1, <2>0 DEF EntryIsProved
  <2>2. ASSUME NEW f \in Flow, CreateEntry(f)
        PROVE  FALSE
    <3>1. entry'[i] = flow[f].target /\ flow[f] # None /\ verified' = verified
      BY <1>1, <2>1, <2>2 DEF CreateEntry, Proved, TypeInv
    <3> QED BY <1>1, <3>1 DEF EntryIsProved, Proved, FlowIsProved
  <2>3. ASSUME NEW f \in Flow, NEW b \in Board, AlreadyConfigured(f, b)
        PROVE  How(i)
    <3>1. /\ place[b] # Nowhere /\ i = UniqueId(b) /\ place[b] \in verified'
          /\ entry'[i] = [entry[i] EXCEPT !.host = place[b][1]]
      BY <1>1, <2>1, <2>3 DEF AlreadyConfigured, Proves, Proved, TypeInv
    <3>2. entry[i] \in Target
      BY <1>1 DEF Proved, TypeInv
    <3>3. entry'[i].host = place[b][1] /\ entry'[i].slave = entry[i].slave
      BY <3>1, <3>2 DEF Target
    <3>4. place[b] = <<place[b][1], place[b][2]>>
      BY <1>1, <3>1, FoundIsTarget DEF Proved
    <3>5. entry'[i].slave # place[b][2]
      BY <1>1, <3>1, <3>3, <3>4 DEF EntryIsProved
    <3> QED BY <3>1, <3>3, <3>5
  <2> QED
    BY <1>1, <2>1, <2>2, <2>3 DEF Next, vars, Proceed, Move
<1>2. Proved /\ [Next]_vars => [\A i \in Id : Lost(i) => How(i)]_vars
  BY <1>1
<1> HIDE DEF Lost, How
<1>3. Spec => [][\A i \in Id : Lost(i) => How(i)]_vars
  BY <1>2, ProvedInvariant, PTL DEF Spec
<1> USE DEF Lost, How
<1> QED BY <1>3 DEF LostByRenumberingOnly
=============================================================================
