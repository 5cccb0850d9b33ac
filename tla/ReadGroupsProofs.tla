-------------------------- MODULE ReadGroupsProofs --------------------------
(***************************************************************************)
(* Proofs about ReadGroups, for every register map without overlaps, every *)
(* choice of registers to poll and every limit.                            *)
(***************************************************************************)
EXTENDS ReadGroups, SequenceTheorems, TLAPS

USE MapAssumption

-----------------------------------------------------------------------------
(* The inductive invariant *)

\* What was visited lies below what was not, what was flushed below what is
\* being built, and no register is forgotten.
InOrder ==
  /\ \A r \in current, s \in todo : End(r) < Start(s)
  /\ \A g \in groups, s \in current \cup todo : g.start + g.count <= Start(s)
  /\ wanted = todo \cup current \cup UNION {g.registers : g \in groups}

\* A register opens the group being built and a register closes it.
CurrentBounds ==
  current # {} => \E f, l \in current :
                    \A s \in current : Start(f) <= Start(s) /\ End(s) <= End(l)

\* The span of the group being built has no hole.
CurrentWhole ==
  current # {} => \A a \in First(current)..Last(current) :
                    a \in known \/ \E r \in wanted : a \in Addresses(r)

\* The requests ask for different addresses.
SpansApart ==
  \A g, h \in groups : g # h => g.start + g.count <= h.start \/ h.start + h.count <= g.start

\* No register beyond a group could have been read with the one that opens it.
ClosedInTime ==
  \A g \in groups : \A r \in g.registers, s \in wanted :
    Start(r) = g.start /\ g.start + g.count <= Start(s) => ~Together(r, s)

IInv == /\ TypeOK /\ InOrder /\ CurrentBounds /\ CurrentWhole /\ SpansApart
        /\ WithinLimit /\ EveryRegisterOnce /\ NothingButImplemented
        /\ ClosedInTime /\ DecodedFromItsWords

-----------------------------------------------------------------------------
(* Registers and bounds *)

\* A register has one or two addresses, which are numbers.
LEMMA RegisterFacts ==
  \A r \in Map : /\ Start(r) \in Nat /\ End(r) \in Nat /\ r.length \in 1..2
                 /\ Start(r) <= End(r) /\ End(r) = Start(r) + r.length - 1
  BY DEF Start, End

\* Registers do not overlap, so one that starts first also ends first.
LEMMA InSequence ==
  ASSUME NEW r \in Map, NEW s \in Map, r # s, Start(r) <= Start(s)
  PROVE  End(r) < Start(s)
<1>1. Start(s) \in Addresses(s)
  BY RegisterFacts DEF Addresses
<1>2. Start(s) \notin Addresses(r)
  BY <1>1
<1> QED BY <1>2, RegisterFacts DEF Addresses

\* A lower bound that is a member is the least member.
LEMMA LeastIs ==
  ASSUME NEW S \in SUBSET Int, NEW a \in S, \A b \in S : a <= b
  PROVE  Least(S) = a
<1>1. \A c \in S : (\A b \in S : c <= b) => c = a
  OBVIOUS
<1> QED BY <1>1 DEF Least

\* An upper bound that is a member is the greatest member.
LEMMA GreatestIs ==
  ASSUME NEW S \in SUBSET Int, NEW a \in S, \A b \in S : a >= b
  PROVE  Greatest(S) = a
<1>1. \A c \in S : (\A b \in S : c >= b) => c = a
  OBVIOUS
<1> QED BY <1>1 DEF Greatest

\* The register that opens a group and the one that closes it give its bounds.
LEMMA BoundsAre ==
  ASSUME NEW rs \in SUBSET Map, NEW f \in rs, NEW l \in rs,
         \A s \in rs : Start(f) <= Start(s) /\ End(s) <= End(l)
  PROVE  First(rs) = Start(f) /\ Last(rs) = End(l)
<1>1. {Start(r) : r \in rs} \in SUBSET Int /\ {End(r) : r \in rs} \in SUBSET Int
  BY RegisterFacts
<1>2. First(rs) = Start(f)
  BY <1>1, LeastIs DEF First
<1>3. Last(rs) = End(l)
  <2>1. \A e \in {End(r) : r \in rs} : End(l) >= e
    BY RegisterFacts
  <2> QED BY <1>1, <2>1, GreatestIs DEF Last
<1> QED BY <1>2, <1>3

\* The bounds of the group being built.
LEMMA CurrentFacts ==
  ASSUME IInv, current # {}
  PROVE  /\ \E f \in current : Start(f) = First(current)
         /\ First(current) \in Nat /\ Last(current) \in Nat
         /\ First(current) <= Last(current)
         /\ \A s \in current : First(current) <= Start(s) /\ End(s) <= Last(current)
         /\ \A s \in todo : Last(current) < Start(s)
<1>1. current \subseteq Map /\ todo \subseteq Map
  BY DEF IInv, TypeOK
<1>2. PICK f \in current, l \in current :
        \A s \in current : Start(f) <= Start(s) /\ End(s) <= End(l)
  BY DEF IInv, CurrentBounds
<1>3. First(current) = Start(f) /\ Last(current) = End(l)
  BY <1>1, <1>2, BoundsAre
<1> QED BY <1>1, <1>2, <1>3, RegisterFacts DEF IInv, InOrder

\* The registers not yet visited lie beyond the one that is visited.
LEMMA VisitFacts ==
  ASSUME IInv, NEW r \in Map, Visits(r)
  PROVE  \A s \in todo \ {r} : End(r) < Start(s)
  BY InSequence DEF Visits, IInv, TypeOK

-----------------------------------------------------------------------------
(* Flushing *)

Flush == [start |-> First(current), count |-> Last(current) - First(current) + 1,
          registers |-> current]

\* The group a flush adds keeps to the rules and lies beyond those before it.
LEMMA FlushFacts ==
  ASSUME IInv, current # {}
  PROVE  /\ Flushed = groups \cup {Flush}
         /\ Flush \in Group /\ Flush.count <= limit
         /\ \A r \in current : Addresses(r) \subseteq Span(Flush)
         /\ \A a \in Span(Flush) : a \in known \/ \E r \in wanted : a \in Addresses(r)
         /\ \A g \in groups : g.start + g.count <= Flush.start
<1>1. Flushed = groups \cup {Flush}
  BY DEF Flushed, Flush
<1>2. /\ Flush.start = First(current) /\ Flush.registers = current
      /\ Flush.count = Last(current) - First(current) + 1
  BY DEF Flush
<1>3. Flush \in Group /\ Flush.count <= limit
  <2>1. current \subseteq Map
    BY DEF IInv, TypeOK
  <2> QED BY <2>1, CurrentFacts DEF Flush, Group, IInv, WithinLimit
<1>4. Span(Flush) = First(current)..Last(current)
  BY <1>2, CurrentFacts DEF Span
<1>5. \A r \in current : Addresses(r) \subseteq Span(Flush)
  BY <1>4, CurrentFacts, RegisterFacts DEF Addresses, IInv, TypeOK
<1>6. \A a \in Span(Flush) : a \in known \/ \E r \in wanted : a \in Addresses(r)
  BY <1>4 DEF IInv, CurrentWhole
<1>7. \A g \in groups : g.start + g.count <= Flush.start
  BY <1>2, CurrentFacts DEF IInv, InOrder
<1> QED BY <1>1, <1>3, <1>5, <1>6, <1>7

\* The registers of a group belong to no other.
LEMMA FlushApart ==
  ASSUME IInv, current # {}, NEW g \in groups
  PROVE  g # Flush /\ g.registers \cap current = {}
<1>1. g \in Group /\ current \subseteq Map
  BY DEF IInv, TypeOK
<1>2. g.start + g.count <= Flush.start /\ Flush.start \in Nat
  BY FlushFacts DEF Group
<1>3. g # Flush
  BY <1>1, <1>2 DEF Group
<1>4. ASSUME NEW r \in g.registers, r \in current
      PROVE  FALSE
  <2>1. Start(r) \in Addresses(r)
    BY <1>1, <1>4, RegisterFacts DEF Addresses
  <2>2. Start(r) \in Span(g)
    BY <2>1 DEF IInv, EveryRegisterOnce
  <2>3. g.start + g.count <= Start(r)
    BY <1>4 DEF IInv, InOrder
  <2> QED BY <1>1, <1>4, <2>2, <2>3, RegisterFacts DEF Span, Group
<1> QED BY <1>3, <1>4

\* A flush keeps the rules about groups.
LEMMA FlushKeeps ==
  ASSUME IInv, current # {}, groups' = Flushed, UNCHANGED <<wanted, limit, known>>
  PROVE  /\ groups' \subseteq Group /\ SpansApart' /\ NothingButImplemented'
         /\ \A g \in groups' : g.count <= limit
         /\ \A g \in groups' : \A r \in g.registers : Addresses(r) \subseteq Span(g)
         /\ \A g, h \in groups' : g # h => g.registers \cap h.registers = {}
         /\ UNION {g.registers : g \in groups'}
              = current \cup UNION {g.registers : g \in groups}
<1>1. /\ groups' = groups \cup {Flush}
      /\ Flush \in Group /\ Flush.count <= limit
      /\ \A r \in current : Addresses(r) \subseteq Span(Flush)
      /\ \A a \in Span(Flush) : a \in known \/ \E r \in wanted : a \in Addresses(r)
      /\ \A g \in groups : g.start + g.count <= Flush.start
  BY FlushFacts
<1>2. Flush.registers = current
  BY DEF Flush
<1>3. groups' \subseteq Group /\ SpansApart'
  BY <1>1 DEF IInv, TypeOK, SpansApart
<1>4. NothingButImplemented'
  BY <1>1 DEF IInv, NothingButImplemented
<1>5. /\ \A g \in groups' : g.count <= limit
      /\ \A g \in groups' : \A r \in g.registers : Addresses(r) \subseteq Span(g)
  BY <1>1, <1>2 DEF IInv, WithinLimit, EveryRegisterOnce
<1>6. \A g, h \in groups' : g # h => g.registers \cap h.registers = {}
  BY <1>1, <1>2, FlushApart DEF IInv, EveryRegisterOnce
<1> QED BY <1>1, <1>2, <1>3, <1>4, <1>5, <1>6

-----------------------------------------------------------------------------
(* The steps *)

\* Nothing is visited or built to begin with.
LEMMA InitIInv == Init => IInv
<1> SUFFICES ASSUME Init PROVE IInv
  OBVIOUS
<1>1. TypeOK
  BY DEF Init, TypeOK
<1>2. InOrder /\ CurrentBounds /\ CurrentWhole /\ SpansApart /\ ClosedInTime
  BY DEF Init, InOrder, CurrentBounds, CurrentWhole, SpansApart, ClosedInTime
<1>3. WithinLimit /\ EveryRegisterOnce /\ NothingButImplemented /\ DecodedFromItsWords
  BY DEF Init, WithinLimit, EveryRegisterOnce, NothingButImplemented, DecodedFromItsWords
<1> QED BY <1>1, <1>2, <1>3 DEF IInv

\* A group that is opened by a register has its bounds.
LEMMA SingleFacts ==
  ASSUME NEW r \in Map
  PROVE  First({r}) = Start(r) /\ Last({r}) = End(r)
  BY BoundsAre, RegisterFacts

\* A register added to the group being built moves its upper bound only.
LEMMA ExtendFacts ==
  ASSUME IInv, NEW r \in Map, Visits(r), current # {}
  PROVE  /\ First(current \cup {r}) = First(current) /\ Last(current \cup {r}) = End(r)
         /\ \A s \in current \cup {r} : First(current) <= Start(s) /\ End(s) <= End(r)
<1>1. PICK f \in current : Start(f) = First(current)
  BY CurrentFacts
<1>2. r \in todo /\ current \cup {r} \in SUBSET Map
  BY DEF Visits, IInv, TypeOK
<1>3. \A s \in current \cup {r} : Start(f) <= Start(s) /\ End(s) <= End(r)
  BY <1>1, <1>2, CurrentFacts, RegisterFacts
<1> QED BY <1>1, <1>2, <1>3, BoundsAre

\* Extending a group keeps it within the limit and without a hole.
LEMMA ExtendIInv ==
  ASSUME IInv, NEW r \in Map, Extend(r)
  PROVE  IInv'
<1>1. /\ r \in todo /\ Visits(r) /\ r.length <= limit
      /\ todo' = todo \ {r} /\ current' = current \cup {r}
      /\ UNCHANGED <<wanted, limit, known, groups, phase, values>>
      /\ current # {} => Bridgeable(r) /\ Fits(r)
  BY DEF Extend, Visits, Take, inputs
<1>2. TypeOK'
  BY <1>1 DEF IInv, TypeOK
<1>3. InOrder'
  <2>1. \A s \in current', t \in todo' : End(s) < Start(t)
    BY <1>1, VisitFacts DEF IInv, InOrder
  <2> QED BY <1>1, <2>1 DEF IInv, InOrder
<1>4. SpansApart' /\ EveryRegisterOnce' /\ NothingButImplemented' /\ ClosedInTime'
      /\ DecodedFromItsWords'
  <2>1. todo' \cup current' = todo \cup current
    BY <1>1
  <2>2. EveryRegisterOnce'
    BY <1>1, <2>1 DEF IInv, EveryRegisterOnce
  <2> QED BY <1>1, <2>2 DEF IInv, SpansApart, NothingButImplemented, ClosedInTime,
                           Together, DecodedFromItsWords
<1>5. CASE current = {}
  <2>1. current' = {r}
    BY <1>1, <1>5
  <2>2. CurrentBounds' /\ WithinLimit'
    BY <1>1, <2>1, SingleFacts, RegisterFacts DEF IInv, CurrentBounds, WithinLimit
  <2>3. CurrentWhole'
    <3>1. First(current')..Last(current') = Addresses(r)
      BY <2>1, SingleFacts DEF Addresses
    <3>2. r \in wanted
      BY <1>1 DEF IInv, TypeOK
    <3> QED BY <1>1, <3>1, <3>2 DEF CurrentWhole
  <2> QED BY <1>2, <1>3, <1>4, <2>2, <2>3 DEF IInv
<1>6. CASE current # {}
  <2>1. /\ First(current') = First(current) /\ Last(current') = End(r)
        /\ \A s \in current' : First(current) <= Start(s) /\ End(s) <= End(r)
    BY <1>1, <1>6, ExtendFacts
  <2>2. PICK f \in current : Start(f) = First(current)
    BY <1>6, CurrentFacts
  <2>3. CurrentBounds'
    BY <1>1, <2>1, <2>2 DEF CurrentBounds
  <2>4. WithinLimit'
    BY <1>1, <1>6, <2>1 DEF IInv, WithinLimit, Fits
  <2>5. CurrentWhole'
    <3>1. SUFFICES ASSUME NEW a \in First(current)..End(r)
                   PROVE  a \in known \/ \E s \in wanted : a \in Addresses(s)
      BY <1>1, <2>1 DEF CurrentWhole
    <3>2. CASE a <= Last(current)
      BY <1>6, <3>2, CurrentFacts, RegisterFacts DEF IInv, CurrentWhole
    <3>3. CASE a > Last(current) /\ a < Start(r)
      BY <1>1, <1>6, <3>3, CurrentFacts, RegisterFacts DEF Bridgeable
    <3>4. CASE a >= Start(r)
      <4>1. a \in Addresses(r)
        BY <3>4, RegisterFacts DEF Addresses
      <4> QED BY <1>1, <4>1 DEF IInv, TypeOK
    <3> QED BY <1>6, <3>2, <3>3, <3>4, CurrentFacts, RegisterFacts
  <2> QED BY <1>2, <1>3, <1>4, <2>3, <2>4, <2>5 DEF IInv
<1> QED BY <1>5, <1>6

\* A split is due: what comes cannot be read together with what opened the group.
LEMMA SplitInTime ==
  ASSUME IInv, NEW r \in Map, Split(r), NEW f \in current, Start(f) = First(current),
         NEW s \in wanted, Last(current) < Start(s)
  PROVE  ~Together(f, s)
<1>1. /\ Visits(r) /\ current # {} /\ r \in todo /\ ~(Bridgeable(r) /\ Fits(r))
  BY DEF Split, Visits
<1>2. s \in Map /\ f \in Map
  BY DEF IInv, TypeOK
<1>3. s \in todo
  <2>1. s \notin current
    BY <1>1, <1>2, CurrentFacts, RegisterFacts
  <2>2. ASSUME NEW g \in groups, s \in g.registers
        PROVE  FALSE
    <3>1. Start(s) < g.start + g.count
      <4>1. Start(s) \in Addresses(s)
        BY <1>2, RegisterFacts DEF Addresses
      <4> QED BY <2>2, <4>1 DEF IInv, EveryRegisterOnce, TypeOK, Group, Span
    <3>2. g.start + g.count <= Start(f)
      BY DEF IInv, InOrder
    <3> QED BY <1>1, <1>2, <3>1, <3>2, CurrentFacts, RegisterFacts
              DEF IInv, TypeOK, Group
  <2> QED BY <2>1, <2>2 DEF IInv, InOrder
<1>4. Start(r) <= Start(s) /\ End(r) <= End(s)
  <2>1. Start(r) <= Start(s)
    BY <1>1, <1>3 DEF Visits
  <2> QED BY <1>2, <2>1, InSequence, RegisterFacts
<1>5. Start(f) <= Start(s) /\ End(f) <= End(s)
  BY <1>1, <1>2, CurrentFacts, RegisterFacts
<1>6. Greatest({End(f), End(s)}) = End(s) /\ Least({Start(f), Start(s)}) = Start(f)
  <2>1. {End(f), End(s)} \in SUBSET Int /\ {Start(f), Start(s)} \in SUBSET Int
    BY <1>2, RegisterFacts
  <2>2. /\ \A b \in {End(f), End(s)} : End(s) >= b
        /\ \A b \in {Start(f), Start(s)} : Start(f) <= b
    BY <1>2, <1>5, RegisterFacts
  <2>3. Greatest({End(f), End(s)}) = End(s)
    BY <2>1, <2>2, GreatestIs
  <2>4. Least({Start(f), Start(s)}) = Start(f)
    BY <2>1, <2>2, LeastIs
  <2> QED BY <2>3, <2>4
<1>7. CASE ~Fits(r)
  BY <1>1, <1>2, <1>4, <1>6, <1>7, CurrentFacts, RegisterFacts
     DEF Fits, Together, IInv, TypeOK
<1>8. CASE ~Bridgeable(r)
  <2>1. PICK a \in Last(current) + 1 .. Start(r) - 1 : a \notin known
    BY <1>8 DEF Bridgeable
  <2>2. a \in Int /\ Last(current) < a /\ a < Start(r)
    BY <1>1, <2>1, CurrentFacts, RegisterFacts
  <2>3. ASSUME NEW t \in wanted, a \in Addresses(t)
        PROVE  FALSE
    <3>1. t \in Map /\ Start(t) <= a /\ a <= End(t)
      BY <2>2, <2>3, RegisterFacts DEF Addresses, IInv, TypeOK
    <3>2. CASE t \in todo
      BY <1>1, <2>2, <3>1, <3>2, RegisterFacts DEF Visits
    <3>3. CASE t \in current
      BY <1>1, <2>2, <3>1, <3>3, CurrentFacts, RegisterFacts
    <3>4. ASSUME NEW g \in groups, t \in g.registers
          PROVE  FALSE
      <4>1. g \in Group /\ a \in Span(g)
        BY <2>3, <3>4 DEF IInv, EveryRegisterOnce, TypeOK
      <4>2. g.start + g.count <= Start(f)
        BY DEF IInv, InOrder
      <4> QED BY <1>1, <2>2, <4>1, <4>2, CurrentFacts DEF Span, Group
    <3> QED BY <3>2, <3>3, <3>4 DEF IInv, InOrder
  <2>4. a \in Start(f)..Start(s)
    BY <1>1, <1>2, <1>4, <2>2, CurrentFacts, RegisterFacts
  <2> QED BY <2>1, <2>3, <2>4 DEF Together
<1> QED BY <1>1, <1>7, <1>8

\* Starting a new group keeps the rules and leaves none to be joined.
LEMMA SplitIInv ==
  ASSUME IInv, NEW r \in Map, Split(r)
  PROVE  IInv'
<1>1. /\ r \in todo /\ Visits(r) /\ r.length <= limit /\ current # {}
      /\ todo' = todo \ {r} /\ current' = {r} /\ groups' = Flushed
      /\ UNCHANGED <<wanted, limit, known, phase, values>>
  BY DEF Split, Visits, Take, inputs
<1>2. /\ groups' \subseteq Group /\ SpansApart' /\ NothingButImplemented'
      /\ \A g \in groups' : g.count <= limit
      /\ \A g \in groups' : \A s \in g.registers : Addresses(s) \subseteq Span(g)
      /\ \A g, h \in groups' : g # h => g.registers \cap h.registers = {}
      /\ UNION {g.registers : g \in groups'}
           = current \cup UNION {g.registers : g \in groups}
  BY <1>1, FlushKeeps
<1>3. /\ groups' = groups \cup {Flush} /\ Flush.registers = current
      /\ Flush.start = First(current) /\ Flush.start + Flush.count = Last(current) + 1
  BY <1>1, FlushFacts, CurrentFacts DEF Flush
<1>4. TypeOK'
  BY <1>1, <1>2 DEF IInv, TypeOK
<1>5. InOrder'
  <2>1. \A s \in todo' : End(r) < Start(s)
    BY <1>1, VisitFacts
  <2>2. \A s \in {r} \cup todo' : Last(current) + 1 <= Start(s)
    BY <1>1, CurrentFacts, RegisterFacts DEF IInv, TypeOK
  <2>3. \A g \in groups, s \in {r} \cup todo' : g.start + g.count <= Start(s)
    BY <1>1 DEF IInv, InOrder
  <2>4. wanted = todo' \cup {r} \cup UNION {g.registers : g \in groups'}
    BY <1>1, <1>2 DEF IInv, InOrder
  <2> QED BY <1>1, <1>3, <2>1, <2>2, <2>3, <2>4 DEF InOrder
<1>6. CurrentBounds' /\ WithinLimit'
  BY <1>1, <1>2, SingleFacts, RegisterFacts DEF CurrentBounds, WithinLimit, IInv, TypeOK
<1>7. CurrentWhole'
  <2>1. First(current')..Last(current') = Addresses(r)
    BY <1>1, SingleFacts DEF Addresses
  <2> QED BY <1>1, <2>1 DEF CurrentWhole, IInv, TypeOK
<1>8. EveryRegisterOnce'
  BY <1>2, <1>5 DEF EveryRegisterOnce, InOrder
<1>9. ClosedInTime'
  <2>1. SUFFICES ASSUME NEW g \in groups', NEW f \in g.registers, NEW s \in wanted,
                        Start(f) = g.start, g.start + g.count <= Start(s)
                 PROVE  ~Together(f, s)
    BY <1>1 DEF ClosedInTime, Together
  <2>2. CASE g \in groups
    BY <2>1, <2>2 DEF IInv, ClosedInTime
  <2>3. CASE g = Flush
    <3>1. f \in current /\ Start(f) = First(current) /\ Last(current) < Start(s)
      BY <1>1, <1>3, <2>1, <2>3, CurrentFacts, RegisterFacts DEF IInv, TypeOK
    <3> QED BY <3>1, SplitInTime
  <2> QED BY <1>3, <2>2, <2>3
<1>10. DecodedFromItsWords'
  BY <1>1 DEF IInv, DecodedFromItsWords
<1> QED BY <1>2, <1>4, <1>5, <1>6, <1>7, <1>8, <1>9, <1>10 DEF IInv

\* The last flush keeps the rules: no register lies beyond its group.
LEMMA FinishIInv ==
  ASSUME IInv, Finish
  PROVE  IInv'
<1>1. /\ todo = {} /\ current' = {} /\ groups' = Flushed /\ phase' = "packed"
      /\ UNCHANGED <<wanted, limit, known, todo, values>>
  BY DEF Finish, inputs
<1>2. CASE current = {}
  <2>1. groups' = groups
    BY <1>1, <1>2 DEF Flushed
  <2>2. EveryRegisterOnce' /\ WithinLimit'
    BY <1>1, <1>2, <2>1 DEF IInv, InOrder, EveryRegisterOnce, WithinLimit
  <2>3. InOrder' /\ TypeOK'
    BY <1>1, <1>2, <2>1 DEF IInv, InOrder, TypeOK
  <2> QED BY <1>1, <2>1, <2>2, <2>3
        DEF IInv, CurrentBounds, CurrentWhole, SpansApart, NothingButImplemented,
            ClosedInTime, Together, DecodedFromItsWords
<1>3. CASE current # {}
  <2>1. /\ groups' \subseteq Group /\ SpansApart' /\ NothingButImplemented'
        /\ \A g \in groups' : g.count <= limit
        /\ \A g \in groups' : \A s \in g.registers : Addresses(s) \subseteq Span(g)
        /\ \A g, h \in groups' : g # h => g.registers \cap h.registers = {}
        /\ UNION {g.registers : g \in groups'}
             = current \cup UNION {g.registers : g \in groups}
    BY <1>1, <1>3, FlushKeeps
  <2>2. TypeOK'
    BY <1>1, <2>1 DEF IInv, TypeOK
  <2>3. InOrder'
    BY <1>1, <2>1 DEF IInv, InOrder
  <2>4. EveryRegisterOnce' /\ WithinLimit' /\ CurrentBounds' /\ CurrentWhole'
    BY <1>1, <2>1, <2>3
       DEF EveryRegisterOnce, WithinLimit, CurrentBounds, CurrentWhole, InOrder
  <2>5. ClosedInTime'
    <3>1. SUFFICES ASSUME NEW g \in groups', NEW f \in g.registers, NEW s \in wanted,
                          Start(f) = g.start, g.start + g.count <= Start(s)
                   PROVE  ~Together(f, s)
      BY <1>1 DEF ClosedInTime, Together
    <3>2. CASE g \in groups
      BY <3>1, <3>2 DEF IInv, ClosedInTime
    <3>3. CASE g = Flush
      <4>1. Last(current) < Start(s)
        BY <1>3, <3>1, <3>3, CurrentFacts, RegisterFacts DEF Flush, IInv, TypeOK
      <4>2. s \notin current
        BY <1>3, <4>1, CurrentFacts, RegisterFacts DEF IInv, TypeOK
      <4>3. ASSUME NEW h \in groups, s \in h.registers
            PROVE  FALSE
        <5>1. h \in Group /\ Start(s) \in Span(h)
          BY <4>3, RegisterFacts DEF IInv, TypeOK, EveryRegisterOnce, Addresses
        <5>2. h.start + h.count <= First(current)
          BY <1>3, CurrentFacts DEF IInv, InOrder
        <5> QED BY <1>3, <4>1, <5>1, <5>2, CurrentFacts DEF Span, Group
      <4> QED BY <1>1, <4>2, <4>3 DEF IInv, InOrder
    <3> QED BY <1>1, <1>3, <3>2, <3>3, FlushFacts
  <2>6. DecodedFromItsWords'
    BY <1>1 DEF IInv, DecodedFromItsWords
  <2> QED BY <2>1, <2>2, <2>3, <2>4, <2>5, <2>6 DEF IInv
<1> QED BY <1>2, <1>3

\* A register's words are those at its own addresses.
LEMMA SliceIsRight ==
  ASSUME NEW g \in Group, NEW r \in Map, Addresses(r) \subseteq Span(g)
  PROVE  WordsFor(g, r, Answer(g)) = [i \in 1..r.length |-> Start(r) + i - 1]
<1> DEFINE m == Start(r) - g.start + 1
           n == Start(r) - g.start + r.length
<1>1. /\ Start(r) \in Span(g) /\ End(r) \in Span(g)
      /\ g.start \in Nat /\ g.count \in Nat
  BY RegisterFacts DEF Addresses, Group
<1>2. m \in 1..g.count /\ n \in 1..g.count /\ n - m + 1 = r.length /\ m <= n
  BY <1>1, RegisterFacts DEF Span
<1>3. \A i \in 1..g.count : Answer(g)[i] = g.start + i - 1
  BY DEF Answer
<1>4. \A i \in m..n : Answer(g)[i] \in Nat
  BY <1>1, <1>2, <1>3
<1> HIDE DEF m, n
<1>5. /\ SubSeq(Answer(g), m, n) \in Seq(Nat)
      /\ Len(SubSeq(Answer(g), m, n)) = r.length
      /\ \A i \in 1..r.length : SubSeq(Answer(g), m, n)[i] = Answer(g)[m + i - 1]
  BY <1>2, <1>4, SubSeqProperties
<1>6. ASSUME NEW i \in 1..r.length
      PROVE  Answer(g)[m + i - 1] = Start(r) + i - 1
  <2>1. m + i - 1 \in 1..g.count
    BY <1>2, RegisterFacts
  <2>2. Answer(g)[m + i - 1] = g.start + (m + i - 1) - 1
    BY <1>3, <2>1
  <2> QED BY <1>1, <2>2, RegisterFacts DEF m
<1>7. SubSeq(Answer(g), m, n) = [i \in 1..r.length |-> Start(r) + i - 1]
  BY <1>5, <1>6
<1> QED BY <1>7 DEF WordsFor, m, n

\* The rules about groups are kept when no group changes.
LEMMA GroupsKept ==
  ASSUME IInv, UNCHANGED <<wanted, limit, known, todo, current, groups>>,
         phase' # "refused" => phase # "refused", TypeOK', DecodedFromItsWords'
  PROVE  IInv'
<1>1. InOrder' /\ CurrentBounds' /\ CurrentWhole'
  BY DEF IInv, InOrder, CurrentBounds, CurrentWhole
<1>2. SpansApart' /\ WithinLimit' /\ EveryRegisterOnce'
  BY DEF IInv, SpansApart, WithinLimit, EveryRegisterOnce
<1>3. NothingButImplemented' /\ ClosedInTime'
  BY DEF IInv, NothingButImplemented, ClosedInTime, Together
<1> QED BY <1>1, <1>2, <1>3 DEF IInv

\* A read decodes the registers of its group from their own words.
LEMMA ReadIInv ==
  ASSUME IInv, NEW g \in groups, Read(g)
  PROVE  IInv'
<1>1. /\ UNCHANGED <<wanted, limit, known, todo, current, groups, phase>>
      /\ values' = [r \in DOMAIN values \cup g.registers |->
                      IF r \in g.registers THEN WordsFor(g, r, Answer(g)) ELSE values[r]]
  BY DEF Read, inputs
<1>2. g \in Group /\ g.registers \subseteq wanted
  BY DEF IInv, TypeOK, InOrder
<1>3. TypeOK'
  BY <1>1, <1>2 DEF IInv, TypeOK
<1>4. DecodedFromItsWords'
  <2>1. \A r \in g.registers :
          WordsFor(g, r, Answer(g)) = [i \in 1..r.length |-> Start(r) + i - 1]
    BY <1>2, SliceIsRight DEF IInv, TypeOK, EveryRegisterOnce
  <2> QED BY <1>1, <2>1 DEF IInv, DecodedFromItsWords
<1> QED BY <1>1, <1>3, <1>4, GroupsKept

\* Every step keeps the invariant.
LEMMA NextIInv == IInv /\ [Next]_vars => IInv'
<1> SUFFICES ASSUME IInv, [Next]_vars PROVE IInv'
  OBVIOUS
<1>1. ASSUME NEW r \in Map, Refuse(r) PROVE IInv'
  <2>1. TypeOK' /\ DecodedFromItsWords'
    BY <1>1 DEF Refuse, inputs, IInv, TypeOK, DecodedFromItsWords
  <2> QED BY <1>1, <2>1, GroupsKept DEF Refuse, inputs
<1>2. CASE UNCHANGED vars
  <2>1. TypeOK' /\ DecodedFromItsWords'
    BY <1>2 DEF vars, inputs, IInv, TypeOK, DecodedFromItsWords
  <2> QED BY <1>2, <2>1, GroupsKept DEF vars, inputs
<1> QED BY <1>1, <1>2, ExtendIInv, SplitIInv, FinishIInv, ReadIInv DEF Next

\* The inductive invariant holds throughout.
THEOREM Invariance == Spec => []IInv
  BY InitIInv, NextIInv, PTL DEF Spec

-----------------------------------------------------------------------------
(* The theorems *)

\* Every variable of the packing keeps its type.
THEOREM TypeCorrect == Spec => []TypeOK
  BY Invariance, PTL DEF IInv

\* No request asks for more than `max_registers` registers.
THEOREM LimitKept == Spec => []WithinLimit
  BY Invariance, PTL DEF IInv

\* Every polled register lies whole in exactly one request.
THEOREM Complete == Spec => []EveryRegisterOnce
  BY Invariance, PTL DEF IInv

\* No request touches an address the board does not implement.
THEOREM OnlyImplemented == Spec => []NothingButImplemented
  BY Invariance, PTL DEF IInv

\* The three rules together.
THEOREM LegalPlan == Spec => []PlanIsLegal
  BY LimitKept, Complete, OnlyImplemented, PTL DEF PlanIsLegal

\* Registers are decoded from the words at their own addresses.
THEOREM Sliced == Spec => []DecodedFromItsWords
  BY Invariance, PTL DEF IInv

\* No two registers that open groups could share a request.
THEOREM Optimal == Spec => []AsFewAsPossible
<1>1. IInv => AsFewAsPossible
  <2>1. SUFFICES ASSUME IInv, NEW g \in groups, NEW h \in groups, g.start < h.start,
                        NEW r \in g.registers, NEW s \in h.registers,
                        Start(r) = g.start, Start(s) = h.start
                 PROVE  ~Together(r, s)
    BY DEF AsFewAsPossible
  <2>2. g \in Group /\ h \in Group /\ s \in wanted
    BY <2>1 DEF IInv, TypeOK, InOrder
  <2>3. g.start + g.count <= h.start
    BY <2>1, <2>2 DEF IInv, SpansApart, Group
  <2> QED BY <2>1, <2>2, <2>3 DEF IInv, ClosedInTime
<1> QED BY <1>1, Invariance, PTL
=============================================================================
