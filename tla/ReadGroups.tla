------------------------------ MODULE ReadGroups ------------------------------
(***************************************************************************)
(* `build_read_groups` of hub.py, one visit of its loop per step, followed *)
(* by the reads that use the groups: each group is one request, which the  *)
(* board answers as a whole or refuses as a whole, and `ReadGroup.decode`  *)
(* slices every register's words out of the answer.                        *)
(***************************************************************************)
EXTENDS Integers, Sequences, FiniteSets

CONSTANTS Map,     \* the registers of `RegisterMap`
          Limits   \* the values `max_registers` is called with

Start(r) == r.address
End(r) == r.address + r.length - 1
Addresses(r) == Start(r)..End(r)

\* RegisterMap.addresses: every address the board implements.
Implemented == UNION {Addresses(r) : r \in Map}

\* `_load` refuses a map in which two registers overlap.
ASSUME MapAssumption ==
  /\ \A r \in Map : r.address \in Nat /\ r.length \in 1..2
  /\ \A r, s \in Map : r # s => Addresses(r) \cap Addresses(s) = {}
  /\ Limits \subseteq Nat \ {0}

VARIABLES
  wanted,   \* the registers to be polled
  limit,    \* `max_registers`
  known,    \* `readable`; {} when left out, which bridges no gap either
  todo,     \* the registers the loop has not visited
  current,  \* `current`, the registers of the group being built
  groups,   \* the finished groups
  phase,    \* packing, packed, or refused with a ValueError
  values    \* the words each register was decoded from

inputs == <<wanted, limit, known>>
vars == <<inputs, todo, current, groups, phase, values>>

Least(S) == CHOOSE a \in S : \A b \in S : a <= b
Greatest(S) == CHOOSE a \in S : \A b \in S : a >= b

First(rs) == Least({Start(r) : r \in rs})
Last(rs) == Greatest({End(r) : r \in rs})

\* The addresses one request for g asks for.
Span(g) == g.start .. g.start + g.count - 1

Group == [start : Nat, count : Nat \ {0}, registers : SUBSET Map]

TypeOK ==
  /\ wanted \subseteq Map /\ limit \in Limits /\ known \in {{}, Implemented}
  /\ todo \subseteq wanted /\ current \subseteq wanted
  /\ groups \subseteq Group
  /\ phase \in {"packing", "packed", "refused"}
  /\ DOMAIN values \subseteq wanted

Init == /\ wanted \in SUBSET Map
        /\ limit \in Limits
        /\ known \in {{}, Implemented}
        /\ todo = wanted
        /\ current = {} /\ groups = {}
        /\ phase = "packing"
        /\ values = <<>>
-----------------------------------------------------------------------------
(* Packing *)

\* Fault of Flushed: `count = end - start`
FlushedShort ==
  IF current = {} THEN groups
  ELSE groups \cup {[start |-> First(current),
                     count |-> Last(current) - First(current),
                     registers |-> current]}

\* `flush`
Flushed == IF current = {} THEN groups
           ELSE groups \cup {[start |-> First(current),
                              count |-> Last(current) - First(current) + 1,
                              registers |-> current]}

\* The registers are visited in address order.
Visits(r) == /\ phase = "packing"
             /\ r \in todo
             /\ \A s \in todo : Start(r) <= Start(s)

Bridgeable(r) == Last(current) + 1 .. Start(r) - 1 \subseteq known

\* Faults of Fits: the boundary is off by one, either way.
FitsOneMore(r) == End(r) - First(current) <= limit
FitsOneLess(r) == End(r) - First(current) + 1 < limit

Fits(r) == End(r) - First(current) + 1 <= limit

Take(r, new, done) == /\ todo' = todo \ {r}
                      /\ current' = new
                      /\ groups' = done
                      /\ UNCHANGED <<inputs, phase, values>>

\* A pair that can never be read in one request.
Refuse(r) == /\ Visits(r)
             /\ r.length > limit
             /\ phase' = "refused"
             /\ UNCHANGED <<inputs, todo, current, groups, values>>

Extend(r) == /\ Visits(r)
             /\ r.length <= limit
             /\ current # {} => Bridgeable(r) /\ Fits(r)
             /\ Take(r, current \cup {r}, groups)

Split(r) == /\ Visits(r)
            /\ r.length <= limit
            /\ current # {}
            /\ ~(Bridgeable(r) /\ Fits(r))
            /\ Take(r, {r}, Flushed)

Finish == /\ phase = "packing"
          /\ todo = {}
          /\ groups' = Flushed
          /\ current' = {}
          /\ phase' = "packed"
          /\ UNCHANGED <<inputs, todo, values>>
-----------------------------------------------------------------------------
(* Reading *)

\* The word the board keeps at an address is told by its address.
Answer(g) == [i \in 1..g.count |-> g.start + i - 1]

\* Fault of WordsFor: words are counted per register, not per address
WordsByPosition(g, r, words) ==
  LET offset == Cardinality({s \in g.registers : Start(s) < Start(r)})
  IN  SubSeq(words, offset + 1, offset + r.length)

\* ReadGroup.words_for
WordsFor(g, r, words) ==
  LET offset == Start(r) - g.start
  IN  SubSeq(words, offset + 1, offset + r.length)

\* ReadGroup.decode, called on an answer of the length asked for; the board
\* refuses a request that touches an address it does not implement.
Read(g) == /\ phase = "packed"
           /\ g.registers \cap DOMAIN values = {}
           /\ Span(g) \subseteq Implemented
           /\ values' = [r \in DOMAIN values \cup g.registers |->
                           IF r \in g.registers THEN WordsFor(g, r, Answer(g))
                           ELSE values[r]]
           /\ UNCHANGED <<inputs, todo, current, groups, phase>>

Next == \/ \E r \in Map : Refuse(r) \/ Extend(r) \/ Split(r)
        \/ Finish
        \/ \E g \in groups : Read(g)

Spec == Init /\ [][Next]_vars
-----------------------------------------------------------------------------
(* What a plan of requests owes the poll *)

\* Rule 1 of `build_read_groups`: no request asks for more than
\* `max_registers` registers, nor does the one still being built.
WithinLimit == /\ \A g \in groups : g.count <= limit
               /\ current # {} => Last(current) - First(current) + 1 <= limit

\* Rule 2: every register lies, whole, in the span of exactly the one request
\* that will decode it, so no pair is torn and no register is forgotten or
\* read twice; none is lost between the loop and its last `flush`.
EveryRegisterOnce ==
  /\ \A g \in groups : \A r \in g.registers : Addresses(r) \subseteq Span(g)
  /\ \A g, h \in groups : g # h => g.registers \cap h.registers = {}
  /\ phase # "refused" =>
       wanted = todo \cup current \cup UNION {g.registers : g \in groups}

\* Rule 3: a request reaches only addresses the board implements, and without
\* `readable` only those of polled registers; one hole would lose the answer
\* for every register of the request.
NothingButImplemented ==
  \A g \in groups :
    \A a \in Span(g) :
      a \in known \/ \E r \in wanted : a \in Addresses(r)

\* The three rules of the docstring, which bound one another: a shorter limit
\* splits pairs, a bridged hole reaches what is not there.
PlanIsLegal == WithinLimit /\ EveryRegisterOnce /\ NothingButImplemented

\* One request can serve both registers under rules 1 and 3.
Together(r, s) ==
  /\ Greatest({End(r), End(s)}) - Least({Start(r), Start(s)}) + 1 <= limit
  /\ \A a \in Start(r)..Start(s) :
       a \in known \/ \E t \in wanted : a \in Addresses(t)

\* "As few read requests as possible": the registers that open two groups can
\* not share a request under any packing, so no packing has fewer requests.
AsFewAsPossible ==
  \A g, h \in groups : g.start < h.start =>
    \A r \in g.registers, s \in h.registers :
      Start(r) = g.start /\ Start(s) = h.start => ~Together(r, s)

\* Each register is decoded from the words at its own addresses, high word
\* first, whatever group it was read with.
DecodedFromItsWords ==
  \A r \in DOMAIN values : values[r] = [i \in 1..r.length |-> Start(r) + i - 1]
=============================================================================
