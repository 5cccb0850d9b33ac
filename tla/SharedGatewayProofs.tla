-------------------------- MODULE SharedGatewayProofs --------------------------
(***************************************************************************)
(* Proofs about SharedGateway, for any number of entries, flows, framings, *)
(* gateway objects and setups that raise.                                  *)
(***************************************************************************)
EXTENDS SharedGateway, FiniteSetTheorems, TLAPS

USE SharedAssumption

-----------------------------------------------------------------------------
(* The inductive invariant *)

\* Who works with the gateway holds it, and who has come to rest without being
\* loaded, or waits for the registry, does not.
Busy ==
  \A a \in Actor :
    /\ held[a] # None <=> \/ step[a] \in {"frame", "switch", "work", "release", "closing"}
                          \/ stage[a] = "loaded"
    /\ stage[a] = "loaded" => At(a, "rest")

\* The registry is locked for the one actor that closes the connection, the
\* last one that holds it, and no setup has kept a reference.
LastOneCloses ==
  \A a \in Actor :
    /\ At(a, "closing") <=> locked = a
    /\ At(a, "closing") => leaks = 0 /\ \A b \in Actor \ {a} : held[b] = None

\* A registered gateway has somebody to close it, unless a setup kept it alive.
Registered ==
  /\ registered = None => leaks = 0
  /\ registered # None /\ leaks = 0 => \E a \in Actor : held[a] = registered

Core == HoldersShareOne /\ UsersCounted /\ Busy /\ LastOneCloses /\ Registered

\* Unless a service call has outlived its gateway, the registered gateway alone
\* may have a connection.
Single == ~outlived => open \subseteq {registered}

IInv == TypeOK /\ Core /\ Single

\* Those who count as users of the registered gateway.
Users == {a \in Actor : held[a] = registered /\ ~At(a, "closing")}

\* They are counted by a number.
LEMMA UsersFinite ==
  /\ IsFiniteSet(Users) /\ Cardinality(Users) \in Nat
  /\ Cardinality(Users) <= Cardinality(Actor) /\ Cardinality(Actor) \in Nat
<1>1. Users \subseteq Actor
  BY DEF Users
<1> QED BY <1>1, FS_Subset, FS_CardinalityType

\* The program starts in the invariant.
LEMMA InitIInv ==
  Init => IInv
<1> SUFFICES ASSUME Init PROVE IInv
  OBVIOUS
<1> USE DEF Init
<1>1. 1 \in DOMAIN Framings /\ DefaultFraming \in Framing
  BY DEF DefaultFraming, Framing
<1>2. Cardinality(Actor) \in Nat
  BY FS_CardinalityType
<1>3. TypeOK
  <2>1. users \in [Gateway -> 0..(Cardinality(Actor) + MaxLeaks)]
    BY <1>2
  <2>2. /\ framing \in [Gateway -> Framing] /\ candidate \in [Actor -> DOMAIN Framings]
        /\ recorded \in [Actor -> Framing]
    BY <1>1
  <2>3. stage \in [Actor -> Stages]
    BY DEF Stages
  <2>4. /\ step \in [Actor -> {"rest", "get", "frame", "switch", "work", "release", "closing"}]
        /\ held \in [Actor -> Gateway \cup {None}] /\ found \in [Actor -> BOOLEAN]
        /\ retrying \in [Actor -> Gateway \cup {None}]
    OBVIOUS
  <2>5. /\ registered \in Gateway \cup {None} /\ locked \in Actor \cup {None}
        /\ open \subseteq Gateway /\ leaks \in 0..MaxLeaks
    OBVIOUS
  <2>6. outlived \in BOOLEAN
    OBVIOUS
  <2> HIDE DEF Init
  <2> QED BY <2>1, <2>2, <2>3, <2>4, <2>5, <2>6 DEF TypeOK
<1>4. HoldersShareOne /\ UsersCounted
  BY DEF HoldersShareOne, UsersCounted
<1>5. Busy /\ LastOneCloses /\ Registered
  BY DEF Busy, LastOneCloses, Registered, At
<1> QED BY <1>3, <1>4, <1>5 DEF IInv, Core, Single

\* Steps that neither take a gateway nor give one back change none of the
\* counts.
LEMMA NobodyComesOrGoes ==
  ASSUME Core, Busy', UNCHANGED <<registered, locked, users, held, leaks>>,
         \A a \in Actor : At(a, "closing")' <=> At(a, "closing")
  PROVE  Core'
<1>1. HoldersShareOne' /\ Registered'
  BY DEF Core, HoldersShareOne, Registered
<1>2. LastOneCloses'
  BY DEF Core, LastOneCloses
<1>3. Users' = Users
  BY DEF Users
<1>4. UsersCounted'
  BY <1>3 DEF Core, UsersCounted, Users
<1> QED BY <1>1, <1>2, <1>4 DEF Core

-----------------------------------------------------------------------------
(* Taking a gateway, and giving it back *)

\* One more user, of the registered object or of the first of its kind.
LEMMA GetStep ==
  ASSUME IInv, NEW a \in Actor, Get(a)
  PROVE  IInv'
<1> USE DEF IInv, Core
<1>1. PICK g \in Gateway :
        /\ IF registered = None
           THEN /\ Unused(g)
                /\ users' = [users EXCEPT ![g] = 1]
                /\ framing' = [framing EXCEPT ![g] = IF stage[a] = "identify"
                                                     THEN DefaultFraming ELSE recorded[a]]
           ELSE /\ g = registered
                /\ users' = [users EXCEPT ![g] = @ + 1]
                /\ UNCHANGED framing
        /\ registered' = g
        /\ held' = [held EXCEPT ![a] = g]
  BY DEF Get
<1>2. /\ At(a, "get") /\ locked = None /\ step' = [step EXCEPT ![a] = "frame"]
      /\ UNCHANGED <<locked, open, stage, candidate, recorded, found, retrying, history>>
  BY DEF Get, Goto
<1>3. held[a] = None /\ g # None
  BY <1>2 DEF Busy, At
<1>4. \A b \in Actor : held[b] \in {None, g}
  BY <1>1 DEF HoldersShareOne, Unused
<1>5. \A b \in Actor : ~At(b, "closing")
  BY <1>2 DEF LastOneCloses
<1>6. /\ \A b \in Actor : held'[b] = (IF b = a THEN g ELSE held[b])
      /\ \A b \in Actor : step'[b] = (IF b = a THEN "frame" ELSE step[b])
  BY <1>1, <1>2 DEF TypeOK
<1>7. HoldersShareOne' /\ Busy' /\ LastOneCloses' /\ Registered'
  <2>1. HoldersShareOne' /\ Registered'
    BY <1>1, <1>3, <1>4, <1>6 DEF HoldersShareOne, Registered
  <2>2. Busy'
    BY <1>2, <1>3, <1>6 DEF Busy, At
  <2>3. LastOneCloses'
    BY <1>2, <1>5, <1>6 DEF LastOneCloses, At
  <2> QED BY <2>1, <2>2, <2>3
<1>8. Users' = (IF registered = None THEN {} ELSE Users) \cup {a}
  <2>1. \A b \in Actor : b \in Users' <=> held'[b] = g
    BY <1>1, <1>5, <1>6 DEF Users, At
  <2>2. \A b \in Actor : b \in Users <=> held[b] = registered
    BY <1>5 DEF Users
  <2>3. Users \subseteq Actor /\ Users' \subseteq Actor
    BY DEF Users
  <2> QED BY <1>1, <1>3, <1>4, <1>6, <2>1, <2>2, <2>3 DEF HoldersShareOne
<1>9. registered # None => a \notin Users
  BY <1>3 DEF Users
<1>10. users'[g] = leaks + Cardinality(Users')
  <2>1. CASE registered = None
    <3>1. Users' = {a}
      BY <1>8, <2>1
    <3>2. Cardinality(Users') = 1
      BY <3>1, FS_Singleton
    <3> QED BY <1>1, <2>1, <3>2 DEF Registered, TypeOK
  <2>2. CASE registered # None
    <3>1. Cardinality(Users') = Cardinality(Users) + 1
      BY <1>8, <2>2, <1>9, UsersFinite, FS_AddElement
    <3>2. users[registered] = leaks + Cardinality(Users)
      BY <2>2 DEF UsersCounted, Users
    <3> QED BY <1>1, <2>2, <3>1, <3>2, UsersFinite DEF TypeOK
  <2> QED BY <2>1, <2>2
<1>11. UsersCounted'
  BY <1>1, <1>2, <1>10 DEF UsersCounted, Users, history
<1>12. TypeOK'
  <2>1. Users' \subseteq Actor
    BY DEF Users
  <2>2. Cardinality(Users') \in Nat /\ Cardinality(Users') <= Cardinality(Actor)
    BY <2>1, FS_Subset, FS_CardinalityType
  <2>3. users'[g] \in 0..(Cardinality(Actor) + MaxLeaks)
    BY <1>10, <2>2, FS_CardinalityType DEF TypeOK
  <2>4. users' \in [Gateway -> 0..(Cardinality(Actor) + MaxLeaks)]
    BY <1>1, <2>3 DEF TypeOK
  <2>5. framing' \in [Gateway -> Framing]
    BY <1>1 DEF TypeOK, DefaultFraming, Framing
  <2> QED BY <1>1, <1>2, <2>4, <2>5 DEF TypeOK, history
<1>13. Single'
  BY <1>1, <1>2 DEF Single, TypeOK, history
<1> QED BY <1>7, <1>11, <1>12, <1>13

\* Where a flow or an entry goes on without a gateway.
LEMMA OnwardsKeeps ==
  ASSUME IInv, NEW a \in Actor, ~At(a, "rest"), Onwards(a)
  PROVE  /\ held' = [held EXCEPT ![a] = None] /\ Busy'
         /\ stage' \in [Actor -> Stages]
         /\ step' \in [Actor -> {"rest", "get", "frame", "switch", "work", "release", "closing"}]
         /\ step'[a] # "closing" /\ \A b \in Actor \ {a} : step'[b] = step[b]
         /\ candidate' \in [Actor -> DOMAIN Framings] /\ recorded' \in [Actor -> Framing]
         /\ found' \in [Actor -> BOOLEAN]
<1> USE DEF IInv, Core
<1>1. held' = [held EXCEPT ![a] = None]
  BY DEF Onwards
<1>2. PICK s \in Stages \ {"loaded"}, l \in {"rest", "get"} :
        stage' = [stage EXCEPT ![a] = s] /\ step' = [step EXCEPT ![a] = l]
  BY DEF Onwards, Goto, Stages
<1>3. \A b \in Actor : /\ held'[b] = (IF b = a THEN None ELSE held[b])
                       /\ stage'[b] = (IF b = a THEN s ELSE stage[b])
                       /\ step'[b] = (IF b = a THEN l ELSE step[b])
  BY <1>1, <1>2 DEF TypeOK
<1>4. Busy'
  BY <1>3 DEF Busy, At
<1>5. candidate' \in [Actor -> DOMAIN Framings] /\ found' \in [Actor -> BOOLEAN]
  <2>1. 1 \in DOMAIN Framings
    OBVIOUS
  <2> QED BY <2>1 DEF Onwards, TypeOK
<1>6. recorded' \in [Actor -> Framing]
  <2>1. Framings[candidate[a]] \in Framing
    BY DEF TypeOK, Framing
  <2> QED BY <2>1 DEF Onwards, TypeOK
<1> QED BY <1>1, <1>2, <1>3, <1>4, <1>5, <1>6 DEF TypeOK

\* One user less; the last one takes the registry lock along to the closing.
LEMMA ReleaseStep ==
  ASSUME IInv, NEW a \in Actor, Release(a)
  PROVE  IInv'
<1> USE DEF IInv, Core
<1> DEFINE g == held[a]
<1>1. /\ At(a, "release") /\ locked = None
      /\ users' = [users EXCEPT ![g] = IF @ > 0 THEN @ - 1 ELSE 0]
      /\ UNCHANGED <<registered, framing, open, retrying, history>>
  BY DEF Release
<1>2. g \in Gateway /\ g = registered
  BY <1>1 DEF Busy, At, HoldersShareOne, TypeOK
<1>3. \A b \in Actor : ~At(b, "closing")
  BY <1>1 DEF LastOneCloses
<1>4. a \in Users
  BY <1>2, <1>3 DEF Users
<1>5. users[g] = leaks + Cardinality(Users)
  BY <1>2 DEF UsersCounted, Users, TypeOK
<1>6. Cardinality(Users \ {a}) = Cardinality(Users) - 1
  BY <1>4, UsersFinite, FS_RemoveElement
<1>7. Cardinality(Users \ {a}) \in Nat
  BY UsersFinite, FS_RemoveElement, FS_CardinalityType
<1>8. users'[g] = leaks + Cardinality(Users \ {a})
  BY <1>1, <1>2, <1>5, <1>6, <1>7, UsersFinite DEF TypeOK
<1>9. users' \in [Gateway -> 0..(Cardinality(Actor) + MaxLeaks)]
  BY <1>1, <1>2, UsersFinite DEF TypeOK
<1>10. ASSUME Users' = Users \ {a}
       PROVE  UsersCounted'
  BY <1>1, <1>2, <1>8, <1>10 DEF UsersCounted, Users, history
<1>11. CASE users[g] > 1
  <2>1. Onwards(a) /\ locked' = locked
    BY <1>1, <1>11 DEF Release
  <2>2. /\ held' = [held EXCEPT ![a] = None] /\ Busy' /\ stage' \in [Actor -> Stages]
        /\ step' \in [Actor -> {"rest", "get", "frame", "switch", "work", "release", "closing"}]
        /\ step'[a] # "closing" /\ \A b \in Actor \ {a} : step'[b] = step[b]
        /\ candidate' \in [Actor -> DOMAIN Framings] /\ recorded' \in [Actor -> Framing]
        /\ found' \in [Actor -> BOOLEAN]
    BY <1>1, <2>1, OnwardsKeeps DEF At
  <2>3. \A b \in Actor : held'[b] = (IF b = a THEN None ELSE held[b])
    BY <2>2 DEF TypeOK
  <2>4. \A b \in Actor : ~At(b, "closing")'
    BY <1>3, <2>2 DEF At
  <2>5. HoldersShareOne'
    BY <1>1, <2>3 DEF HoldersShareOne
  <2>6. LastOneCloses'
    BY <1>1, <2>1, <2>4 DEF LastOneCloses
  <2>7. Users' = Users \ {a}
    BY <1>1, <1>2, <1>3, <2>3, <2>4 DEF Users, TypeOK
  <2>8. leaks = 0 => \E b \in Actor : b # a /\ held[b] = registered
    <3> SUFFICES ASSUME leaks = 0 PROVE \E b \in Users : b # a
      BY DEF Users
    <3>1. Cardinality(Users \ {a}) # 0
      BY <1>5, <1>6, <1>11, UsersFinite
    <3>2. Users \ {a} # {}
      BY <3>1, FS_EmptySet
    <3> QED BY <3>2
  <2>9. Registered'
    BY <1>1, <1>2, <2>3, <2>8 DEF Registered, TypeOK, history
  <2>10. Single'
    BY <1>1 DEF Single, history
  <2>11. TypeOK'
    BY <1>1, <1>9, <2>1, <2>2 DEF TypeOK, history
  <2> QED BY <1>10, <2>2, <2>5, <2>6, <2>7, <2>9, <2>10, <2>11
<1>12. CASE ~(users[g] > 1)
  <2>1. /\ step' = [step EXCEPT ![a] = "closing"] /\ locked' = a
        /\ UNCHANGED <<stage, held, candidate, recorded, found>>
    BY <1>1, <1>12 DEF Release, Goto
  <2>2. \A b \in Actor : step'[b] = (IF b = a THEN "closing" ELSE step[b])
    BY <2>1 DEF TypeOK
  <2>3. HoldersShareOne' /\ Registered' /\ Single'
    BY <1>1, <2>1 DEF HoldersShareOne, Registered, Single, history
  <2>4. Busy'
    BY <1>1, <2>1, <2>2 DEF Busy, At
  <2>5. Users' = Users \ {a}
    BY <1>1, <1>3, <2>1, <2>2 DEF Users, At
  <2>6. leaks = 0 /\ Cardinality(Users \ {a}) = 0
    <3>1. users[g] \in Nat /\ leaks \in Nat
      BY <1>2 DEF TypeOK
    <3> QED BY <1>5, <1>6, <1>7, <1>12, <3>1, UsersFinite
  <2>7. Users \ {a} = {}
    BY <2>6, UsersFinite, FS_RemoveElement, FS_EmptySet
  <2>8. \A b \in Actor \ {a} : held[b] = None
    BY <1>3, <2>7 DEF HoldersShareOne, Users
  <2>9. LastOneCloses'
    BY <1>1, <1>3, <2>1, <2>2, <2>6, <2>8 DEF LastOneCloses, At, history
  <2>10. TypeOK'
    BY <1>1, <1>9, <2>1 DEF TypeOK, history
  <2> QED BY <1>10, <2>3, <2>4, <2>5, <2>9, <2>10
<1> QED BY <1>11, <1>12

\* The last one closes the connection and forgets the object.
LEMMA CloseStep ==
  ASSUME IInv, NEW a \in Actor, CloseAndForget(a)
  PROVE  IInv'
<1> USE DEF IInv, Core
<1>1. /\ At(a, "closing") /\ open' = open \ {held[a]}
      /\ registered' = None /\ locked' = None /\ Onwards(a)
      /\ UNCHANGED <<users, framing, retrying, history>>
  BY DEF CloseAndForget
<1>2. leaks = 0 /\ \A b \in Actor \ {a} : held[b] = None /\ ~At(b, "closing")
  BY <1>1 DEF LastOneCloses
<1>3. /\ held' = [held EXCEPT ![a] = None] /\ Busy' /\ stage' \in [Actor -> Stages]
      /\ step' \in [Actor -> {"rest", "get", "frame", "switch", "work", "release", "closing"}]
      /\ step'[a] # "closing" /\ \A b \in Actor \ {a} : step'[b] = step[b]
      /\ candidate' \in [Actor -> DOMAIN Framings] /\ recorded' \in [Actor -> Framing]
      /\ found' \in [Actor -> BOOLEAN]
  BY <1>1, OnwardsKeeps DEF At
<1>4. \A b \in Actor : held'[b] = None /\ ~At(b, "closing")'
  BY <1>2, <1>3 DEF TypeOK, At
<1>5. HoldersShareOne' /\ UsersCounted' /\ LastOneCloses' /\ Registered'
  BY <1>1, <1>2, <1>4 DEF HoldersShareOne, UsersCounted, LastOneCloses, Registered, history
<1>6. Single'
  <2>1. held[a] = registered
    BY <1>1 DEF Busy, At, HoldersShareOne
  <2> QED BY <1>1, <2>1 DEF Single, history
<1>7. TypeOK'
  BY <1>1, <1>3 DEF TypeOK, history
<1> QED BY <1>3, <1>5, <1>6, <1>7

\* A set-up that raises turns a user into a leak.
LEMMA RaiseStep ==
  ASSUME IInv, NEW a \in Actor, SetupRaises(a)
  PROVE  IInv'
<1> USE DEF IInv, Core
<1>1. /\ At(a, "work") /\ stage[a] = "setup" /\ leaks < MaxLeaks
      /\ leaks' = leaks + 1
      /\ stage' = [stage EXCEPT ![a] = "unloaded"] /\ step' = [step EXCEPT ![a] = "rest"]
      /\ held' = [held EXCEPT ![a] = None]
      /\ UNCHANGED <<objVars, candidate, recorded, found, retrying, outlived>>
  BY DEF SetupRaises, Raises, Goto
<1>2. held[a] # None /\ held[a] = registered
  BY <1>1 DEF Busy, At, HoldersShareOne
<1>3. \A b \in Actor : /\ held'[b] = (IF b = a THEN None ELSE held[b])
                       /\ stage'[b] = (IF b = a THEN "unloaded" ELSE stage[b])
                       /\ step'[b] = (IF b = a THEN "rest" ELSE step[b])
  BY <1>1 DEF TypeOK
<1>4. \A b \in Actor : ~At(b, "closing")
  BY <1>1, <1>2 DEF LastOneCloses, At
<1>5. HoldersShareOne' /\ Busy'
  BY <1>1, <1>3 DEF HoldersShareOne, Busy, At, objVars
<1>6. LastOneCloses'
  BY <1>1, <1>3, <1>4 DEF LastOneCloses, At, objVars
<1>7. leaks' # 0
  BY <1>1 DEF TypeOK
<1>8. Registered' /\ Single'
  BY <1>1, <1>2, <1>7 DEF Registered, Single, objVars
<1>9. UsersCounted'
  <2>1. a \in Users /\ Users' = Users \ {a}
    BY <1>1, <1>2, <1>3, <1>4 DEF Users, At, objVars
  <2>2. Cardinality(Users') = Cardinality(Users) - 1
    BY <2>1, UsersFinite, FS_RemoveElement
  <2>3. users[registered] = leaks + Cardinality(Users)
    BY <1>2 DEF UsersCounted, Users
  <2>4. users[registered] = leaks' + Cardinality(Users')
    BY <1>1, <2>2, <2>3, UsersFinite DEF TypeOK
  <2> QED BY <1>1, <2>4 DEF UsersCounted, Users, objVars
<1>10. TypeOK'
  BY <1>1 DEF TypeOK, Stages, objVars
<1> QED BY <1>5, <1>6, <1>8, <1>9, <1>10

-----------------------------------------------------------------------------
(* Working with a gateway *)

\* A request leaves open only what is registered, and the type of it.
LEMMA RequestKeeps ==
  ASSUME IInv, NEW a \in Actor, held[a] # None, open' \in {open \cup {held[a]}, open \ {held[a]}, open},
         UNCHANGED <<registered, outlived>>
  PROVE  Single' /\ open' \subseteq Gateway
<1>1. held[a] \in Gateway /\ held[a] = registered
  BY DEF IInv, Core, HoldersShareOne, TypeOK
<1> QED BY <1>1 DEF IInv, TypeOK, Single

\* The steps of an actor that has its gateway.
LEMMA WorkStep ==
  ASSUME IInv, NEW a \in Actor,
         \/ CompareFraming(a) \/ SwitchFraming(a) \/ ProbeAnswers(a)
         \/ ProbeMeetsStranger(a) \/ ProbeSilent(a)
         \/ Discover(a) \/ SetupSucceeds(a) \/ SetupFails(a)
  PROVE  IInv'
<1> USE DEF IInv, Core
<1>1. /\ step[a] \in {"frame", "switch", "work"} /\ held[a] # None /\ stage[a] # "loaded"
      /\ UNCHANGED <<registered, locked, users, held, retrying, history>>
      /\ open' \in {open \cup {held[a]}, open \ {held[a]}, open}
  <2>1. step[a] \in {"frame", "switch", "work"}
    BY DEF CompareFraming, SwitchFraming, ProbeAnswers, ProbeMeetsStranger, ProbeSilent, Discover,
           SetupSucceeds, SetupFails, At
  <2>2. UNCHANGED <<registered, locked, users, held, retrying, history>>
    BY DEF CompareFraming, SwitchFraming, ProbeAnswers, ProbeMeetsStranger, ProbeSilent, Discover,
           SetupSucceeds, SetupFails, objVars
  <2>3. open' \in {open \cup {held[a]}, open \ {held[a]}, open}
    BY DEF CompareFraming, SwitchFraming, ProbeAnswers, ProbeMeetsStranger, ProbeSilent, Discover,
           SetupSucceeds, SetupFails, objVars, Succeeds, Fails
  <2> QED BY <2>1, <2>2, <2>3 DEF Busy, At
<1>2. PICK l \in {"frame", "switch", "work", "release", "rest"} :
        /\ step' = [step EXCEPT ![a] = l]
        /\ IF l = "rest" THEN stage' = [stage EXCEPT ![a] = "loaded"] ELSE stage' = stage
  BY DEF CompareFraming, SwitchFraming, ProbeAnswers, ProbeMeetsStranger, ProbeSilent, Discover,
         SetupSucceeds, SetupFails, Goto
<1>3. \A b \in Actor :
        /\ step'[b] = (IF b = a THEN l ELSE step[b])
        /\ stage'[b] = (IF b = a /\ l = "rest" THEN "loaded" ELSE stage[b])
  BY <1>2 DEF TypeOK
<1>4. Busy' /\ \A b \in Actor : At(b, "closing")' <=> At(b, "closing")
  BY <1>1, <1>3 DEF Busy, At
<1>5. Core' /\ Single' /\ open' \subseteq Gateway
  BY <1>1, <1>4, NobodyComesOrGoes, RequestKeeps DEF history
<1>6. /\ framing' \in [Gateway -> Framing] /\ candidate' \in [Actor -> DOMAIN Framings]
      /\ recorded' \in [Actor -> Framing] /\ found' \in [Actor -> BOOLEAN]
  <2>1. Wanted(a) \in Framing /\ held[a] \in Gateway
    BY <1>1 DEF Wanted, Framing, TypeOK
  <2>2. CASE SwitchFraming(a)
    BY <2>1, <2>2 DEF SwitchFraming, TypeOK
  <2>3. CASE ProbeAnswers(a)
    BY <2>1, <2>3 DEF ProbeAnswers, TypeOK
  <2>4. CASE ProbeSilent(a)
    <3>1. candidate[a] \in 1..Len(Framings) /\ DOMAIN Framings = 1..Len(Framings)
          /\ Len(Framings) \in Nat
      BY DEF TypeOK
    <3>2. candidate' \in [Actor -> DOMAIN Framings]
      <4>1. CASE candidate[a] < Len(Framings)
        <5>1. candidate' = [candidate EXCEPT ![a] = candidate[a] + 1]
          BY <2>4, <4>1 DEF ProbeSilent
        <5>2. candidate[a] + 1 \in DOMAIN Framings
          BY <3>1, <4>1
        <5> QED BY <5>1, <5>2 DEF TypeOK
      <4>2. CASE ~(candidate[a] < Len(Framings))
        BY <2>4, <4>2 DEF ProbeSilent, TypeOK
      <4> QED BY <4>1, <4>2
    <3>3. UNCHANGED <<framing, recorded, found>>
      BY <2>4 DEF ProbeSilent
    <3> QED BY <3>2, <3>3 DEF TypeOK
  <2>5. CASE \/ CompareFraming(a) \/ ProbeMeetsStranger(a)
              \/ Discover(a) \/ SetupSucceeds(a) \/ SetupFails(a)
    BY <2>5 DEF CompareFraming, ProbeMeetsStranger, Discover, SetupSucceeds, SetupFails, TypeOK, objVars
  <2> QED BY <2>2, <2>3, <2>4, <2>5
<1>7. TypeOK'
  BY <1>1, <1>2, <1>5, <1>6 DEF TypeOK, Stages, history
<1> QED BY <1>5, <1>7

-----------------------------------------------------------------------------
(* Coming and going, polls and writes *)

\* An entry is submitted or set up, or sent to give its gateway back.
LEMMA StageStep ==
  ASSUME IInv, NEW a \in Actor, Start(a) \/ Unload(a)
  PROVE  IInv'
<1> USE DEF IInv, Core
<1>1. PICK l \in {"get", "release"}, s \in {"identify", "setup", "unload"} :
        /\ step' = [step EXCEPT ![a] = l] /\ stage' = [stage EXCEPT ![a] = s]
        /\ IF l = "get" THEN stage[a] # "loaded" ELSE stage[a] = "loaded"
  <2>1. CASE Start(a)
    BY <2>1 DEF Start, Goto, TypeOK
  <2>2. CASE Unload(a)
    BY <2>2 DEF Unload, Goto
  <2> QED BY <2>1, <2>2
<1>2. /\ At(a, "rest") /\ UNCHANGED <<objVars, held, recorded, retrying, history>>
      /\ candidate' \in [Actor -> DOMAIN Framings] /\ found' \in [Actor -> BOOLEAN]
  <2>1. CASE Start(a)
    BY <2>1 DEF Start, TypeOK
  <2>2. CASE Unload(a)
    BY <2>2 DEF Unload, TypeOK, Busy
  <2> QED BY <2>1, <2>2
<1>3. \A b \in Actor : /\ step'[b] = (IF b = a THEN l ELSE step[b])
                       /\ stage'[b] = (IF b = a THEN s ELSE stage[b])
  BY <1>1 DEF TypeOK
<1>4. Busy' /\ \A b \in Actor : At(b, "closing")' <=> At(b, "closing")
  BY <1>1, <1>2, <1>3 DEF Busy, At
<1>5. Core'
  BY <1>2, <1>4, NobodyComesOrGoes DEF objVars, history
<1>6. Single'
  BY <1>2 DEF Single, objVars, history
<1>7. TypeOK'
  BY <1>1, <1>2 DEF TypeOK, Stages, objVars, history
<1> QED BY <1>5, <1>6, <1>7

\* Polls, writes and their retries.
LEMMA TrafficStep ==
  ASSUME IInv, NEW a \in Actor, Poll(a) \/ WriteTimesOut(a) \/ RetryWrite(a)
  PROVE  IInv'
<1> USE DEF IInv, Core
<1>1. UNCHANGED <<registered, locked, users, framing, stage, step, candidate, recorded,
                  held, found, leaks>>
  BY DEF Poll, WriteTimesOut, RetryWrite, actorVars, history
<1>2. Core'
  <2>1. Busy' /\ \A b \in Actor : At(b, "closing")' <=> At(b, "closing")
    BY <1>1 DEF Busy, At
  <2> QED BY <1>1, <2>1, NobodyComesOrGoes
<1>3. CASE Poll(a) \/ WriteTimesOut(a)
  <2>1. held[a] # None /\ held[a] \in Gateway
    BY <1>3 DEF Poll, WriteTimesOut, Busy, TypeOK
  <2>2. /\ open' \in {open \cup {held[a]}, open \ {held[a]}, open} /\ outlived' = outlived
        /\ retrying' \in [Actor -> Gateway \cup {None}]
    <3>1. CASE Poll(a)
      BY <3>1 DEF Poll, Succeeds, Fails, actorVars, history, TypeOK
    <3>2. CASE WriteTimesOut(a)
      BY <2>1, <3>2 DEF WriteTimesOut, Fails, history, TypeOK
    <3> QED BY <1>3, <3>1, <3>2
  <2>3. Single' /\ open' \subseteq Gateway
    BY <1>1, <2>1, <2>2, RequestKeeps
  <2> QED BY <1>1, <1>2, <2>2, <2>3 DEF TypeOK
<1>4. CASE RetryWrite(a)
  <2> DEFINE g == retrying[a]
  <2>1. /\ g # None /\ open' \in {open \cup {g}, open \ {g}}
        /\ retrying' = [retrying EXCEPT ![a] = None]
        /\ outlived' = (outlived \/ g # registered)
    BY <1>4 DEF RetryWrite, Succeeds, Fails
  <2>2. g \in Gateway
    BY <2>1 DEF TypeOK
  <2>3. Single'
    BY <1>1, <2>1 DEF Single
  <2>4. outlived' \in BOOLEAN
    BY <2>1 DEF TypeOK
  <2> QED BY <1>1, <1>2, <2>1, <2>2, <2>3, <2>4 DEF TypeOK
<1> QED BY <1>3, <1>4

-----------------------------------------------------------------------------
(* The theorems *)

\* Every step, and every step that changes nothing, keeps the invariant.
LEMMA NextIInv ==
  IInv /\ [Next]_vars => IInv'
<1> SUFFICES ASSUME IInv, [Next]_vars PROVE IInv'
  OBVIOUS
<1>1. CASE UNCHANGED vars
  <2>1. Busy' /\ \A b \in Actor : At(b, "closing")' <=> At(b, "closing")
    BY <1>1 DEF vars, actorVars, IInv, Core, Busy, At
  <2>2. Core'
    BY <1>1, <2>1, NobodyComesOrGoes DEF vars, objVars, actorVars, history, IInv
  <2>3. TypeOK' /\ Single'
    BY <1>1 DEF vars, objVars, actorVars, history, IInv, TypeOK, Single
  <2> QED BY <2>2, <2>3 DEF IInv
<1>2. ASSUME NEW a \in Actor, Proceed(a)
      PROVE  IInv'
  BY <1>2, GetStep, WorkStep, RaiseStep, ReleaseStep, CloseStep DEF Proceed
<1>3. ASSUME NEW a \in Actor,
             Start(a) \/ Poll(a) \/ Unload(a) \/ WriteTimesOut(a) \/ RetryWrite(a)
      PROVE  IInv'
  BY <1>3, StageStep, TrafficStep
<1> QED BY <1>1, <1>2, <1>3 DEF Next

\* The invariant holds in every reachable state.
LEMMA Invariant ==
  Spec => []IInv
BY InitIInv, NextIInv, PTL DEF Spec

\* Every variable keeps its type; no count of users falls below 0 or exceeds
\* the actors and the set-ups that raised.
THEOREM TypeCorrect ==
  Spec => []TypeOK
<1>1. IInv => TypeOK
  BY DEF IInv
<1> QED BY <1>1, Invariant, PTL

\* `_users` counts those who use the registered gateway, and the set-ups that
\* raised without giving it back (`async_get_gateway`, `async_release_gateway`).
THEOREM CountsItsUsers ==
  Spec => []UsersCounted
<1>1. IInv => UsersCounted
  BY DEF IInv, Core
<1> QED BY <1>1, Invariant, PTL

\* All entries and flows of an address work with one object, across any
\* interleaving of set-ups, probes and unloads (`_GATEWAYS`).
THEOREM OneGateway ==
  Spec => []HoldersShareOne
<1>1. IInv => HoldersShareOne
  BY DEF IInv, Core
<1> QED BY <1>1, Invariant, PTL

\* There is one connection, that of the registered gateway, and it is closed
\* behind the last user: only a service call that retries on a closed gateway
\* opens another, and only a set-up that raises keeps one without a user
\* (`async_release_gateway`, `_execute`).
THEOREM OneConnectionAtMost ==
  Spec => []OneConnection
<1>1. IInv => OneConnection
  <2> SUFFICES ASSUME IInv, ~outlived, leaks = 0, NEW g \in open
               PROVE  \E a \in Actor : held[a] = g
    BY DEF IInv, Single, OneConnection, Holders
  <2>1. g = registered /\ registered # None
    BY DEF IInv, TypeOK, Single
  <2> QED BY <2>1 DEF IInv, Core, Registered
<1> QED BY <1>1, Invariant, PTL

-----------------------------------------------------------------------------
(* The promise of GatewayRegistry *)

\* What the registry promises its users is in use, when an object is
\* registered, and then nothing else is.
LEMMA InUseIsRegistered ==
  ASSUME IInv
  PROVE  Registry!InUse = {registered} \ {None}
<1> USE DEF IInv, Core
<1> DEFINE kept == IF leaks = 0 THEN None ELSE registered
<1>1. \A a \in Actor : held[a] \in {None, registered}
  BY DEF HoldersShareOne
<1>2. registered # None => kept = registered \/ \E a \in Actor : held[a] = registered
  BY DEF Registered
<1> QED BY <1>1, <1>2 DEF Registry!InUse

\* The first one gets an object nobody has touched, all others the one in use.
LEMMA RefineGet ==
  ASSUME IInv, IInv', NEW a \in Actor, Get(a)
  PROVE  Registry!Take(a)
<1> USE DEF IInv, Core
<1>1. PICK g \in Gateway :
        /\ IF registered = None THEN Unused(g) ELSE g = registered
        /\ registered' = g
        /\ held' = [held EXCEPT ![a] = g]
  BY DEF Get
<1>2. /\ At(a, "get") /\ UNCHANGED <<open, retrying, leaks>>
  BY DEF Get, history
<1>3. held[a] = None
  BY <1>2 DEF Busy, At
<1>4. leaks # 0 => registered' = registered
  BY <1>1 DEF Registered
<1>5. g # None
  OBVIOUS
<1>6. IF Registry!InUse = {} THEN Registry!Untouched(g) ELSE g \in Registry!InUse
  <2>1. CASE registered = None
    BY <1>1, <2>1, InUseIsRegistered DEF Unused, Registry!Untouched
  <2>2. CASE registered # None
    BY <1>1, <2>2, InUseIsRegistered
  <2> QED BY <2>1, <2>2
<1>7. UNCHANGED <<retrying, IF leaks = 0 THEN None ELSE registered, open>>
  BY <1>2, <1>4
<1> QED BY <1>1, <1>3, <1>6, <1>7 DEF Registry!Take

\* The last user goes when the connection is closed, all others at once.
LEMMA RefineRelease ==
  ASSUME IInv, IInv', NEW a \in Actor, Release(a)
  PROVE  Registry!GiveBack(a) \/ UNCHANGED Registry!rvars
<1> USE DEF IInv, Core
<1>1. /\ At(a, "release") /\ locked = None
      /\ UNCHANGED <<registered, open, retrying, leaks>>
  BY DEF Release, history
<1>2. held[a] # None /\ held[a] = registered
  BY <1>1 DEF Busy, At, HoldersShareOne
<1>3. CASE users[held[a]] > 1
  <2>1. held' = [held EXCEPT ![a] = None]
    BY <1>3 DEF Release, Onwards
  <2>2. Registry!InUse' # {}
    <3>1. leaks = 0 => \E b \in Actor : held'[b] = registered
      BY <1>1, <1>2 DEF Registered
    <3> QED BY <1>1, <1>2, <3>1 DEF Registry!InUse
  <2> QED BY <1>1, <1>2, <2>1, <2>2 DEF Registry!GiveBack
<1>4. CASE ~(users[held[a]] > 1)
  BY <1>1, <1>4 DEF Release, Registry!rvars
<1> QED BY <1>3, <1>4

\* The last user leaves in the stroke that closes the connection.
LEMMA RefineClose ==
  ASSUME IInv, NEW a \in Actor, CloseAndForget(a)
  PROVE  Registry!GiveBack(a)
<1> USE DEF IInv, Core
<1>1. /\ At(a, "closing") /\ open' = open \ {held[a]} /\ UNCHANGED <<retrying, leaks>>
      /\ held' = [held EXCEPT ![a] = None]
  BY DEF CloseAndForget, Onwards, history
<1>2. leaks = 0 /\ \A b \in Actor \ {a} : held[b] = None
  BY <1>1 DEF LastOneCloses
<1>3. held[a] # None
  BY <1>1 DEF Busy, At
<1>4. \A b \in Actor : held'[b] = None
  BY <1>1, <1>2 DEF TypeOK
<1>5. Registry!InUse' = {}
  BY <1>1, <1>2, <1>4 DEF Registry!InUse
<1> QED BY <1>1, <1>2, <1>3, <1>5 DEF Registry!GiveBack

\* A set-up that raises walks away with its reference.
LEMMA RefineRaise ==
  ASSUME IInv, NEW a \in Actor, SetupRaises(a)
  PROVE  Registry!GoAway(a)
<1> USE DEF IInv, Core
<1>1. /\ At(a, "work") /\ leaks' = leaks + 1 /\ held' = [held EXCEPT ![a] = None]
      /\ UNCHANGED <<registered, open, retrying>>
  BY DEF SetupRaises, objVars
<1>2. held[a] # None /\ held[a] = registered
  BY <1>1 DEF Busy, At, HoldersShareOne
<1>3. leaks' # 0
  BY <1>1 DEF TypeOK
<1> QED BY <1>1, <1>2, <1>3 DEF Registry!GoAway

\* Work with the gateway, or with nothing of it.
LEMMA RefineWork ==
  ASSUME IInv, NEW a \in Actor,
         \/ CompareFraming(a) \/ SwitchFraming(a) \/ ProbeAnswers(a)
         \/ ProbeMeetsStranger(a) \/ ProbeSilent(a)
         \/ Discover(a) \/ SetupSucceeds(a) \/ SetupFails(a)
         \/ Poll(a) \/ Start(a) \/ Unload(a)
  PROVE  Registry!Work(a) \/ UNCHANGED Registry!rvars
<1> USE DEF IInv, Core
<1>1. UNCHANGED <<registered, held, retrying, leaks>>
  BY DEF CompareFraming, SwitchFraming, ProbeAnswers, ProbeMeetsStranger, ProbeSilent, Discover, SetupSucceeds,
         SetupFails, Poll, Start, Unload, objVars, actorVars, history
<1>2. CASE CompareFraming(a) \/ Start(a) \/ Unload(a)
  BY <1>1, <1>2 DEF CompareFraming, Start, Unload, objVars, Registry!rvars
<1>3. CASE \/ SwitchFraming(a) \/ ProbeAnswers(a)
         \/ ProbeMeetsStranger(a) \/ ProbeSilent(a)
           \/ Discover(a) \/ SetupSucceeds(a) \/ SetupFails(a) \/ Poll(a)
  <2>1. open' = open \cup {held[a]} \/ open' = open \ {held[a]}
    BY <1>3 DEF SwitchFraming, ProbeAnswers, ProbeMeetsStranger, ProbeSilent, Discover, SetupSucceeds, SetupFails,
                Poll, Succeeds, Fails
  <2>2. held[a] # None
    BY <1>3 DEF SwitchFraming, ProbeAnswers, ProbeMeetsStranger, ProbeSilent, Discover, SetupSucceeds, SetupFails,
                Poll, Busy, At
  <2> QED BY <1>1, <2>1, <2>2 DEF Registry!Work, Registry!Reaches
<1> QED BY <1>2, <1>3

\* A service call that will try again, and that tries again.
LEMMA RefineRetry ==
  ASSUME IInv, NEW a \in Actor, WriteTimesOut(a) \/ RetryWrite(a)
  PROVE  Registry!WillRepeat(a) \/ Registry!Repeat(a)
<1> USE DEF IInv, Core
<1>1. CASE WriteTimesOut(a)
  <2>1. held[a] # None
    BY <1>1 DEF WriteTimesOut, Busy
  <2> QED BY <1>1, <2>1 DEF WriteTimesOut, Fails, history, Registry!WillRepeat
<1>2. CASE RetryWrite(a)
  BY <1>2 DEF RetryWrite, Succeeds, Fails, Registry!Repeat, Registry!Reaches
<1> QED BY <1>1, <1>2

\* The count, the registry and its lock keep the promise: whoever comes gets
\* the object in use or an untouched one, and the connection is closed in the
\* stroke in which the last user leaves (`async_get_gateway`,
\* `async_release_gateway`).
THEOREM Refinement ==
  Spec => RegistrySpec
<1>1. Init => Registry!Init
  BY DEF Init, Registry!Init
<1>2. ASSUME IInv, IInv', [Next]_vars
      PROVE  Registry!Next \/ UNCHANGED Registry!rvars
  <2>1. CASE UNCHANGED vars
    BY <2>1 DEF vars, objVars, actorVars, history, Registry!rvars
  <2>2. ASSUME NEW a \in Actor, \/ Proceed(a) \/ Start(a) \/ Poll(a) \/ Unload(a)
                                \/ WriteTimesOut(a) \/ RetryWrite(a)
        PROVE  Registry!Next \/ UNCHANGED Registry!rvars
    <3>1. \/ Registry!Take(a) \/ Registry!GiveBack(a) \/ Registry!GoAway(a) \/ Registry!Work(a)
          \/ Registry!WillRepeat(a) \/ Registry!Repeat(a) \/ UNCHANGED Registry!rvars
      BY <1>2, <2>2, RefineGet, RefineRelease, RefineClose, RefineRaise, RefineWork, RefineRetry
         DEF Proceed
    <3> QED BY <3>1 DEF Registry!Next
  <2> QED BY <1>2, <2>1, <2>2 DEF Next
<1>3. IInv /\ IInv' /\ [Next]_vars => [Registry!Next]_(Registry!rvars)
  BY <1>2
<1> QED BY <1>1, <1>3, Invariant, PTL DEF Spec, RegistrySpec, Registry!Spec

\* The promise is worth its name: from it alone follows that all who use the
\* gateway at a time use the same object (`_GATEWAYS`).
THEOREM PromiseIsToShare ==
  RegistrySpec => [](\A a, b \in Actor : held[a] # None /\ held[b] # None => held[a] = held[b])
<1> DEFINE Shared == \A g, h \in Registry!InUse : g = h
           Typed == held \in [Actor -> Gateway \cup {None}]
           Promised == \A a, b \in Actor : held[a] # None /\ held[b] # None => held[a] = held[b]
<1>1. Registry!Init => Shared /\ Typed
  BY DEF Registry!Init, Registry!InUse
<1>2. ASSUME Shared, Typed, [Registry!Next]_(Registry!rvars)
      PROVE  Shared' /\ Typed'
  <2>1. CASE UNCHANGED Registry!rvars
    BY <1>2, <2>1 DEF Registry!rvars, Registry!InUse
  <2>2. ASSUME NEW a \in Actor, Registry!Take(a)
        PROVE  Shared' /\ Typed'
    <3>1. PICK g \in Gateway : /\ Registry!InUse = {} \/ g \in Registry!InUse
                              /\ held' = [held EXCEPT ![a] = g]
      BY <2>2 DEF Registry!Take
    <3>2. \A h \in Registry!InUse' : h = g \/ h \in Registry!InUse
      BY <1>2, <2>2, <3>1 DEF Registry!Take, Registry!InUse
    <3> QED BY <1>2, <3>1, <3>2
  <2>3. ASSUME NEW a \in Actor, Registry!GiveBack(a) \/ Registry!GoAway(a)
        PROVE  Shared' /\ Typed'
    <3>1. held' = [held EXCEPT ![a] = None] /\ held[a] # None
      BY <2>3 DEF Registry!GiveBack, Registry!GoAway
    <3>2. Registry!InUse' \subseteq Registry!InUse
      BY <1>2, <2>3, <3>1 DEF Registry!GiveBack, Registry!GoAway, Registry!InUse
    <3> QED BY <1>2, <3>1, <3>2
  <2>4. ASSUME NEW a \in Actor, Registry!Work(a) \/ Registry!WillRepeat(a) \/ Registry!Repeat(a)
        PROVE  Shared' /\ Typed'
    <3>1. UNCHANGED <<held, IF leaks = 0 THEN None ELSE registered>>
      BY <2>4 DEF Registry!Work, Registry!WillRepeat, Registry!Repeat
    <3>2. Registry!InUse' = Registry!InUse
      BY <3>1 DEF Registry!InUse
    <3> QED BY <1>2, <3>1, <3>2
  <2> QED BY <1>2, <2>1, <2>2, <2>3, <2>4 DEF Registry!Next
<1>3. Shared /\ Typed => Promised
  BY DEF Registry!InUse
<1> HIDE DEF Shared, Typed, Promised
<1>4. RegistrySpec => []Promised
  BY <1>1, <1>2, <1>3, PTL DEF RegistrySpec, Registry!Spec
<1> QED BY <1>4 DEF Promised

-----------------------------------------------------------------------------
(* Who gets the framing wrong *)

\* An entry of old is never identified again, and keeps the right framing if it
\* has it on record.
EntriesSettled ==
  \A e \in Entry : /\ e \notin Stale => recorded[e] = WireFraming
                   /\ stage[e] \notin {"idle", "identify", "discover"}

\* The program starts with such entries.
LEMMA InitSettled ==
  Init => EntriesSettled
BY DEF Init, EntriesSettled, Actor

\* Every step leaves them so.
LEMMA NextSettled ==
  TypeOK /\ EntriesSettled /\ [Next]_vars => EntriesSettled'
<1> SUFFICES ASSUME TypeOK, EntriesSettled, [Next]_vars, NEW e \in Entry
             PROVE  /\ e \notin Stale => recorded'[e] = WireFraming
                    /\ stage'[e] \notin {"idle", "identify", "discover"}
  BY DEF EntriesSettled
<1> USE DEF EntriesSettled, TypeOK, Actor
<1>1. CASE UNCHANGED vars
  BY <1>1 DEF vars, actorVars
<1>2. ASSUME NEW a \in Actor, Onwards(a)
      PROVE  /\ recorded'[e] = recorded[e]
             /\ stage'[e] \notin {"idle", "identify", "discover"}
  BY <1>2 DEF Onwards
<1>3. ASSUME NEW a \in Actor, Start(a) \/ Unload(a)
      PROVE  /\ recorded'[e] = recorded[e]
             /\ stage'[e] \notin {"idle", "identify", "discover"}
  BY <1>3 DEF Start, Unload
<1>4. ASSUME NEW a \in Actor, Release(a) \/ CloseAndForget(a)
      PROVE  /\ recorded'[e] = recorded[e]
             /\ stage'[e] \notin {"idle", "identify", "discover"}
  BY <1>2, <1>4 DEF Release, CloseAndForget
<1>5. ASSUME NEW a \in Actor, SetupSucceeds(a) \/ SetupRaises(a)
      PROVE  /\ recorded'[e] = recorded[e]
             /\ stage'[e] \notin {"idle", "identify", "discover"}
  BY <1>5 DEF SetupSucceeds, SetupRaises
<1>6. ASSUME NEW a \in Actor,
             \/ Get(a) \/ CompareFraming(a) \/ SwitchFraming(a)
             \/ ProbeAnswers(a) \/ ProbeMeetsStranger(a) \/ ProbeSilent(a) \/ Discover(a)
             \/ SetupFails(a) \/ Poll(a) \/ WriteTimesOut(a) \/ RetryWrite(a)
      PROVE  /\ recorded'[e] = recorded[e]
             /\ stage'[e] \notin {"idle", "identify", "discover"}
  BY <1>6 DEF Get, CompareFraming, SwitchFraming, ProbeAnswers, ProbeMeetsStranger, ProbeSilent,
              Discover, SetupFails, Poll, WriteTimesOut, RetryWrite, actorVars
<1>7. ASSUME recorded'[e] = recorded[e]
      PROVE  e \notin Stale => recorded'[e] = WireFraming
  BY <1>7
<1> HIDE DEF EntriesSettled, TypeOK
<1> QED BY <1>1, <1>3, <1>4, <1>5, <1>6, <1>7 DEF Next, Proceed

\* The registered gateway stays registered, and loses the right framing.
Disturbed ==
  /\ registered' = registered /\ registered # None
  /\ framing[registered] = WireFraming /\ framing'[registered] # WireFraming

\* Steps that set no framing.
LEMMA FramingStays ==
  ASSUME NEW a \in Actor,
         \/ Start(a) \/ CompareFraming(a) \/ ProbeAnswers(a) \/ ProbeMeetsStranger(a)
         \/ ProbeSilent(a) \/ Discover(a) \/ SetupSucceeds(a) \/ SetupFails(a) \/ SetupRaises(a)
         \/ Release(a) \/ CloseAndForget(a) \/ Poll(a) \/ Unload(a)
         \/ WriteTimesOut(a) \/ RetryWrite(a)
  PROVE  framing' = framing /\ registered' \in {registered, None}
BY DEF Start, CompareFraming, ProbeAnswers, ProbeMeetsStranger, ProbeSilent, Discover,
       SetupSucceeds, SetupFails, SetupRaises, Release, CloseAndForget, Poll, Unload,
       WriteTimesOut, RetryWrite, objVars

\* Who takes the right framing away from a gateway in use: a flow that is
\* looking for a board, or an actor with a wrong framing on record, which is an
\* entry that came with it or one that a flow has made (`async_set_framing`).
OnlyTheUnsureDisturb ==
  [][Disturbed => \E a \in Flow \cup Stale :
       SwitchFraming(a) /\ (stage[a] = "identify" \/ recorded[a] # WireFraming)]_vars

\* Nobody else spoils the framing of the gateway in use: no poll, no unload,
\* and no set-up of an entry that has the right framing on record.
THEOREM TheUnsureAloneDisturb ==
  Spec => OnlyTheUnsureDisturb
<1>1. ASSUME IInv, EntriesSettled, [Next]_vars, Disturbed
      PROVE  \E a \in Flow \cup Stale :
               SwitchFraming(a) /\ (stage[a] = "identify" \/ recorded[a] # WireFraming)
  <2>1. ~ \E a \in Actor : Get(a)
    BY <1>1 DEF Get, Disturbed
  <2>2. PICK a \in Actor : SwitchFraming(a)
    BY <1>1, <2>1, FramingStays DEF Disturbed, Next, Proceed, vars, objVars
  <2>3. Wanted(a) # WireFraming
    BY <1>1, <2>2 DEF SwitchFraming, Disturbed, IInv, TypeOK
  <2>4. stage[a] = "identify" \/ recorded[a] # WireFraming
    BY <2>3 DEF Wanted
  <2>5. a \in Flow \cup Stale
    BY <1>1, <2>4 DEF EntriesSettled, Actor
  <2> QED BY <2>2, <2>4, <2>5
<1>2. IInv /\ EntriesSettled /\ [Next]_vars =>
        [Disturbed => \E a \in Flow \cup Stale :
           SwitchFraming(a) /\ (stage[a] = "identify" \/ recorded[a] # WireFraming)]_vars
  BY <1>1
<1>3. Spec => []EntriesSettled
  BY InitSettled, NextSettled, TypeCorrect, PTL DEF Spec
<1> QED BY <1>2, <1>3, Invariant, PTL DEF Spec, OnlyTheUnsureDisturb

\* The registered gateway speaks what the hardware understands.
RegisteredIsRight == registered # None => framing[registered] = WireFraming

\* Among entries that all have the right framing on record, and without config
\* flows, the docstring of `async_set_framing` is right: a loaded entry finds
\* the framing it was set up in, whatever the others do.
THEOREM FramingHoldsAmongTheSure ==
  ASSUME Flow = {}, Stale = {}
  PROVE  Spec => []FramingFixedForEveryone
<1>1. Init => RegisteredIsRight
  BY DEF Init, RegisteredIsRight
<1>2. ASSUME IInv, EntriesSettled, RegisteredIsRight, [Next]_vars
      PROVE  RegisteredIsRight'
  <2> USE DEF RegisteredIsRight
  <2>1. CASE UNCHANGED vars
    BY <1>2, <2>1 DEF vars, objVars
  <2>2. ASSUME NEW a \in Actor, Get(a)
        PROVE  RegisteredIsRight'
    <3>1. stage[a] # "identify" /\ recorded[a] = WireFraming
      BY <1>2 DEF EntriesSettled, Actor
    <3> QED BY <1>2, <2>2, <3>1 DEF Get, IInv, TypeOK
  <2>3. ASSUME NEW a \in Actor, SwitchFraming(a)
        PROVE  RegisteredIsRight'
    <3>1. Wanted(a) = WireFraming
      BY <1>2 DEF EntriesSettled, Wanted, Actor
    <3> QED BY <1>2, <2>3, <3>1 DEF SwitchFraming, IInv, TypeOK
  <2> QED BY <1>2, <2>1, <2>2, <2>3, FramingStays DEF Next, Proceed
<1>3. IInv /\ RegisteredIsRight => FramingFixedForEveryone
  BY DEF IInv, Core, HoldersShareOne, Busy, RegisteredIsRight, FramingFixedForEveryone, Settled
<1>4. Spec => []EntriesSettled
  BY InitSettled, NextSettled, TypeCorrect, PTL DEF Spec
<1> QED BY <1>1, <1>2, <1>3, <1>4, Invariant, PTL DEF Spec
=============================================================================
