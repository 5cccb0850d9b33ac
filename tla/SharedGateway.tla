----------------------------- MODULE SharedGateway -----------------------------
(***************************************************************************)
(* Who uses the connection to one (host, port): the registry of hub.py     *)
(* with its reference counts, the config entries that are set up, polled   *)
(* and unloaded (__init__.py), and the config flows that identify a board  *)
(* and discover its blocks before their entry exists (config_flow.py).     *)
(*                                                                         *)
(* A request is one step here; what happens inside it is ModbusGateway.    *)
(* An actor is a config entry, or a flow that becomes one.                 *)
(***************************************************************************)
EXTENDS Naturals, Sequences, FiniteSets

CONSTANTS Entry,        \* config entries that exist from the start
          Flow,         \* config flows
          Stale,        \* entries whose record of the framing may be wrong
          Present,      \* the actors whose slave id is answered to
          Misfit,       \* entries whose options make `build_read_groups` raise
          Writer,       \* entries on which a service call may be waiting to retry
          Gateway,      \* identities of `ModbusGateway` objects
          Framings,     \* FRAMINGS, in the order they are tried
          WireFraming,  \* the framing the hardware understands
          MaxLeaks,     \* bound: setups that raise
          None

Actor == Entry \cup Flow
Framing == {Framings[i] : i \in DOMAIN Framings}
DefaultFraming == Framings[1]

ASSUME SharedAssumption ==
  /\ Entry \cap Flow = {} /\ IsFiniteSet(Actor) /\ Present \subseteq Actor
  /\ Stale \subseteq Entry
  /\ Misfit \subseteq Actor /\ Writer \subseteq Actor
  /\ Framings \in Seq(Framing) /\ Framings # <<>> /\ WireFraming \in Framing
  /\ MaxLeaks \in Nat /\ None \notin Gateway \cup Actor

VARIABLES
  registered,  \* the object `_GATEWAYS` holds for this address
  locked,      \* the actor that holds _REGISTRY_LOCK across an await
  users,       \* `_users` of each object
  framing,     \* `framing` of each object
  open,        \* the objects with an open TCP connection
  stage,       \* what an actor is doing
  step,        \* how far it is with it
  candidate,   \* the place in Framings of the framing a flow is trying
  recorded,    \* CONF_FRAMING of the entry's data, or its default
  held,        \* the object an actor works with
  found,       \* `async_identify` has an answer
  retrying,    \* the object on which an actor's service call sleeps its backoff
  \* history, read by no action
  leaks,       \* setups that raised and did not give their gateway back
  outlived     \* a service call has retried on an object no longer registered

objVars == <<registered, locked, users, framing, open>>
actorVars == <<stage, step, candidate, recorded, held, found, retrying>>
history == <<leaks, outlived>>
vars == <<objVars, actorVars, history>>

Stages == {"idle", "identify", "discover", "unloaded", "setup", "loaded", "unload"}

TypeOK ==
  /\ registered \in Gateway \cup {None}
  /\ locked \in Actor \cup {None}
  /\ users \in [Gateway -> 0..(Cardinality(Actor) + MaxLeaks)]
  /\ framing \in [Gateway -> Framing]
  /\ open \subseteq Gateway
  /\ stage \in [Actor -> Stages]
  /\ step \in [Actor -> {"rest", "get", "frame", "switch", "work", "release", "closing"}]
  /\ candidate \in [Actor -> DOMAIN Framings]
  /\ recorded \in [Actor -> Framing]
  /\ held \in [Actor -> Gateway \cup {None}]
  /\ found \in [Actor -> BOOLEAN]
  /\ retrying \in [Actor -> Gateway \cup {None}]
  /\ leaks \in 0..MaxLeaks /\ outlived \in BOOLEAN

\* A stale entry brings any framing along: one that stored none falls back to
\* the default, and one that a host update has moved here from another address
\* has kept the framing of that address.
Init ==
  /\ registered = None /\ locked = None
  /\ users = [g \in Gateway |-> 0]
  /\ framing = [g \in Gateway |-> DefaultFraming]
  /\ open = {}
  /\ stage = [a \in Actor |-> IF a \in Flow THEN "idle" ELSE "unloaded"]
  /\ step = [a \in Actor |-> "rest"]
  /\ candidate = [a \in Actor |-> 1]
  /\ recorded \in {r \in [Actor -> Framing] :
                    /\ \A f \in Flow : r[f] = DefaultFraming
                    /\ \A e \in Entry \ Stale : r[e] = WireFraming}
  /\ held = [a \in Actor |-> None]
  /\ found = [a \in Actor |-> FALSE]
  /\ retrying = [a \in Actor |-> None]
  /\ leaks = 0 /\ outlived = FALSE

At(a, l) == step[a] = l
Goto(a, l) == step' = [step EXCEPT ![a] = l]

\* A request on g: a socket is up after an answer and dropped after a failure.
Succeeds(a, g) == framing[g] = WireFraming /\ a \in Present /\ open' = open \cup {g}
Fails(g) == open' = open \ {g}

-----------------------------------------------------------------------------
(* Taking a gateway and setting its framing *)

\* A flow is submitted, or an entry is set up (again).
Start(a) ==
  /\ stage[a] \in {"idle", "unloaded"} /\ At(a, "rest")
  /\ stage' = [stage EXCEPT ![a] = IF @ = "idle" THEN "identify" ELSE "setup"]
  /\ Goto(a, "get")
  /\ UNCHANGED <<objVars, candidate, recorded, held, found, retrying, history>>

\* An object nobody can tell from one that was never made.
Unused(g) == /\ g # registered /\ g \notin open
             /\ \A a \in Actor : held[a] # g /\ retrying[a] # g

\* `async_get_gateway`; `async_identify` gives no framing for a new object.
Get(a) ==
  /\ At(a, "get") /\ locked = None
  /\ \E g \in Gateway :
       /\ IF registered = None
          THEN /\ Unused(g)
               /\ users' = [users EXCEPT ![g] = 1]
               /\ framing' = [framing EXCEPT ![g] = IF stage[a] = "identify"
                                                    THEN DefaultFraming ELSE recorded[a]]
          ELSE /\ g = registered
               /\ users' = [users EXCEPT ![g] = @ + 1]
               /\ UNCHANGED framing
       /\ registered' = g
       /\ held' = [held EXCEPT ![a] = g]
  /\ Goto(a, "frame")
  /\ UNCHANGED <<locked, open, stage, candidate, recorded, found, retrying, history>>

Wanted(a) == IF stage[a] = "identify" THEN Framings[candidate[a]] ELSE recorded[a]

\* `async_set_framing` up to its wait for the bus, and under the bus lock.
CompareFraming(a) ==
  /\ At(a, "frame")
  /\ Goto(a, IF framing[held[a]] = Wanted(a) THEN "work" ELSE "switch")
  /\ UNCHANGED <<objVars, stage, candidate, recorded, held, found, retrying, history>>

SwitchFraming(a) ==
  /\ At(a, "switch")
  /\ framing' = [framing EXCEPT ![held[a]] = Wanted(a)]
  /\ open' = open \ {held[a]}
  /\ Goto(a, "work")
  /\ UNCHANGED <<registered, locked, users, stage, candidate, recorded, held, found, retrying, history>>

-----------------------------------------------------------------------------
(* What the gateway is taken for *)

\* `async_identify` reads the product code in the framing it has just set,
\* unless somebody else has set another one since.
ProbeAnswers(a) ==
  /\ At(a, "work") /\ stage[a] = "identify"
  /\ Succeeds(a, held[a])
  /\ found' = [found EXCEPT ![a] = TRUE]
  /\ Goto(a, "release")
  /\ UNCHANGED <<registered, locked, users, framing, stage, candidate, recorded, held,
                 retrying, history>>

\* Something answers that is no MBIO board: `UnknownDevice`, in this framing
\* and without a try of the others.  Each time the form is submitted, it may
\* hold another slave id.
ProbeMeetsStranger(a) ==
  /\ At(a, "work") /\ stage[a] = "identify"
  /\ Succeeds(a, held[a])
  /\ Goto(a, "release")
  /\ UNCHANGED <<registered, locked, users, framing, stage, candidate, recorded, held,
                 found, retrying, history>>

\* Fault of ProbeSilent: one framing too many.
ProbeSilentPastTheLast(a) ==
  /\ At(a, "work") /\ stage[a] = "identify"
  /\ Fails(held[a])
  /\ IF candidate[a] <= Len(Framings)
     THEN candidate' = [candidate EXCEPT ![a] = @ + 1] /\ Goto(a, "frame")
     ELSE UNCHANGED candidate /\ Goto(a, "release")
  /\ UNCHANGED <<registered, locked, users, framing, stage, recorded, held, found, retrying, history>>

ProbeSilent(a) ==
  /\ At(a, "work") /\ stage[a] = "identify"
  /\ Fails(held[a])
  /\ IF candidate[a] < Len(Framings)
     THEN candidate' = [candidate EXCEPT ![a] = @ + 1] /\ Goto(a, "frame")
     ELSE UNCHANGED candidate /\ Goto(a, "release")
  /\ UNCHANGED <<registered, locked, users, framing, stage, recorded, held, found, retrying, history>>

\* Whether `_async_initial_options` finds the blocks or not, it enables some.
Discover(a) ==
  /\ At(a, "work") /\ stage[a] = "discover"
  /\ Succeeds(a, held[a]) \/ Fails(held[a])
  /\ Goto(a, "release")
  /\ UNCHANGED <<registered, locked, users, framing, stage, candidate, recorded, held,
                 found, retrying, history>>

\* The options are mended after MaxLeaks attempts.
Raises(a) == a \in Misfit /\ leaks < MaxLeaks

\* `async_setup_entry`: the first refresh of every tier came through.
SetupSucceeds(a) ==
  /\ At(a, "work") /\ stage[a] = "setup" /\ ~Raises(a)
  /\ Succeeds(a, held[a])
  /\ stage' = [stage EXCEPT ![a] = "loaded"] /\ Goto(a, "rest")
  /\ UNCHANGED <<registered, locked, users, framing, candidate, recorded, held, found, retrying, history>>

\* Fault of SetupFails: the `except` branch does not release.
SetupForgetsRelease(a) ==
  /\ At(a, "work") /\ stage[a] = "setup" /\ ~Raises(a)
  /\ Fails(held[a])
  /\ stage' = [stage EXCEPT ![a] = "unloaded"] /\ Goto(a, "rest")
  /\ held' = [held EXCEPT ![a] = None]
  /\ UNCHANGED <<registered, locked, users, framing, candidate, recorded, found, retrying, history>>

SetupFails(a) ==
  /\ At(a, "work") /\ stage[a] = "setup" /\ ~Raises(a)
  /\ Fails(held[a])
  /\ Goto(a, "release")
  /\ UNCHANGED <<registered, locked, users, framing, stage, candidate, recorded, held,
                 found, retrying, history>>

\* The coordinators are built outside the `try` that would give it back.
SetupRaises(a) ==
  /\ At(a, "work") /\ stage[a] = "setup" /\ Raises(a)
  /\ leaks' = leaks + 1
  /\ stage' = [stage EXCEPT ![a] = "unloaded"] /\ Goto(a, "rest")
  /\ held' = [held EXCEPT ![a] = None]
  /\ UNCHANGED <<objVars, candidate, recorded, found, retrying, outlived>>

Poll(a) ==
  /\ stage[a] = "loaded"
  /\ Succeeds(a, held[a]) \/ Fails(held[a])
  /\ UNCHANGED <<registered, locked, users, framing, actorVars, history>>

Unload(a) ==
  /\ stage[a] = "loaded"
  /\ stage' = [stage EXCEPT ![a] = "unload"] /\ Goto(a, "release")
  /\ UNCHANGED <<objVars, candidate, recorded, held, found, retrying, history>>

-----------------------------------------------------------------------------
(* Giving a gateway back *)

\* Where an actor goes on.  A flow whose board answered keeps the framing it
\* has tried last and has another stretch with the gateway before its entry
\* exists, unless the board has an entry already: then the flow aborts.  One
\* without a board shows its form again.
Onwards(a) ==
  /\ held' = [held EXCEPT ![a] = None]
  /\ found' = [found EXCEPT ![a] = FALSE]
  /\ candidate' = [candidate EXCEPT ![a] = 1]
  /\ \/ /\ stage[a] = "identify" /\ found[a]
        /\ recorded' = [recorded EXCEPT ![a] = Framings[candidate[a]]]
        /\ stage' = [stage EXCEPT ![a] = "discover"] /\ Goto(a, "get")
     \/ /\ stage[a] = "identify"
        /\ stage' = [stage EXCEPT ![a] = "idle"] /\ Goto(a, "rest")
        /\ UNCHANGED recorded
     \/ /\ stage[a] # "identify"
        /\ stage' = [stage EXCEPT ![a] = "unloaded"] /\ Goto(a, "rest")
        /\ UNCHANGED recorded

\* Fault of Release: the registry lock is not taken.
ReleaseUnlocked(a) ==
  /\ At(a, "release") /\ locked = None
  /\ users' = [users EXCEPT ![held[a]] = IF @ > 0 THEN @ - 1 ELSE 0]
  /\ IF users[held[a]] > 1
     THEN Onwards(a)
     ELSE Goto(a, "closing") /\ UNCHANGED <<stage, held, candidate, recorded, found>>
  /\ UNCHANGED <<registered, locked, framing, open, retrying, history>>

\* `async_release_gateway`: the last user goes on to close the connection and
\* waits for the bus with _REGISTRY_LOCK in hand.
Release(a) ==
  /\ At(a, "release") /\ locked = None
  /\ users' = [users EXCEPT ![held[a]] = IF @ > 0 THEN @ - 1 ELSE 0]
  /\ IF users[held[a]] > 1
     THEN Onwards(a) /\ UNCHANGED locked
     ELSE /\ Goto(a, "closing") /\ locked' = a
          /\ UNCHANGED <<stage, held, candidate, recorded, found>>
  /\ UNCHANGED <<registered, framing, open, retrying, history>>

\* Fault of CloseAndForget: the connection stays open.
CloseWithoutDisconnect(a) ==
  /\ At(a, "closing")
  /\ registered' = None /\ locked' = None
  /\ Onwards(a)
  /\ UNCHANGED <<users, framing, open, retrying, history>>

\* Fault of CloseAndForget: the registry lock is not released.
CloseAndKeepLock(a) ==
  /\ At(a, "closing")
  /\ open' = open \ {held[a]}
  /\ registered' = None
  /\ Onwards(a)
  /\ UNCHANGED <<locked, users, framing, retrying, history>>

CloseAndForget(a) ==
  /\ At(a, "closing")
  /\ open' = open \ {held[a]}
  /\ registered' = None /\ locked' = None
  /\ Onwards(a)
  /\ UNCHANGED <<users, framing, retrying, history>>

-----------------------------------------------------------------------------
(* A service call in its backoff: unloading the entry does not cancel it.      *)
(* Bound: after one has outlived its gateway no other times out.               *)

WriteTimesOut(a) ==
  /\ a \in Writer /\ stage[a] = "loaded" /\ retrying[a] = None
  /\ ~outlived
  /\ retrying' = [retrying EXCEPT ![a] = held[a]]
  /\ Fails(held[a])
  /\ UNCHANGED <<registered, locked, users, framing, stage, step, candidate, recorded,
                 held, found, history>>

RetryWrite(a) ==
  /\ retrying[a] # None
  /\ Succeeds(a, retrying[a]) \/ Fails(retrying[a])
  /\ retrying' = [retrying EXCEPT ![a] = None]
  /\ outlived' = (outlived \/ retrying[a] # registered)
  /\ UNCHANGED <<registered, locked, users, framing, stage, step, candidate, recorded,
                 held, found, leaks>>

-----------------------------------------------------------------------------

Proceed(a) ==
  \/ Get(a) \/ CompareFraming(a) \/ SwitchFraming(a)
  \/ ProbeAnswers(a) \/ ProbeMeetsStranger(a) \/ ProbeSilent(a) \/ Discover(a)
  \/ SetupSucceeds(a) \/ SetupFails(a) \/ SetupRaises(a)
  \/ Release(a) \/ CloseAndForget(a)

Next == \E a \in Actor : \/ Start(a) \/ Proceed(a)
                         \/ Poll(a) \/ Unload(a)
                         \/ WriteTimesOut(a) \/ RetryWrite(a)

Spec == Init /\ [][Next]_vars

\* asyncio.Lock is fair, so that nobody waits for the registry for ever, and
\* every request ends; nothing makes a user submit, load or unload anything.
Fairness == \A a \in Actor : SF_vars(Proceed(a))

FairSpec == Spec /\ Fairness

-----------------------------------------------------------------------------
(* Properties *)

Holders(g) == {a \in Actor : held[a] = g}

\* The count of the registered object is the number of those who use it, and
\* of the setups that raised without giving it back; the last one counts itself
\* out before the connection is closed.
UsersCounted ==
  registered # None =>
    users[registered] =
      leaks + Cardinality({a \in Actor : held[a] = registered /\ ~At(a, "closing")})

\* All who hold a gateway hold the one the registry would give the next.
HoldersShareOne == \A a \in Actor : held[a] # None => held[a] = registered

\* Unless a service call has retried on a gateway after it was closed, the only
\* connection is that of the registered gateway, and somebody holds it, or a
\* setup that raised did not give it back.
OneConnection ==
  ~outlived => /\ open \subseteq {registered}
               /\ leaks = 0 => \A g \in open : Holders(g) # {}

\* README: the integration keeps a single connection per gateway address.
SingleConnection == \A g, h \in open : g = h

Probing == \E a \in Actor : stage[a] = "identify"
Settled(a) == stage[a] = "loaded" /\ recorded[a] = WireFraming

\* The docstring of `async_set_framing`: the framing is a property of the
\* hardware, and whoever discovers the right one fixes it for everyone.
FramingFixedForEveryone ==
  (\E a \in Actor : Settled(a)) /\ ~Probing => framing[registered] = WireFraming

\* Whoever sets out for the gateway comes to rest, with or without it.
ComesToRest == \A a \in Actor : At(a, "get") ~> At(a, "rest")

\* The count, the registry and its lock keep the promise of GatewayRegistry:
\* between the last user's leaving and the end of the connection nobody gets in.
Registry == INSTANCE GatewayRegistry WITH
              uses <- held, late <- retrying,
              kept <- IF leaks = 0 THEN None ELSE registered

RegistrySpec == Registry!Spec
=============================================================================
