---------------------------- MODULE Lifecycle_proofs ----------------------------
(***************************************************************************)
(* Theorems about Lifecycle, for any number of devices, gateways and       *)
(* handlers.  As long as no two handlers were at one component and no Wait *)
(* found the wait group in use again (Calm), the counter of the group is   *)
(* the number of goroutines somebody has added to it, and every handler    *)
(* knows what the component it is at is doing.                             *)
(***************************************************************************)
EXTENDS Lifecycle, FiniteSetTheorems, TLAPS

----------------------------------------------------------------------------
(* The inductive invariant.                                                *)

Types ==
  /\ simState \in {"Stopped", "Running"} /\ page \in BOOLEAN
  /\ state \in [Component -> {"Stopped", "Running"}]
  /\ active \subseteq Component
  /\ inactive \in Int
  /\ routines \in [Component -> Nat] /\ ending \in [Component -> Nat]
  /\ group \in Nat
  /\ pc \in [Handler -> Stage]
  /\ job \in [Handler -> {"on", "off", "run", "stop"}]
  /\ target \in [Handler -> Component]
  /\ todo \in [Handler -> SUBSET Component]

\* Where a handler may be, by what it was called for.
Stages(j) ==
  CASE j = "on"  -> {"idle", "setup", "turnOn", "activate"}
    [] j = "run" -> {"idle", "loop", "setup", "turnOn", "activate"}
    [] j = "off" -> {"idle", "count", "add", "turnOff", "exit", "wait", "blocked", "woken",
                     "forget", "uncount"}
    [] OTHER     -> {"idle", "sum", "loop", "turnOff", "exit", "wait", "blocked", "woken",
                     "reset"}

StagesOK == \A h \in Handler : pc[h] \in Stages(job[h])

Is(h, j) == Busy(h) /\ job[h] = j
At(h, c) == Busy(h) /\ job[h] \in {"on", "off"} /\ target[h] = c

\* Who may be busy at the same time.
Alone ==
  /\ \A c \in Component : \A h, k \in Handler : At(h, c) /\ At(k, c) => h = k
  /\ \A h, k \in Handler : Is(h, "run") /\ Busy(k) => h = k
  /\ \A h, k \in Handler :
       Is(h, "stop") /\ Busy(k) /\ h # k => job[k] = "off" /\ target[k] \in Gateway

\* The page, the simulator's state and the handlers.
Pages ==
  /\ page => simState = "Running" /\ \A h \in Handler : ~Is(h, "run") /\ ~Is(h, "stop")
  /\ simState = "Running" => page \/ \E h \in Handler : Is(h, "run")
  /\ \A h \in Handler : /\ Is(h, "on") => page
                        /\ Is(h, "run") => simState = "Running"
                        /\ Is(h, "stop") => simState = "Stopped"

\* Stop has added everything that runs to the wait group, a handler that turns
\* one component off its goroutine.
PastSum(h)  == Is(h, "stop") /\ pc[h] # "sum"
Adding(h)   == Is(h, "off") /\ pc[h] \in {"count", "add"}
PastAdd(h)  == Is(h, "off") /\ pc[h] \notin {"count", "add"}
Counts(c)   == \E h \in Handler : PastSum(h) \/ (PastAdd(h) /\ target[h] = c)

\* What a handler knows of its component.
Knows ==
  \A h \in Handler :
    /\ Busy(h) /\ pc[h] \in {"setup", "turnOn"} => ~IsOn(target[h])
    /\ pc[h] = "activate" => IsOn(target[h])
    /\ Adding(h) => IsOn(target[h]) /\ \A k \in Handler : ~PastSum(k)
    /\ pc[h] = "exit" => ~IsOn(target[h])
    /\ pc[h] \in {"forget", "uncount"} => routines[target[h]] + ending[target[h]] = 0
    /\ pc[h] = "uncount" => target[h] \notin active
    /\ pc[h] = "reset" => \A c \in Component : routines[c] + ending[c] = 0

\* A component has one goroutine at most; one that does not run on is counted.
Routines ==
  \A c \in Component :
    /\ routines[c] + ending[c] <= 1
    /\ IsOn(c) => routines[c] = 1
    /\ (routines[c] > 0 /\ ~IsOn(c)) \/ ending[c] > 0 => Counts(c)

Counted    == {c \in Component : routines[c] + ending[c] > 0 /\ Counts(c)}
TurningOff == {c \in Component :
                 \E h \in Handler : Is(h, "off") /\ pc[h] # "count" /\ target[h] = c}

Sums == group = Cardinality(Counted) /\ inactive = Cardinality(TurningOff)

\* The map of active components while the simulator runs.
InUse == simState = "Running" \/ \E h \in Handler : pc[h] = "sum"

Maps ==
  InUse /\ (\A h \in Handler : ~Is(h, "run")) =>
    \A c \in Component :
      /\ (\A h \in Handler : ~At(h, c)) => (c \in active <=> IsOn(c))
      /\ \A h \in Handler : Is(h, "off") /\ target[h] = c /\ pc[h] # "uncount" => c \in active

\* The loop of Run.
Loops ==
  \A h \in Handler : Is(h, "run") =>
    /\ \A c \in active :
         IsOn(c) \/ c \in todo[h] \/ (target[h] = c /\ pc[h] \in {"setup", "turnOn"})
    /\ \A c \in Component : IsOn(c) => c \in active
    /\ \A c \in todo[h] : ~IsOn(c)
    /\ pc[h] \in {"setup", "turnOn"} => target[h] \in active /\ target[h] \notin todo[h]

Still ==
  simState = "Stopped" /\ (\A h \in Handler : ~Is(h, "stop")) =>
    \A c \in Component : routines[c] + ending[c] = 0

CalmInv ==
  /\ ~crashed
  /\ StagesOK /\ Alone /\ Pages /\ Knows /\ Routines /\ Sums /\ Maps /\ Loops /\ Still

IInv == Types /\ (Calm => CalmInv)

----------------------------------------------------------------------------
(* Sets of components.                                                     *)

LEMMA Finite == \A S \in SUBSET Component : IsFiniteSet(S) /\ Cardinality(S) \in Nat
  BY LifecycleAssumption, FS_Subset, FS_CardinalityType DEF Component

LEMMA OneMore ==
  ASSUME NEW S \in SUBSET Component, NEW c \in Component, c \notin S
  PROVE  Cardinality(S \cup {c}) = Cardinality(S) + 1
  BY Finite, FS_AddElement

LEMMA OneLess ==
  ASSUME NEW S \in SUBSET Component, NEW c \in S
  PROVE  Cardinality(S \ {c}) = Cardinality(S) - 1
  BY Finite, FS_RemoveElement

----------------------------------------------------------------------------
(* Each step while all is calm.                                            *)

\* A request that turns a component on or off begins, with no other at it.
BeginsOn(h, c) ==
  /\ Begin(h, "on", c, "setup") /\ page /\ ~IsOn(c)
  /\ active' \in {active, active \cup {c}}
  /\ \A k \in Handler : ~At(k, c) /\ ~Is(k, "run") /\ ~Is(k, "stop")
  /\ simState = "Running"
  /\ UNCHANGED <<simState, page, state, inactive, routines, groupVars, todo, crashed>>

BeginsOff(h, c) ==
  /\ Begin(h, "off", c, "count") /\ page /\ IsOn(c)
  /\ \A k \in Handler : ~At(k, c) /\ ~Is(k, "run") /\ ~Is(k, "stop")
  /\ simState = "Running"
  /\ UNCHANGED <<simState, page, state, active, inactive, routines, groupVars, todo, crashed>>

\* The files change, and with them the map, with nobody at the component.
Edits(c) ==
  /\ ~IsOn(c)
  /\ active' = active \ {c} \/ (active' = active \cup {c} /\ simState = "Stopped")
  /\ \A k \in Handler : ~At(k, c) /\ ~Is(k, "run") /\ ~Is(k, "stop")
  /\ UNCHANGED <<simState, page, state, inactive, routines, groupVars, pc, handlerVars,
                 crashed>>

\* Nobody else is at the component of a handler that turns it on.
LEMMA ApartOn ==
  ASSUME Types, CalmInv, NEW h \in Handler, Busy(h), job[h] \in {"on", "run"},
         NEW k \in Handler, Busy(k), k # h, target[h] \in Component
  PROVE  target[k] # target[h] /\ job[k] \in {"on", "off"}
<1>1. job[k] \in {"on", "run", "off", "stop"} /\ Alone
  BY DEF Types, CalmInv
<1> QED
  BY <1>1 DEF Alone, At, Is

\* A handler adds the goroutine of its component, which runs and nobody counts.
LEMMA AddKeeps ==
  ASSUME Types, CalmInv, Calm, Calm', NEW h \in Handler, Add(h)
  PROVE  CalmInv'
<1>1. /\ pc[h] = "add" /\ \A k \in Handler : pc'[k] = IF k = h THEN "turnOff" ELSE pc[k]
      /\ UNCHANGED <<simState, page, state, active, inactive, routines, ending, handlerVars,
                     crashed>>
      /\ group' = group + 1
  BY DEF Add, Types, Goto, simVars
<1>2. active \subseteq Component /\ \A k \in Handler :
        target[k] \in Component /\ todo[k] \subseteq Component
  BY DEF Types
<1> USE <1>1, <1>2 DEF groupVars, handlerVars
<1>3. job[h] = "off" /\ target[h] \in Component
  BY DEF CalmInv, StagesOK, Stages, Types
<1> USE <1>3
<1>4. ~crashed'
  BY DEF CalmInv
<1>5. StagesOK'
  BY DEF CalmInv, StagesOK, Stages
<1>6. Alone'
  BY DEF CalmInv, Alone, At, Is, Busy
<1>7. Pages'
  BY DEF CalmInv, Pages, Is, Busy
<1>8. Knows'
  BY DEF CalmInv, Knows, Is, Busy, Adding, PastSum, IsOn
<1>9. Routines'
  BY DEF CalmInv, Routines, Counts, Is, Busy, PastSum, PastAdd, IsOn
<1>10. Maps'
  BY DEF CalmInv, Maps, InUse, At, Is, Busy, IsOn
<1>11. Loops'
  BY DEF CalmInv, Loops, Is, Busy, IsOn
<1>12. Still'
  BY DEF CalmInv, Still, Is, Busy
<1>13. Sums'
  <2>1. routines[target[h]] + ending[target[h]] > 0
    <3>1. IsOn(target[h])
      BY DEF CalmInv, Knows, Is, Busy, Adding
    <3> QED
      BY <3>1 DEF CalmInv, Routines, Types
  <2>2. target[h] \notin Counted
    BY DEF CalmInv, Knows, Alone, Counted, Counts, Is, At, Busy, Adding, PastSum, PastAdd
  <2>3. Counted' = Counted \cup {target[h]}
    BY <2>1 DEF Counted, Counts, Is, Busy, PastSum, PastAdd
  <2>4. TurningOff' = TurningOff
    BY DEF TurningOff, Is, Busy
  <2>5. Counted \in SUBSET Component
    BY DEF Counted
  <2> QED
    BY <2>2, <2>3, <2>4, <2>5, OneMore DEF CalmInv, Sums
<1> QED
  BY <1>4, <1>5, <1>6, <1>7, <1>8, <1>9, <1>10, <1>11, <1>12, <1>13 DEF CalmInv

\* A handler counts its component once.
LEMMA CountKeeps ==
  ASSUME Types, CalmInv, Calm, Calm', NEW h \in Handler, Count(h)
  PROVE  CalmInv'
<1>1. /\ pc[h] = "count" /\ \A k \in Handler : pc'[k] = IF k = h THEN "add" ELSE pc[k]
      /\ UNCHANGED <<simState, page, state, active, routines, groupVars, handlerVars, crashed>>
      /\ inactive' = inactive + 1
  BY DEF Count, Types, Goto, simVars
<1>2. active \subseteq Component /\ \A k \in Handler :
        target[k] \in Component /\ todo[k] \subseteq Component
  BY DEF Types
<1> USE <1>1, <1>2 DEF groupVars, handlerVars
<1>3. job[h] = "off" /\ target[h] \in Component
  BY DEF CalmInv, StagesOK, Stages, Types
<1> USE <1>3
<1>4. ~crashed'
  BY DEF CalmInv
<1>5. StagesOK'
  BY DEF CalmInv, StagesOK, Stages
<1>6. Alone'
  BY DEF CalmInv, Alone, At, Is, Busy
<1>7. Pages'
  BY DEF CalmInv, Pages, Is, Busy
<1>8. Knows'
  BY DEF CalmInv, Knows, Is, Busy, Adding, PastSum, IsOn
<1>9. Routines'
  BY DEF CalmInv, Routines, Counts, Is, Busy, PastSum, PastAdd, IsOn
<1>10. Maps'
  BY DEF CalmInv, Maps, InUse, At, Is, Busy, IsOn
<1>11. Loops'
  BY DEF CalmInv, Loops, Is, Busy, IsOn
<1>12. Still'
  BY DEF CalmInv, Still, Is, Busy
<1>13. Sums'
  <2>1. target[h] \notin TurningOff
    BY DEF CalmInv, Alone, TurningOff, Is, At, Busy
  <2>2. TurningOff' = TurningOff \cup {target[h]}
    BY DEF TurningOff, Is, Busy
  <2>3. Counted' = Counted
    BY DEF Counted, Counts, Is, Busy, PastSum, PastAdd
  <2>4. TurningOff \in SUBSET Component
    BY DEF TurningOff
  <2> QED
    BY <2>1, <2>2, <2>3, <2>4, OneMore DEF CalmInv, Sums
<1> QED
  BY <1>4, <1>5, <1>6, <1>7, <1>8, <1>9, <1>10, <1>11, <1>12, <1>13 DEF CalmInv

\* A handler that is done with its component leaves it off and out of the map.
LEMMA UncountKeeps ==
  ASSUME Types, CalmInv, Calm, Calm', NEW h \in Handler, Uncount(h)
  PROVE  CalmInv'
<1>1. /\ pc[h] = "uncount" /\ \A k \in Handler :
           pc'[k] = IF k # h THEN pc[k]
                    ELSE IF job[h] \in {"run", "stop"} THEN "loop" ELSE "idle"
      /\ UNCHANGED <<simState, page, state, active, routines, groupVars, handlerVars, crashed>>
      /\ inactive' = inactive - 1
      /\ \A c \in Component : routines[c] \in Nat /\ ending[c] \in Nat
  BY DEF Uncount, Returns, Types, Goto, simVars
<1>2. active \subseteq Component /\ \A k \in Handler :
        target[k] \in Component /\ todo[k] \subseteq Component
  BY DEF Types
<1> USE <1>1, <1>2 DEF groupVars, handlerVars
<1>3. job[h] = "off" /\ target[h] \in Component
  BY DEF CalmInv, StagesOK, Stages, Types
<1> USE <1>3
<1>4. ~crashed'
  BY DEF CalmInv
<1>5. StagesOK'
  BY DEF CalmInv, StagesOK, Stages
<1>6. Alone'
  BY DEF CalmInv, Alone, At, Is, Busy
<1>7. Pages'
  BY DEF CalmInv, Pages, Is, Busy
<1>8. Knows'
  BY DEF CalmInv, Knows, Is, Busy, Adding, PastSum, IsOn
<1>9. Routines'
  BY DEF CalmInv, Knows, Routines, Counts, Is, Busy, PastSum, PastAdd, IsOn
<1>10. Maps'
  BY DEF CalmInv, Knows, Routines, Maps, InUse, At, Is, Busy, IsOn
<1>11. Loops'
  BY DEF CalmInv, Loops, Is, Busy, IsOn
<1>12. Still'
  BY DEF CalmInv, Still, Is, Busy
<1>13. Sums'
  <2>1. target[h] \in TurningOff
    BY DEF TurningOff, Is, Busy
  <2>2. TurningOff' = TurningOff \ {target[h]}
    BY DEF CalmInv, Alone, TurningOff, Is, At, Busy
  <2>3. Counted' = Counted
    BY DEF CalmInv, Knows, Counted, Counts, Is, Busy, PastSum, PastAdd
  <2>4. TurningOff \in SUBSET Component
    BY DEF TurningOff
  <2> QED
    BY <2>1, <2>2, <2>3, <2>4, OneLess DEF CalmInv, Sums
<1> QED
  BY <1>4, <1>5, <1>6, <1>7, <1>8, <1>9, <1>10, <1>11, <1>12, <1>13 DEF CalmInv

\* The component a handler takes out of the map has no goroutine left.
LEMMA ForgetKeeps ==
  ASSUME Types, CalmInv, Calm, Calm', NEW h \in Handler, Forget(h)
  PROVE  CalmInv'
<1>1. /\ pc[h] = "forget" /\ \A k \in Handler : pc'[k] = IF k = h THEN "uncount" ELSE pc[k]
      /\ UNCHANGED <<simState, page, state, inactive, routines, groupVars, handlerVars,
                     crashed>>
      /\ active' = active \ {target[h]}
  BY DEF Forget, Types, Goto, simVars
<1>2. active \subseteq Component /\ \A k \in Handler :
        target[k] \in Component /\ todo[k] \subseteq Component
  BY DEF Types
<1> USE <1>1, <1>2 DEF groupVars, handlerVars
<1>3. job[h] = "off" /\ target[h] \in Component
  BY DEF CalmInv, StagesOK, Stages, Types
<1> USE <1>3
<1>4. ~crashed'
  BY DEF CalmInv
<1>5. StagesOK'
  BY DEF CalmInv, StagesOK, Stages
<1>6. Alone'
  BY DEF CalmInv, Alone, At, Is, Busy
<1>7. Pages'
  BY DEF CalmInv, Pages, Is, Busy
<1>8. Knows'
  BY DEF CalmInv, Knows, Is, Busy, Adding, PastSum, IsOn
<1>9. Routines'
  BY DEF CalmInv, Routines, Counts, Is, Busy, PastSum, PastAdd, IsOn
<1>10. Maps'
  BY DEF CalmInv, Alone, Maps, InUse, At, Is, Busy, IsOn
<1>11. Loops'
  BY DEF CalmInv, Alone, Loops, Is, Busy, IsOn
<1>12. Still'
  BY DEF CalmInv, Still, Is, Busy
<1>13. Sums'
  <2>1. Counted' = Counted
    BY DEF Counted, Counts, Is, Busy, PastSum, PastAdd
  <2>2. TurningOff' = TurningOff
    BY DEF TurningOff, Is, Busy
  <2> QED
    BY <2>1, <2>2 DEF CalmInv, Sums
<1> QED
  BY <1>4, <1>5, <1>6, <1>7, <1>8, <1>9, <1>10, <1>11, <1>12, <1>13 DEF CalmInv

\* While a handler counts, the group is zero only once what it counts is gone.
LEMMA WaitKeeps ==
  ASSUME Types, CalmInv, Calm, Calm', NEW h \in Handler, Wait(h) \/ WaitReturns(h)
  PROVE  CalmInv'
<1>1. /\ UNCHANGED <<simState, page, state, active, inactive, routines, groupVars,
                     handlerVars, crashed>>
      /\ pc[h] \in {"wait", "woken"}
      /\ \E l \in {"blocked", "reset", "forget"} :
           /\ \A k \in Handler : pc'[k] = IF k = h THEN l ELSE pc[k]
           /\ l # "blocked" => group = 0 /\ l = AfterWait(h)
  BY DEF Wait, WaitReturns, AfterWait, Types, Goto, simVars
<1>2. active \subseteq Component /\ \A k \in Handler :
        target[k] \in Component /\ todo[k] \subseteq Component
  BY DEF Types
<1> USE <1>1, <1>2 DEF groupVars, handlerVars
<1>3. job[h] \in {"off", "stop"} /\ target[h] \in Component
  BY DEF CalmInv, StagesOK, Stages, Types
<1>4. group = 0 => \A c \in Component : Counts(c) => routines[c] + ending[c] = 0
  <2>1. group = 0 => Counted = {}
    BY Finite, FS_EmptySet DEF CalmInv, Sums, Counted
  <2>2. \A c \in Component : routines[c] \in Nat /\ ending[c] \in Nat
    BY DEF Types
  <2> QED
    BY <2>1, <2>2 DEF Counted
<1>5. Counts(target[h]) /\ (job[h] = "stop" => \A c \in Component : Counts(c))
  BY <1>3 DEF Counts, PastSum, PastAdd, Is, Busy
<1> USE <1>3, <1>4, <1>5 DEF AfterWait
<1>6. ~crashed'
  BY DEF CalmInv
<1>7. StagesOK'
  BY DEF CalmInv, StagesOK, Stages
<1>8. Alone'
  BY DEF CalmInv, Alone, At, Is, Busy
<1>9. Pages'
  BY DEF CalmInv, Pages, Is, Busy
<1>10. Knows'
  BY DEF CalmInv, Knows, Is, Busy, Adding, PastSum, IsOn
<1>11. Routines'
  BY DEF CalmInv, Routines, Counts, Is, Busy, PastSum, PastAdd, IsOn
<1>12. Maps'
  BY DEF CalmInv, Maps, InUse, At, Is, Busy, IsOn
<1>13. Loops'
  BY DEF CalmInv, Loops, Is, Busy, IsOn
<1>14. Still'
  BY DEF CalmInv, Still, Is, Busy
<1>15. Sums'
  <2>1. Counted' = Counted
    BY DEF Counted, Counts, Is, Busy, PastSum, PastAdd
  <2>2. TurningOff' = TurningOff
    BY DEF TurningOff, Is, Busy
  <2> QED
    BY <2>1, <2>2 DEF CalmInv, Sums
<1> QED
  BY <1>6, <1>7, <1>8, <1>9, <1>10, <1>11, <1>12, <1>13, <1>14, <1>15 DEF CalmInv

\* What is turned off is counted, and nobody relies on its being on.
LEMMA TurnOffKeeps ==
  ASSUME Types, CalmInv, Calm, Calm', NEW h \in Handler, TurnOff(h)
  PROVE  CalmInv'
<1>1. /\ UNCHANGED <<simState, page, active, inactive, routines, groupVars, handlerVars,
                     crashed>>
      /\ pc[h] = "turnOff" /\ target[h] \in Component
      /\ \E l \in {"exit", "wait", "loop"} :
           /\ \A k \in Handler : pc'[k] = IF k = h THEN l ELSE pc[k]
           /\ l # "exit" => l = AfterTurnOff(h)
      /\ \A c \in Component : state'[c] = IF c = target[h] THEN "Stopped" ELSE state[c]
  BY DEF TurnOff, AfterTurnOff, Types, Goto, simVars
<1>2. active \subseteq Component /\ \A k \in Handler :
        target[k] \in Component /\ todo[k] \subseteq Component
  BY DEF Types
<1> USE <1>1, <1>2 DEF groupVars, handlerVars
<1>3. job[h] \in {"off", "stop"}
  BY DEF CalmInv, StagesOK, Stages, Types
<1> USE <1>3 DEF AfterTurnOff
<1>4. ~crashed'
  BY DEF CalmInv
<1>5. StagesOK'
  BY DEF CalmInv, StagesOK, Stages
<1>6. Alone'
  BY DEF CalmInv, Alone, At, Is, Busy
<1>7. Pages'
  BY DEF CalmInv, Pages, Is, Busy
<1>8. Knows'
  BY DEF CalmInv, StagesOK, Stages, Alone, At, Knows, Is, Busy, Adding, PastSum, IsOn
<1>9. Routines'
  BY DEF CalmInv, Routines, Counts, Is, Busy, PastSum, PastAdd, IsOn
<1>10. Maps'
  BY DEF CalmInv, StagesOK, Stages, Alone, Pages, Maps, InUse, At, Is, Busy, IsOn
<1>11. Loops'
  BY DEF CalmInv, Alone, Loops, Is, Busy, IsOn
<1>12. Still'
  BY DEF CalmInv, Still, Is, Busy
<1>13. Sums'
  <2>1. Counted' = Counted
    BY DEF Counted, Counts, Is, Busy, PastSum, PastAdd
  <2>2. TurningOff' = TurningOff
    BY DEF TurningOff, Is, Busy
  <2> QED
    BY <2>1, <2>2 DEF CalmInv, Sums
<1> QED
  BY <1>4, <1>5, <1>6, <1>7, <1>8, <1>9, <1>10, <1>11, <1>12, <1>13 DEF CalmInv

\* Nobody sends on the channel that Setup replaces.
LEMMA SetupKeeps ==
  ASSUME Types, CalmInv, Calm, Calm', NEW h \in Handler, Setup(h)
  PROVE  CalmInv'
<1>1. /\ UNCHANGED <<simState, page, active, inactive, routines, groupVars, handlerVars,
                     crashed>>
      /\ pc[h] = "setup" /\ target[h] \in Component
      /\ \A k \in Handler :
           pc'[k] = IF k = h THEN "turnOn"
                    ELSE IF pc[k] = "exit" /\ target[k] = target[h] THEN "lost" ELSE pc[k]
      /\ \A c \in Component : state'[c] = IF c = target[h] THEN "Stopped" ELSE state[c]
  BY DEF Setup, Types, Goto, simVars
<1>2. active \subseteq Component /\ \A k \in Handler :
        target[k] \in Component /\ todo[k] \subseteq Component
  BY DEF Types
<1> USE <1>1, <1>2 DEF groupVars, handlerVars
<1>3. job[h] \in {"on", "run"}
  BY DEF CalmInv, StagesOK, Stages, Types
<1>4. \A k \in Handler : ~(pc[k] = "exit" /\ target[k] = target[h])
  BY <1>3 DEF CalmInv, StagesOK, Stages, Alone, Types, At, Is, Busy
<1>5. \A c \in Component : state'[c] = state[c]
  BY <1>3 DEF CalmInv, Knows, Busy, IsOn, Types
<1> USE <1>3, <1>4, <1>5
<1>6. ~crashed'
  BY DEF CalmInv
<1>7. StagesOK'
  BY DEF CalmInv, StagesOK, Stages
<1>8. Alone'
  BY DEF CalmInv, Alone, At, Is, Busy
<1>9. Pages'
  BY DEF CalmInv, Pages, Is, Busy
<1>10. Knows'
  BY DEF CalmInv, Knows, Is, Busy, Adding, PastSum, IsOn
<1>11. Routines'
  BY DEF CalmInv, Routines, Counts, Is, Busy, PastSum, PastAdd, IsOn
<1>12. Maps'
  BY DEF CalmInv, Maps, InUse, At, Is, Busy, IsOn
<1>13. Loops'
  BY DEF CalmInv, Loops, Is, Busy, IsOn
<1>14. Still'
  BY DEF CalmInv, Still, Is, Busy
<1>15. Sums'
  <2>1. Counted' = Counted
    BY DEF Counted, Counts, Is, Busy, PastSum, PastAdd
  <2>2. TurningOff' = TurningOff
    BY DEF TurningOff, Is, Busy
  <2> QED
    BY <2>1, <2>2 DEF CalmInv, Sums
<1> QED
  BY <1>6, <1>7, <1>8, <1>9, <1>10, <1>11, <1>12, <1>13, <1>14, <1>15 DEF CalmInv

\* What is turned on has no goroutine, and nobody counts it.
LEMMA TurnOnKeeps ==
  ASSUME Types, CalmInv, Calm, Calm', NEW h \in Handler, TurnOn(h)
  PROVE  CalmInv'
<1>1. /\ UNCHANGED <<simState, page, active, inactive, groupVars, handlerVars, crashed>>
      /\ pc[h] = "turnOn" /\ target[h] \in Component
      /\ \A k \in Handler : pc'[k] = IF k = h THEN "activate" ELSE pc[k]
      /\ \A c \in Component : state'[c] = IF c = target[h] THEN "Running" ELSE state[c]
      /\ \A c \in Component :
           routines'[c] = IF c = target[h] THEN routines[c] + 1 ELSE routines[c]
      /\ \A c \in Component : routines[c] \in Nat /\ ending[c] \in Nat
  BY DEF TurnOn, Types, Goto, simVars
<1>2. active \subseteq Component /\ \A k \in Handler :
        target[k] \in Component /\ todo[k] \subseteq Component
  BY DEF Types
<1> USE <1>1, <1>2 DEF groupVars, handlerVars
<1>3. job[h] \in {"on", "run"}
  BY DEF CalmInv, StagesOK, Stages, Types
<1>4. \A k \in Handler : Busy(k) /\ k # h => target[k] # target[h] /\ job[k] \in {"on", "off"}
  BY <1>3, ApartOn DEF Busy
<1>5. ~Counts(target[h]) /\ routines[target[h]] + ending[target[h]] = 0
  <2>1. ~Counts(target[h])
    BY <1>3 DEF CalmInv, Alone, Counts, PastSum, PastAdd, At, Is, Busy
  <2> QED
    BY <1>3, <2>1 DEF CalmInv, Knows, Routines, Is, Busy, IsOn
<1> USE <1>3, <1>5, <1>4
<1>6. ~crashed'
  BY DEF CalmInv
<1>7. StagesOK'
  BY DEF CalmInv, StagesOK, Stages
<1>8. Alone'
  BY DEF CalmInv, Alone, At, Is, Busy
<1>9. Pages'
  BY DEF CalmInv, Pages, Is, Busy
<1>10. Knows'
  BY DEF CalmInv, StagesOK, Stages, Knows, Is, Busy, Adding, PastSum, IsOn
<1>11. Routines'
  <2>1. ASSUME NEW c \in Component, c # target[h]
        PROVE  /\ routines'[c] = routines[c] /\ ending'[c] = ending[c]
               /\ IsOn(c)' = IsOn(c) /\ Counts(c)' = Counts(c)
    BY <2>1 DEF Counts, Is, Busy, PastSum, PastAdd, IsOn
  <2>2. routines'[target[h]] = 1 /\ ending'[target[h]] = 0 /\ IsOn(target[h])'
    BY DEF CalmInv, Alone, Is, Busy, IsOn
  <2> QED
    BY <2>1, <2>2 DEF CalmInv, Routines
<1>12. Maps'
  BY DEF CalmInv, Maps, InUse, At, Is, Busy, IsOn
<1>13. Loops'
  BY DEF CalmInv, Alone, Knows, Loops, Is, Busy, IsOn
<1>14. Still'
  BY DEF CalmInv, Pages, Still, Is, Busy
<1>15. Sums'
  <2>1. Counted' = Counted
    BY DEF Counted, Counts, Is, Busy, PastSum, PastAdd
  <2>2. TurningOff' = TurningOff
    BY DEF TurningOff, Is, Busy
  <2> QED
    BY <2>1, <2>2 DEF CalmInv, Sums
<1> QED
  BY <1>6, <1>7, <1>8, <1>9, <1>10, <1>11, <1>12, <1>13, <1>14, <1>15 DEF CalmInv

\* What enters the map is on.
LEMMA ActivateKeeps ==
  ASSUME Types, CalmInv, Calm, Calm', NEW h \in Handler, Activate(h)
  PROVE  CalmInv'
<1>1. /\ UNCHANGED <<simState, page, state, inactive, routines, groupVars, handlerVars,
                     crashed>>
      /\ pc[h] = "activate" /\ target[h] \in Component
      /\ \A k \in Handler :
           pc'[k] = IF k # h THEN pc[k]
                    ELSE IF job[h] \in {"run", "stop"} THEN "loop" ELSE "idle"
      /\ active' = active \cup {target[h]}
  BY DEF Activate, Returns, Types, Goto, simVars
<1>2. active \subseteq Component /\ \A k \in Handler :
        target[k] \in Component /\ todo[k] \subseteq Component
  BY DEF Types
<1> USE <1>1, <1>2 DEF groupVars, handlerVars
<1>3. job[h] \in {"on", "run"}
  BY DEF CalmInv, StagesOK, Stages, Types
<1>4. \A k \in Handler : Busy(k) /\ k # h => target[k] # target[h] /\ job[k] \in {"on", "off"}
  BY <1>3, ApartOn DEF Busy
<1> USE <1>3, <1>4
<1>5. ~crashed'
  BY DEF CalmInv
<1>6. StagesOK'
  BY DEF CalmInv, StagesOK, Stages
<1>7. Alone'
  BY DEF CalmInv, Alone, At, Is, Busy
<1>8. Pages'
  BY DEF CalmInv, Pages, Is, Busy
<1>9. Knows'
  BY DEF CalmInv, StagesOK, Stages, Knows, Is, Busy, Adding, PastSum, IsOn
<1>10. Routines'
  BY DEF CalmInv, Routines, Counts, Is, Busy, PastSum, PastAdd, IsOn
<1>11. Maps'
  BY DEF CalmInv, Knows, Maps, InUse, At, Is, Busy, IsOn
<1>12. Loops'
  BY DEF CalmInv, Alone, Knows, Loops, Is, Busy, IsOn
<1>13. Still'
  BY DEF CalmInv, Still, Is, Busy
<1>14. Sums'
  <2>1. Counted' = Counted
    BY DEF Counted, Counts, Is, Busy, PastSum, PastAdd
  <2>2. TurningOff' = TurningOff
    BY DEF TurningOff, Is, Busy
  <2> QED
    BY <2>1, <2>2 DEF CalmInv, Sums
<1> QED
  BY <1>5, <1>6, <1>7, <1>8, <1>9, <1>10, <1>11, <1>12, <1>13, <1>14 DEF CalmInv

\* The requests.
LEMMA BeginOnKeeps ==
  ASSUME Types, CalmInv, Calm, Calm', NEW h \in Handler, NEW c \in Component, BeginsOn(h, c)
  PROVE  CalmInv'
<1>1. /\ UNCHANGED <<simState, page, state, inactive, routines, groupVars, crashed>>
      /\ pc[h] = "idle" /\ page
      /\ \A k \in Handler : /\ pc'[k] = IF k = h THEN "setup" ELSE pc[k]
                            /\ job'[k] = IF k = h THEN "on" ELSE job[k]
                            /\ target'[k] = IF k = h THEN c ELSE target[k]
      /\ todo' = todo /\ simState = "Running" /\ ~IsOn(c)
      /\ \A k \in Handler : ~At(k, c) /\ ~Is(k, "run") /\ ~Is(k, "stop")
      /\ active' = active \/ active' = active \cup {c}
  BY DEF BeginsOn, Begin, Busy, Types, Goto, simVars
<1>2. active \subseteq Component /\ \A k \in Handler :
        target[k] \in Component /\ todo[k] \subseteq Component
  BY DEF Types
<1> USE <1>1, <1>2 DEF groupVars, handlerVars
<1>3. ~crashed'
  BY DEF CalmInv
<1>4. StagesOK'
  BY DEF CalmInv, StagesOK, Stages
<1>5. Alone'
  BY DEF CalmInv, Alone, At, Is, Busy
<1>6. Pages'
  BY DEF CalmInv, Pages, Is, Busy
<1>7. Knows'
  BY DEF CalmInv, StagesOK, Stages, At, Knows, Is, Busy, Adding, PastSum, IsOn
<1>8. Routines'
  BY DEF CalmInv, Routines, Counts, Is, Busy, PastSum, PastAdd, IsOn
<1>9. Maps'
  BY DEF CalmInv, Maps, InUse, At, Is, Busy, IsOn
<1>10. Loops'
  BY DEF CalmInv, Loops, Is, Busy, IsOn
<1>11. Still'
  BY DEF CalmInv, Still, Is, Busy
<1>12. Sums'
  <2>1. Counted' = Counted
    BY DEF Counted, Counts, Is, Busy, PastSum, PastAdd
  <2>2. TurningOff' = TurningOff
    BY DEF TurningOff, Is, Busy
  <2> QED
    BY <2>1, <2>2 DEF CalmInv, Sums
<1> QED
  BY <1>3, <1>4, <1>5, <1>6, <1>7, <1>8, <1>9, <1>10, <1>11, <1>12 DEF CalmInv

LEMMA BeginOffKeeps ==
  ASSUME Types, CalmInv, Calm, Calm', NEW h \in Handler, NEW c \in Component, BeginsOff(h, c)
  PROVE  CalmInv'
<1>1. /\ UNCHANGED <<simState, page, state, active, inactive, routines, groupVars, crashed>>
      /\ pc[h] = "idle" /\ page
      /\ \A k \in Handler : /\ pc'[k] = IF k = h THEN "count" ELSE pc[k]
                            /\ job'[k] = IF k = h THEN "off" ELSE job[k]
                            /\ target'[k] = IF k = h THEN c ELSE target[k]
      /\ todo' = todo /\ simState = "Running" /\ IsOn(c)
      /\ \A k \in Handler : ~At(k, c) /\ ~Is(k, "run") /\ ~Is(k, "stop")
  BY DEF BeginsOff, Begin, Busy, Types, Goto, simVars
<1>2. active \subseteq Component /\ \A k \in Handler :
        target[k] \in Component /\ todo[k] \subseteq Component
  BY DEF Types
<1> USE <1>1, <1>2 DEF groupVars, handlerVars
<1>3. ~crashed'
  BY DEF CalmInv
<1>4. StagesOK'
  BY DEF CalmInv, StagesOK, Stages
<1>5. Alone'
  BY DEF CalmInv, Alone, At, Is, Busy
<1>6. Pages'
  BY DEF CalmInv, Pages, Is, Busy
<1>7. Knows'
  BY DEF CalmInv, Knows, Is, Busy, Adding, PastSum, IsOn
<1>8. Routines'
  BY DEF CalmInv, Routines, Counts, Is, Busy, PastSum, PastAdd, IsOn
<1>9. Maps'
  BY DEF CalmInv, Maps, InUse, At, Is, Busy, IsOn
<1>10. Loops'
  BY DEF CalmInv, Loops, Is, Busy, IsOn
<1>11. Still'
  BY DEF CalmInv, Still, Is, Busy
<1>12. Sums'
  <2>1. Counted' = Counted
    BY DEF Counted, Counts, Is, Busy, PastSum, PastAdd
  <2>2. TurningOff' = TurningOff
    BY DEF TurningOff, Is, Busy
  <2> QED
    BY <2>1, <2>2 DEF CalmInv, Sums
<1> QED
  BY <1>3, <1>4, <1>5, <1>6, <1>7, <1>8, <1>9, <1>10, <1>11, <1>12 DEF CalmInv

\* Run starts where nothing runs, with its loop over the whole map before it.
LEMMA RunKeeps ==
  ASSUME Types, CalmInv, Calm, Calm', NEW h \in Handler, Run(h)
  PROVE  CalmInv'
<1>1. /\ UNCHANGED <<page, inactive, routines, groupVars, crashed, target>>
      /\ pc[h] = "idle" /\ ~page
      /\ simState' = "Running" /\ simState = "Stopped"
      /\ \A k \in Handler : pc[k] = "idle"
      /\ \A k \in Handler : /\ pc'[k] = IF k = h THEN "loop" ELSE pc[k]
                            /\ job'[k] = IF k = h THEN "run" ELSE job[k]
      /\ todo'[h] = active'
      /\ \A c \in Component : state'[c] = "Stopped"
      /\ \A c \in Component : routines[c] \in Nat /\ ending[c] \in Nat
  BY DEF Run, Begin, Busy, Calm, Types, Goto, simVars
<1>2. active \subseteq Component /\ \A k \in Handler :
        target[k] \in Component /\ todo[k] \subseteq Component
  BY DEF Types
<1> USE <1>1, <1>2 DEF groupVars, handlerVars
<1>3. \A c \in Component : routines[c] + ending[c] = 0
  BY DEF CalmInv, Still, Is, Busy
<1>4. active' \subseteq Component
  BY DEF Run, Types
<1> USE <1>3, <1>4
<1>5. ~crashed'
  BY DEF CalmInv
<1>6. StagesOK'
  BY DEF CalmInv, StagesOK, Stages
<1>7. Alone'
  BY DEF CalmInv, Alone, At, Is, Busy
<1>8. Pages'
  BY DEF CalmInv, Pages, Is, Busy
<1>9. Knows'
  BY DEF CalmInv, Knows, Is, Busy, Adding, PastSum, IsOn
<1>10. Routines'
  BY DEF CalmInv, Routines, Counts, Is, Busy, PastSum, PastAdd, IsOn
<1>11. Maps'
  BY DEF CalmInv, Maps, InUse, At, Is, Busy, IsOn
<1>12. Loops'
  BY DEF CalmInv, Loops, Is, Busy, IsOn
<1>13. Still'
  BY DEF CalmInv, Still, Is, Busy
<1>14. Sums'
  <2>1. Counted' = Counted
    BY DEF Counted, Counts, Is, Busy, PastSum, PastAdd
  <2>2. TurningOff' = TurningOff
    BY DEF TurningOff, Is, Busy
  <2> QED
    BY <2>1, <2>2 DEF CalmInv, Sums
<1> QED
  BY <1>5, <1>6, <1>7, <1>8, <1>9, <1>10, <1>11, <1>12, <1>13, <1>14 DEF CalmInv

\* Stop meets handlers that turn gateways off, and no others.
LEMMA StopKeeps ==
  ASSUME Types, CalmInv, Calm, Calm', NEW h \in Handler, Stop(h)
  PROVE  CalmInv'
<1>1. /\ UNCHANGED <<state, active, inactive, routines, groupVars, crashed, target, todo>>
      /\ pc[h] = "idle" /\ page /\ ~page' /\ simState' = "Stopped" /\ simState = "Running"
      /\ \A k \in Handler : Busy(k) => job[k] = "off" /\ target[k] \notin Device
      /\ \A k \in Handler : /\ pc'[k] = IF k = h THEN "sum" ELSE pc[k]
                            /\ job'[k] = IF k = h THEN "stop" ELSE job[k]
  BY DEF Stop, Begin, Busy, Calm, Types, Goto, simVars
<1>2. active \subseteq Component /\ \A k \in Handler :
        target[k] \in Component /\ todo[k] \subseteq Component
  BY DEF Types
<1> USE <1>1, <1>2 DEF groupVars, handlerVars
<1>3. \A k \in Handler : Busy(k) => target[k] \in Gateway
  BY DEF Component
<1> USE <1>3
<1>4. ~crashed'
  BY DEF CalmInv
<1>5. StagesOK'
  BY DEF CalmInv, StagesOK, Stages
<1>6. Alone'
  BY DEF CalmInv, Alone, At, Is, Busy
<1>7. Pages'
  BY DEF CalmInv, Pages, Is, Busy
<1>8. Knows'
  BY DEF CalmInv, Knows, Is, Busy, Adding, PastSum, IsOn
<1>9. Routines'
  BY DEF CalmInv, Routines, Counts, Is, Busy, PastSum, PastAdd, IsOn
<1>10. Maps'
  BY DEF CalmInv, Maps, InUse, At, Is, Busy, IsOn
<1>11. Loops'
  BY DEF CalmInv, Loops, Is, Busy, IsOn
<1>12. Still'
  BY DEF CalmInv, Still, Is, Busy
<1>13. Sums'
  <2>1. Counted' = Counted
    BY DEF Counted, Counts, Is, Busy, PastSum, PastAdd
  <2>2. TurningOff' = TurningOff
    BY DEF TurningOff, Is, Busy
  <2> QED
    BY <2>1, <2>2 DEF CalmInv, Sums
<1> QED
  BY <1>4, <1>5, <1>6, <1>7, <1>8, <1>9, <1>10, <1>11, <1>12, <1>13 DEF CalmInv

\* The loops of Run and Stop.
LEMMA VisitKeeps ==
  ASSUME Types, CalmInv, Calm, Calm', NEW h \in Handler, NEW c \in Component, Visit(h, c)
  PROVE  CalmInv'
<1>1. /\ UNCHANGED <<simState, page, state, active, inactive, routines, groupVars, crashed,
                     job>>
      /\ pc[h] = "loop" /\ c \in todo[h] /\ c \in active
      /\ \A k \in Handler : /\ pc'[k] = IF k # h THEN pc[k]
                                        ELSE IF job[h] = "run" THEN "setup" ELSE "turnOff"
                            /\ target'[k] = IF k = h THEN c ELSE target[k]
                            /\ todo'[k] = IF k = h THEN todo[h] \ {c} ELSE todo[k]
  BY DEF Visit, Types, Goto, simVars
<1>2. active \subseteq Component /\ \A k \in Handler :
        target[k] \in Component /\ todo[k] \subseteq Component
  BY DEF Types
<1> USE <1>1, <1>2 DEF groupVars, handlerVars
<1>3. job[h] \in {"run", "stop"}
  BY DEF CalmInv, StagesOK, Stages, Types
<1> USE <1>3
<1>4. ~crashed'
  BY DEF CalmInv
<1>5. StagesOK'
  BY DEF CalmInv, StagesOK, Stages
<1>6. Alone'
  BY DEF CalmInv, Alone, At, Is, Busy
<1>7. Pages'
  BY DEF CalmInv, Pages, Is, Busy
<1>8. Knows'
  BY DEF CalmInv, Loops, Knows, Is, Busy, Adding, PastSum, IsOn
<1>9. Routines'
  BY DEF CalmInv, Routines, Counts, Is, Busy, PastSum, PastAdd, IsOn
<1>10. Maps'
  BY DEF CalmInv, Maps, InUse, At, Is, Busy, IsOn
<1>11. Loops'
  BY DEF CalmInv, Loops, Is, Busy, IsOn
<1>12. Still'
  BY DEF CalmInv, Still, Is, Busy
<1>13. Sums'
  <2>1. Counted' = Counted
    BY DEF Counted, Counts, Is, Busy, PastSum, PastAdd
  <2>2. TurningOff' = TurningOff
    BY DEF TurningOff, Is, Busy
  <2> QED
    BY <2>1, <2>2 DEF CalmInv, Sums
<1> QED
  BY <1>4, <1>5, <1>6, <1>7, <1>8, <1>9, <1>10, <1>11, <1>12, <1>13 DEF CalmInv

LEMMA LoopEndsKeeps ==
  ASSUME Types, CalmInv, Calm, Calm', NEW h \in Handler, LoopEnds(h)
  PROVE  CalmInv'
<1>1. /\ UNCHANGED <<simState, state, active, inactive, routines, groupVars, crashed, job,
                     target>>
      /\ pc[h] = "loop" /\ todo[h] \cap active = {}
      /\ page' = (page \/ job[h] = "run")
      /\ \A k \in Handler : /\ pc'[k] = IF k # h THEN pc[k]
                                        ELSE IF job[h] = "run" THEN "idle" ELSE "wait"
                            /\ todo'[k] = IF k = h THEN {} ELSE todo[k]
  BY DEF LoopEnds, Types, Goto, simVars
<1>2. active \subseteq Component /\ \A k \in Handler :
        target[k] \in Component /\ todo[k] \subseteq Component
  BY DEF Types
<1> USE <1>1, <1>2 DEF groupVars, handlerVars
<1>3. job[h] \in {"run", "stop"}
  BY DEF CalmInv, StagesOK, Stages, Types
<1> USE <1>3
<1>4. ~crashed'
  BY DEF CalmInv
<1>5. StagesOK'
  BY DEF CalmInv, StagesOK, Stages
<1>6. Alone'
  BY DEF CalmInv, Alone, At, Is, Busy
<1>7. Pages'
  BY DEF CalmInv, Alone, Pages, Is, Busy
<1>8. Knows'
  BY DEF CalmInv, Knows, Is, Busy, Adding, PastSum, IsOn
<1>9. Routines'
  BY DEF CalmInv, Routines, Counts, Is, Busy, PastSum, PastAdd, IsOn
<1>10. Maps'
  BY DEF CalmInv, Alone, Loops, Maps, InUse, At, Is, Busy, IsOn
<1>11. Loops'
  BY DEF CalmInv, Loops, Is, Busy, IsOn
<1>12. Still'
  BY DEF CalmInv, Still, Is, Busy
<1>13. Sums'
  <2>1. Counted' = Counted
    BY DEF Counted, Counts, Is, Busy, PastSum, PastAdd
  <2>2. TurningOff' = TurningOff
    BY DEF TurningOff, Is, Busy
  <2> QED
    BY <2>1, <2>2 DEF CalmInv, Sums
<1> QED
  BY <1>4, <1>5, <1>6, <1>7, <1>8, <1>9, <1>10, <1>11, <1>12, <1>13 DEF CalmInv

\* When Stop clears the map, no goroutine is left.
LEMMA ResetKeeps ==
  ASSUME Types, CalmInv, Calm, Calm', NEW h \in Handler, Reset(h)
  PROVE  CalmInv'
<1>1. /\ UNCHANGED <<simState, page, state, inactive, routines, groupVars, handlerVars,
                     crashed>>
      /\ pc[h] = "reset" /\ active' = {}
      /\ \A k \in Handler : pc'[k] = IF k = h THEN "idle" ELSE pc[k]
      /\ \A c \in Component : routines[c] \in Nat /\ ending[c] \in Nat
  BY DEF Reset, Types, Goto, simVars
<1>2. active \subseteq Component /\ \A k \in Handler :
        target[k] \in Component /\ todo[k] \subseteq Component
  BY DEF Types
<1> USE <1>1, <1>2 DEF groupVars, handlerVars
<1>3. job[h] = "stop"
  BY DEF CalmInv, StagesOK, Stages, Types
<1>4. \A c \in Component : routines[c] + ending[c] = 0
  BY DEF CalmInv, Knows
<1> USE <1>3, <1>4
<1>5. ~crashed'
  BY DEF CalmInv
<1>6. StagesOK'
  BY DEF CalmInv, StagesOK, Stages
<1>7. Alone'
  BY DEF CalmInv, Alone, At, Is, Busy
<1>8. Pages'
  BY DEF CalmInv, Pages, Is, Busy
<1>9. Knows'
  BY DEF CalmInv, Knows, Is, Busy, Adding, PastSum, IsOn
<1>10. Routines'
  BY DEF CalmInv, Routines, Counts, Is, Busy, PastSum, PastAdd, IsOn
<1>11. Maps'
  BY DEF CalmInv, Pages, StagesOK, Stages, Alone, Maps, InUse, At, Is, Busy, IsOn
<1>12. Loops'
  BY DEF CalmInv, Alone, Loops, Is, Busy, IsOn
<1>13. Still'
  BY DEF CalmInv, Still, Is, Busy
<1>14. Sums'
  <2>1. Counted' = Counted
    BY DEF Counted, Counts, Is, Busy, PastSum, PastAdd
  <2>2. TurningOff' = TurningOff
    BY DEF TurningOff, Is, Busy
  <2> QED
    BY <2>1, <2>2 DEF CalmInv, Sums
<1> QED
  BY <1>5, <1>6, <1>7, <1>8, <1>9, <1>10, <1>11, <1>12, <1>13, <1>14 DEF CalmInv

\* A goroutine that leaves its loop is counted already.
LEMMA DeviceExitsKeeps ==
  ASSUME Types, CalmInv, Calm, Calm', NEW h \in Handler, DeviceExits(h)
  PROVE  CalmInv'
<1>1. /\ UNCHANGED <<simState, page, state, active, inactive, group, handlerVars, crashed>>
      /\ pc[h] = "exit" /\ target[h] \in Component /\ routines[target[h]] > 0
      /\ \A k \in Handler : pc'[k] = IF k = h THEN AfterTurnOff(h) ELSE pc[k]
      /\ \A c \in Component : routines[c] \in Nat /\ ending[c] \in Nat
      /\ \A c \in Component :
           /\ routines'[c] = IF c = target[h] THEN routines[c] - 1 ELSE routines[c]
           /\ ending'[c] = IF c = target[h] THEN ending[c] + 1 ELSE ending[c]
  BY DEF DeviceExits, Leaves, Types, Goto, simVars
<1>2. active \subseteq Component /\ \A k \in Handler :
        target[k] \in Component /\ todo[k] \subseteq Component
  BY DEF Types
<1> USE <1>1, <1>2 DEF groupVars, handlerVars
<1>3. job[h] \in {"off", "stop"}
  BY DEF CalmInv, StagesOK, Stages, Types
<1>4. ~IsOn(target[h]) /\ Counts(target[h])
  BY <1>3 DEF CalmInv, Knows, Counts, PastSum, PastAdd, Is, Busy
<1>5. \A c \in Component : routines'[c] + ending'[c] = routines[c] + ending[c]
  OBVIOUS
<1> USE <1>3, <1>4, <1>5 DEF AfterTurnOff
<1>6. ~crashed'
  BY DEF CalmInv
<1>7. StagesOK'
  BY DEF CalmInv, StagesOK, Stages
<1>8. Alone'
  BY DEF CalmInv, Alone, At, Is, Busy
<1>9. Pages'
  BY DEF CalmInv, Pages, Is, Busy
<1>10. Knows'
  BY DEF CalmInv, Knows, Is, Busy, Adding, PastSum, IsOn
<1>11. Routines'
  BY DEF CalmInv, Routines, Counts, Is, Busy, PastSum, PastAdd, IsOn
<1>12. Maps'
  BY DEF CalmInv, Maps, InUse, At, Is, Busy, IsOn
<1>13. Loops'
  BY DEF CalmInv, Loops, Is, Busy, IsOn
<1>14. Still'
  BY DEF CalmInv, Still, Is, Busy
<1>15. Sums'
  <2>1. Counted' = Counted
    BY DEF Counted, Counts, Is, Busy, PastSum, PastAdd
  <2>2. TurningOff' = TurningOff
    BY DEF TurningOff, Is, Busy
  <2> QED
    BY <2>1, <2>2 DEF CalmInv, Sums
<1> QED
  BY <1>6, <1>7, <1>8, <1>9, <1>10, <1>11, <1>12, <1>13, <1>14, <1>15 DEF CalmInv

\* Stop adds what no handler has added: the active components but those that
\* are being turned off.
LEMMA SumKeeps ==
  ASSUME Types, CalmInv, Calm, Calm', NEW h \in Handler, Sum(h)
  PROVE  CalmInv'
<1>1. /\ UNCHANGED <<simState, page, state, active, inactive, routines, ending, job, target>>
      /\ pc[h] = "sum"
      /\ crashed' = (group + Stopping < 0)
      /\ group' = IF crashed' THEN group ELSE group + Stopping
      /\ \A k \in Handler : pc[k] \notin {"count", "add", "uncount"}
      /\ \A k \in Handler : pc'[k] = IF k = h THEN "loop" ELSE pc[k]
      /\ \A k \in Handler : todo'[k] = IF k = h THEN active ELSE todo[k]
      /\ \A c \in Component : routines[c] \in Nat /\ ending[c] \in Nat
  BY DEF Sum, Calm, Types, Goto, simVars
<1>2. active \subseteq Component /\ \A k \in Handler :
        target[k] \in Component /\ todo[k] \subseteq Component
  BY DEF Types
<1> USE <1>1, <1>2 DEF groupVars, handlerVars
<1>3. job[h] = "stop" /\ \A k \in Handler : k # h /\ Busy(k) => job[k] = "off"
  BY DEF CalmInv, StagesOK, Stages, Types, Alone, Is, Busy
<1>4. \A k \in Handler : ~PastSum(k)
  BY <1>3 DEF PastSum, Is
<1>5. TurningOff \subseteq active
  BY <1>3 DEF CalmInv, Maps, InUse, TurningOff, Is
<1>6. \A c \in Component : Counts(c) <=> c \in TurningOff
  BY <1>3, <1>4 DEF Counts, PastAdd, TurningOff, Is, Busy
<1>7. \A c \in Component : c \notin TurningOff => (c \in active <=> routines[c] + ending[c] > 0)
  <2> SUFFICES ASSUME NEW c \in Component, c \notin TurningOff
               PROVE  c \in active <=> routines[c] + ending[c] > 0
    OBVIOUS
  <2>1. \A k \in Handler : ~At(k, c) /\ ~Is(k, "run")
    BY <1>3 DEF At, TurningOff, Is
  <2>2. c \in active <=> IsOn(c)
    BY <2>1 DEF CalmInv, Maps, InUse
  <2> QED
    BY <1>6, <2>2 DEF CalmInv, Routines
<1>8. Counted' = Counted \cup (active \ TurningOff) /\ Counted \cap (active \ TurningOff) = {}
  <2>1. Counted \cap (active \ TurningOff) = {}
    BY <1>6 DEF Counted
  <2>2. \A c \in Component : Counts(c)'
    BY <1>3 DEF Counts, PastSum, Is, Busy
  <2>3. Counted' = {c \in Component : routines[c] + ending[c] > 0}
    BY <2>2 DEF Counted
  <2>4. Counted = {c \in Component : routines[c] + ending[c] > 0 /\ c \in TurningOff}
    BY <1>6 DEF Counted
  <2>5. \A c \in Component :
          c \in TurningOff \/ (c \in active <=> routines[c] + ending[c] > 0)
    BY <1>7
  <2>6. ASSUME NEW c \in Component
        PROVE  c \in Counted' <=> c \in Counted \cup (active \ TurningOff)
    BY <1>5, <2>3, <2>4, <2>5
  <2>7. Counted' \subseteq Component /\ Counted \subseteq Component
    BY <2>3 DEF Counted
  <2> QED
    BY <2>1, <2>6, <2>7
<1>9. Stopping = Cardinality(active \ TurningOff) /\ Stopping \in Nat
  <2>1. IsFiniteSet(active) /\ active \cap TurningOff = TurningOff
    BY <1>5, Finite
  <2>2. Cardinality(active \ TurningOff) = Cardinality(active) - Cardinality(TurningOff)
    <3>1. Cardinality(active \ TurningOff)
            = Cardinality(active) - Cardinality(active \cap TurningOff)
      BY <2>1, FS_Difference
    <3> QED
      BY <2>1, <3>1
  <2>3. active \ TurningOff \in SUBSET Component
    OBVIOUS
  <2> QED
    BY <2>2, <2>3, Finite DEF CalmInv, Sums, Stopping
<1>10. group \in Nat
  BY DEF Types
<1>11. ~crashed' /\ group' = group + Stopping
  <2>1. ~(group + Stopping < 0)
    BY <1>9, <1>10
  <2> QED
    BY <2>1
<1> USE <1>3, <1>4, <1>11
<1>12. ~crashed'
  BY DEF CalmInv
<1>13. StagesOK'
  BY DEF CalmInv, StagesOK, Stages
<1>14. Alone'
  BY DEF CalmInv, Alone, At, Is, Busy
<1>15. Pages'
  BY DEF CalmInv, Pages, Is, Busy
<1>16. Knows'
  BY DEF CalmInv, Knows, Is, Busy, Adding, PastSum, IsOn
<1>17. Routines'
  BY DEF CalmInv, Routines, Counts, Is, Busy, PastSum, PastAdd, IsOn
<1>18. Maps'
  BY DEF CalmInv, Maps, InUse, At, Is, Busy, IsOn
<1>19. Loops'
  BY DEF CalmInv, Loops, Is, Busy, IsOn
<1>20. Still'
  BY DEF CalmInv, Still, Is, Busy
<1>21. Sums'
  <2>1. Cardinality(Counted') = Cardinality(Counted) + Cardinality(active \ TurningOff)
    <3>1. Counted \in SUBSET Component /\ active \ TurningOff \in SUBSET Component
      BY DEF Counted
    <3>2. IsFiniteSet(Counted) /\ IsFiniteSet(active \ TurningOff)
      BY <3>1, Finite
    <3>3. Cardinality(Counted \cup (active \ TurningOff))
            = Cardinality(Counted) + Cardinality(active \ TurningOff) - Cardinality({})
      BY <1>8, <3>2, FS_Union
    <3>4. Cardinality({}) = 0
      BY FS_EmptySet
    <3>5. Cardinality(Counted) \in Nat /\ Cardinality(active \ TurningOff) \in Nat
      BY <3>1, Finite
    <3> QED
      BY <1>8, <3>3, <3>4, <3>5
  <2>2. TurningOff' = TurningOff
    BY DEF TurningOff, Is, Busy
  <2> QED
    BY <1>9, <2>1, <2>2 DEF CalmInv, Sums
<1> QED
  BY <1>12, <1>13, <1>14, <1>15, <1>16, <1>17, <1>18, <1>19, <1>20, <1>21 DEF CalmInv

\* An edit changes the map only at a component that is off and left alone.
LEMMA EditKeeps ==
  ASSUME Types, CalmInv, Calm, Calm', NEW c \in Component, Edits(c)
  PROVE  CalmInv'
<1>1. /\ UNCHANGED <<simState, page, state, inactive, routines, groupVars, pc, handlerVars,
                     crashed>>
      /\ \A k \in Handler : ~At(k, c) /\ ~Is(k, "run") /\ ~Is(k, "stop")
      /\ ~IsOn(c)
      /\ \/ active' = active \ {c}
         \/ active' = active \cup {c} /\ simState = "Stopped"
  BY DEF Edits, Types, Goto, simVars
<1>2. active \subseteq Component /\ \A k \in Handler :
        target[k] \in Component /\ todo[k] \subseteq Component
  BY DEF Types
<1> USE <1>1, <1>2 DEF groupVars, handlerVars
<1>3. \A k \in Handler : pc[k] # "idle" => pc[k] # "sum"
  BY DEF CalmInv, StagesOK, Stages, Types, Is, Busy
<1> USE <1>3
<1>4. ~crashed'
  BY DEF CalmInv
<1>5. StagesOK'
  BY DEF CalmInv, StagesOK, Stages
<1>6. Alone'
  BY DEF CalmInv, Alone, At, Is, Busy
<1>7. Pages'
  BY DEF CalmInv, Pages, Is, Busy
<1>8. Knows'
  BY DEF CalmInv, StagesOK, Stages, At, Knows, Is, Busy, Adding, PastSum, IsOn
<1>9. Routines'
  BY DEF CalmInv, Routines, Counts, Is, Busy, PastSum, PastAdd, IsOn
<1>10. Maps'
  BY DEF CalmInv, Maps, InUse, At, Is, Busy, IsOn
<1>11. Loops'
  BY DEF CalmInv, Loops, Is, Busy, IsOn
<1>12. Still'
  BY DEF CalmInv, Still, Is, Busy
<1>13. Sums'
  <2>1. Counted' = Counted
    BY DEF Counted, Counts, Is, Busy, PastSum, PastAdd
  <2>2. TurningOff' = TurningOff
    BY DEF TurningOff, Is, Busy
  <2> QED
    BY <2>1, <2>2 DEF CalmInv, Sums
<1> QED
  BY <1>4, <1>5, <1>6, <1>7, <1>8, <1>9, <1>10, <1>11, <1>12, <1>13 DEF CalmInv

LEMMA ReceiverExitsKeeps ==
  ASSUME Types, CalmInv, Calm, Calm', NEW c \in Component, ReceiverExits(c)
  PROVE  CalmInv'
<1>1. /\ UNCHANGED <<simState, page, state, active, inactive, group, pc, handlerVars, crashed>>
      /\ ~IsOn(c) /\ routines[c] > 0
      /\ \A d \in Component : routines[d] \in Nat /\ ending[d] \in Nat
      /\ \A d \in Component : /\ routines'[d] = IF d = c THEN routines[d] - 1 ELSE routines[d]
                              /\ ending'[d] = IF d = c THEN ending[d] + 1 ELSE ending[d]
  BY DEF ReceiverExits, Leaves, Types, Goto, simVars
<1>2. active \subseteq Component /\ \A k \in Handler :
        target[k] \in Component /\ todo[k] \subseteq Component
  BY DEF Types
<1> USE <1>1, <1>2 DEF groupVars, handlerVars
<1>3. Counts(c)
  BY DEF CalmInv, Routines
<1>4. \A d \in Component : routines'[d] + ending'[d] = routines[d] + ending[d]
  OBVIOUS
<1> USE <1>3, <1>4
<1>5. ~crashed'
  BY DEF CalmInv
<1>6. StagesOK'
  BY DEF CalmInv, StagesOK, Stages
<1>7. Alone'
  BY DEF CalmInv, Alone, At, Is, Busy
<1>8. Pages'
  BY DEF CalmInv, Pages, Is, Busy
<1>9. Knows'
  BY DEF CalmInv, Knows, Is, Busy, Adding, PastSum, IsOn
<1>10. Routines'
  BY DEF CalmInv, Routines, Counts, Is, Busy, PastSum, PastAdd, IsOn
<1>11. Maps'
  BY DEF CalmInv, Maps, InUse, At, Is, Busy, IsOn
<1>12. Loops'
  BY DEF CalmInv, Loops, Is, Busy, IsOn
<1>13. Still'
  BY DEF CalmInv, Still, Is, Busy
<1>14. Sums'
  <2>1. Counted' = Counted
    BY DEF Counted, Counts, Is, Busy, PastSum, PastAdd
  <2>2. TurningOff' = TurningOff
    BY DEF TurningOff, Is, Busy
  <2> QED
    BY <2>1, <2>2 DEF CalmInv, Sums
<1> QED
  BY <1>5, <1>6, <1>7, <1>8, <1>9, <1>10, <1>11, <1>12, <1>13, <1>14 DEF CalmInv

\* Done finds its goroutine counted.
LEMMA DoneKeeps ==
  ASSUME Types, CalmInv, Calm, Calm', NEW c \in Component, Done(c)
  PROVE  CalmInv'
<1>1. /\ UNCHANGED <<simState, page, state, active, inactive, routines, handlerVars>>
      /\ ending[c] > 0
      /\ \A d \in Component : routines[d] \in Nat /\ ending[d] \in Nat
      /\ \A d \in Component : ending'[d] = IF d = c THEN ending[d] - 1 ELSE ending[d]
      /\ group # 0 =>
           /\ UNCHANGED crashed /\ group' = group - 1
           /\ \A k \in Handler : \/ pc'[k] = pc[k]
                                 \/ pc[k] = "blocked" /\ pc'[k] = "woken"
  BY DEF Done, Types, Goto, simVars
<1>2. active \subseteq Component /\ \A k \in Handler :
        target[k] \in Component /\ todo[k] \subseteq Component
  BY DEF Types
<1> USE <1>1, <1>2 DEF groupVars, handlerVars
<1>3. Counts(c) /\ ending[c] = 1 /\ routines[c] = 0
  BY DEF CalmInv, Routines
<1>4. c \in Counted
  BY <1>3 DEF Counted
<1>5. group # 0
  <2>1. Counted \in SUBSET Component /\ Counted # {}
    BY <1>4 DEF Counted
  <2> QED
    BY <2>1, Finite, FS_EmptySet DEF CalmInv, Sums
<1>6. \A d \in Component : routines[d] + ending[d] = 0 => routines'[d] + ending'[d] = 0
  BY <1>3
<1> USE <1>3, <1>5, <1>6
<1>7. ~crashed'
  BY DEF CalmInv
<1>8. StagesOK'
  BY DEF CalmInv, StagesOK, Stages
<1>9. Alone'
  BY DEF CalmInv, Alone, At, Is, Busy
<1>10. Pages'
  BY DEF CalmInv, Pages, Is, Busy
<1>11. Knows'
  BY DEF CalmInv, Knows, Is, Busy, Adding, PastSum, IsOn
<1>12. Routines'
  BY DEF CalmInv, Routines, Counts, Is, Busy, PastSum, PastAdd, IsOn
<1>13. Maps'
  BY DEF CalmInv, Maps, InUse, At, Is, Busy, IsOn
<1>14. Loops'
  BY DEF CalmInv, Loops, Is, Busy, IsOn
<1>15. Still'
  BY DEF CalmInv, Still, Is, Busy
<1>16. Sums'
  <2>1. \A d \in Component : Counts(d)' <=> Counts(d)
    BY DEF Counts, Is, Busy, PastSum, PastAdd
  <2>2. Counted' = Counted \ {c}
    BY <2>1 DEF Counted
  <2>3. TurningOff' = TurningOff
    BY DEF TurningOff, Is, Busy
  <2>4. Counted \in SUBSET Component
    BY DEF Counted
  <2> QED
    BY <1>4, <2>2, <2>3, <2>4, OneLess DEF CalmInv, Sums
<1> QED
  BY <1>7, <1>8, <1>9, <1>10, <1>11, <1>12, <1>13, <1>14, <1>15, <1>16 DEF CalmInv

----------------------------------------------------------------------------
(* Every step.                                                             *)

\* What is not calm stays so.
LEMMA CalmBefore == [Next]_vars /\ Calm' => Calm
<1> SUFFICES ASSUME [Next]_vars, Calm' PROVE Calm
  OBVIOUS
<1> USE DEF Calm
<1>1. ASSUME NEW h \in Handler, NEW c \in Component, Toggle(h, c) PROVE Calm
  BY <1>1 DEF Toggle
<1>2. ASSUME NEW h \in Handler, Edit(h) PROVE Calm
  BY <1>2 DEF Edit, SetActive, SetOrDelete, Begin
<1>3. ASSUME NEW h \in Handler, Run(h) \/ Stop(h) PROVE Calm
  BY <1>3 DEF Run, Stop, Begin
<1>4. ASSUME NEW h \in Handler, HandlerGoesOn(h) PROVE Calm
  <2>1. CASE Sum(h)
    BY <2>1 DEF Sum
  <2>2. CASE WaitPanics(h)
    BY <2>2 DEF WaitPanics
  <2>3. CASE ~Sum(h) /\ ~WaitPanics(h)
    <3>1. UNCHANGED historyVars
      BY <1>4, <2>3 DEF HandlerGoesOn, Setup, TurnOn, Activate, Count, Add, TurnOff, Wait,
                        WaitReturns, Forget, Uncount, Visit, LoopEnds, Reset
    <3> QED
      BY <3>1 DEF historyVars
  <2> QED
    BY <2>1, <2>2, <2>3
<1>5. ASSUME NEW h \in Handler, DeviceExits(h) PROVE Calm
  BY <1>5 DEF DeviceExits, historyVars
<1>6. ASSUME NEW c \in Component, RoutineEnds(c) PROVE Calm
  BY <1>6 DEF RoutineEnds, ReceiverExits, Done, historyVars
<1>7. CASE UNCHANGED vars
  BY <1>7 DEF vars, historyVars
<1> QED
  BY <1>1, <1>2, <1>3, <1>4, <1>5, <1>6, <1>7 DEF Next

\* A request that leaves all calm finds nobody in its way.
LEMMA ToggleIs ==
  ASSUME Types, CalmInv, Calm', NEW h \in Handler, NEW c \in Component, Toggle(h, c)
  PROVE  BeginsOn(h, c) \/ BeginsOff(h, c)
<1>1. \A k \in Handler : ~At(k, c)
  BY DEF Calm, Toggle, AtComponent, At
<1>2. page /\ simState = "Running" /\ \A k \in Handler : ~Is(k, "run") /\ ~Is(k, "stop")
  BY DEF CalmInv, Pages, Toggle
<1>3. CASE IsOn(c)
  BY <1>1, <1>2, <1>3 DEF Toggle, BeginsOff, simVars
<1>4. CASE ~IsOn(c)
  BY <1>1, <1>2, <1>4 DEF Toggle, BeginsOn, simVars
<1> QED
  BY <1>3, <1>4

LEMMA EditIs ==
  ASSUME Types, CalmInv, Calm', NEW h \in Handler, Edit(h)
  PROVE  \E c \in Component : BeginsOn(h, c) \/ Edits(c)
<1>1. ASSUME NEW c \in Component, SetActive(h, c) PROVE BeginsOn(h, c) \/ Edits(c)
  <2>1. (\A k \in Handler : ~At(k, c) /\ ~Is(k, "run") /\ ~Is(k, "stop")) /\ ~IsOn(c)
    BY <1>1 DEF Calm, SetActive, MayEdit, AtComponent, AtAll, At, Is
  <2>2. CASE simState = "Running"
    <3>1. page
      BY <2>1, <2>2 DEF CalmInv, Pages
    <3> QED
      BY <1>1, <2>1, <2>2, <3>1 DEF SetActive, BeginsOn
  <2>3. CASE simState = "Stopped"
    BY <1>1, <2>1, <2>3 DEF SetActive, Edits, handlerVars
  <2> QED
    BY <2>2, <2>3 DEF Types
<1>2. ASSUME NEW c \in Component, NEW v, SetOrDelete(c, v) PROVE Edits(c)
  <2>1. (\A k \in Handler : ~At(k, c) /\ ~Is(k, "run") /\ ~Is(k, "stop")) /\ ~IsOn(c)
    BY <1>2 DEF Calm, SetOrDelete, MayEdit, AtComponent, AtAll, At, Is
  <2> QED
    BY <1>2, <2>1 DEF SetOrDelete, Edits
<1> QED
  BY <1>1, <1>2 DEF Edit

LEMMA CalmStep ==
  ASSUME Types, CalmInv, [Next]_vars, Calm'
  PROVE  CalmInv'
<1>1. Calm
  BY CalmBefore
<1>2. ASSUME NEW h \in Handler, NEW c \in Component, Toggle(h, c) PROVE CalmInv'
  BY <1>1, <1>2, ToggleIs, BeginOnKeeps, BeginOffKeeps
<1>3. ASSUME NEW h \in Handler, Edit(h) PROVE CalmInv'
  BY <1>1, <1>3, EditIs, BeginOnKeeps, EditKeeps
<1>4. ASSUME NEW h \in Handler, Run(h) \/ Stop(h) PROVE CalmInv'
  BY <1>1, <1>4, RunKeeps, StopKeeps
<1>5. ASSUME NEW h \in Handler, HandlerGoesOn(h) PROVE CalmInv'
  <2>1. CASE Setup(h) \/ TurnOn(h) \/ Activate(h)
    BY <1>1, <2>1, SetupKeeps, TurnOnKeeps, ActivateKeeps
  <2>2. CASE Count(h) \/ Add(h) \/ TurnOff(h)
    BY <1>1, <2>2, CountKeeps, AddKeeps, TurnOffKeeps
  <2>3. CASE Wait(h) \/ WaitReturns(h)
    BY <1>1, <2>3, WaitKeeps
  <2>4. CASE WaitPanics(h)
    BY <2>4 DEF WaitPanics, Calm
  <2>5. CASE Forget(h) \/ Uncount(h)
    BY <1>1, <2>5, ForgetKeeps, UncountKeeps
  <2>6. CASE Sum(h) \/ (\E c \in Component : Visit(h, c)) \/ LoopEnds(h) \/ Reset(h)
    BY <1>1, <2>6, SumKeeps, VisitKeeps, LoopEndsKeeps, ResetKeeps
  <2> QED
    BY <1>5, <2>1, <2>2, <2>3, <2>4, <2>5, <2>6 DEF HandlerGoesOn
<1>6. ASSUME NEW h \in Handler, DeviceExits(h) PROVE CalmInv'
  BY <1>1, <1>6, DeviceExitsKeeps
<1>7. ASSUME NEW c \in Component, RoutineEnds(c) PROVE CalmInv'
  BY <1>1, <1>7, ReceiverExitsKeeps, DoneKeeps DEF RoutineEnds
<1>8. CASE UNCHANGED vars
  <2>1. UNCHANGED <<simState, page, state, active, inactive, routines, ending, group, pc, job,
                    target, todo, crashed>>
    BY <1>8 DEF vars, simVars, groupVars, handlerVars
  <2>2. /\ StagesOK' = StagesOK /\ Alone' = Alone /\ Pages' = Pages /\ Knows' = Knows
        /\ Routines' = Routines /\ Maps' = Maps /\ Loops' = Loops /\ Still' = Still
    BY <2>1 DEF StagesOK, Stages, Alone, Pages, Knows, Routines, Maps, Loops, Still, At, Is,
           Busy,
                IsOn, Adding, PastSum, PastAdd, Counts, InUse
  <2>3. Sums' = Sums
    BY <2>1 DEF Sums, Counted, TurningOff, Counts, Is, Busy, PastSum, PastAdd
  <2> QED
    BY <2>1, <2>2, <2>3 DEF CalmInv
<1> QED
  BY <1>2, <1>3, <1>4, <1>5, <1>6, <1>7, <1>8 DEF Next

LEMMA TypesStep == Types /\ [Next]_vars => Types'
<1> SUFFICES ASSUME Types, [Next]_vars PROVE Types'
  OBVIOUS
<1> USE DEF Types, simVars, groupVars, handlerVars, Stage
<1>1. ASSUME NEW h \in Handler, NEW c \in Component, Toggle(h, c) PROVE Types'
  BY <1>1 DEF Toggle, Begin, Goto
<1>2. ASSUME NEW h \in Handler, Edit(h) PROVE Types'
  BY <1>2 DEF Edit, SetActive, SetOrDelete, Begin, Goto
<1>3. ASSUME NEW h \in Handler, Run(h) PROVE Types'
  BY <1>3 DEF Run, Begin, Goto
<1>4. ASSUME NEW h \in Handler, Stop(h) PROVE Types'
  BY <1>4 DEF Stop, Begin, Goto
<1>5. ASSUME NEW h \in Handler, HandlerGoesOn(h) PROVE Types'
  <2>1. CASE Setup(h)
    BY <2>1 DEF Setup
  <2>2. CASE TurnOn(h)
    BY <2>2 DEF TurnOn, Goto
  <2>3. CASE Activate(h)
    BY <2>3 DEF Activate, Returns, Goto
  <2>4. CASE Count(h) \/ Add(h)
    BY <2>4 DEF Count, Add, Goto
  <2>5. CASE TurnOff(h)
    BY <2>5 DEF TurnOff, AfterTurnOff, Goto
  <2>6. CASE Wait(h) \/ WaitReturns(h) \/ WaitPanics(h)
    BY <2>6 DEF Wait, WaitReturns, WaitPanics, AfterWait, Goto
  <2>7. CASE Forget(h) \/ Uncount(h)
    BY <2>7 DEF Forget, Uncount, Returns, Goto
  <2>8. CASE Sum(h)
    <3>1. Stopping \in Int
      BY Finite DEF Stopping
    <3>2. group' \in Nat
      <4>1. CASE group + Stopping < 0
        BY <2>8, <4>1 DEF Sum
      <4>2. CASE ~(group + Stopping < 0)
        <5>1. group' = group + Stopping
          BY <2>8, <4>2 DEF Sum
        <5> QED
          BY <3>1, <4>2, <5>1
      <4> QED
        BY <4>1, <4>2
    <3> QED
      BY <2>8, <3>2 DEF Sum, Goto
  <2>9. ASSUME NEW c \in Component, Visit(h, c) PROVE Types'
    BY <2>9 DEF Visit, Goto
  <2>10. CASE LoopEnds(h)
    BY <2>10 DEF LoopEnds, Goto
  <2>11. CASE Reset(h)
    BY <2>11 DEF Reset, Goto
  <2> QED
    BY <1>5, <2>1, <2>2, <2>3, <2>4, <2>5, <2>6, <2>7, <2>8, <2>9, <2>10, <2>11
       DEF HandlerGoesOn
<1>6. ASSUME NEW h \in Handler, DeviceExits(h) PROVE Types'
  BY <1>6 DEF DeviceExits, Leaves, AfterTurnOff, Goto
<1>7. ASSUME NEW c \in Component, ReceiverExits(c) PROVE Types'
  BY <1>7 DEF ReceiverExits, Leaves
<1>8. ASSUME NEW c \in Component, Done(c) PROVE Types'
  BY <1>8 DEF Done
<1>9. CASE UNCHANGED vars
  BY <1>9 DEF vars
<1> QED
  BY <1>1, <1>2, <1>3, <1>4, <1>5, <1>6, <1>7, <1>8, <1>9 DEF Next, RoutineEnds

\* Nothing runs at first.
LEMMA Start == Init => IInv
<1> SUFFICES ASSUME Init PROVE IInv
  OBVIOUS
<1>1. Types
  <2>1. /\ simState \in {"Stopped", "Running"} /\ page \in BOOLEAN /\ active \subseteq Component
        /\ inactive \in Int /\ group \in Nat
    <3>1. simState = "Stopped" /\ page = FALSE /\ active = {} /\ inactive = 0 /\ group = 0
      BY DEF Init
    <3>2. page \in BOOLEAN
      BY <3>1, Zenon
    <3> QED
      BY <3>1, <3>2
  <2>2. /\ state \in [Component -> {"Stopped", "Running"}]
        /\ routines \in [Component -> Nat] /\ ending \in [Component -> Nat]
    BY DEF Init
  <2>3. /\ pc \in [Handler -> Stage] /\ job \in [Handler -> {"on", "off", "run", "stop"}]
        /\ target \in [Handler -> Component] /\ todo \in [Handler -> SUBSET Component]
    BY DEF Init, Stage
  <2> QED
    BY <2>1, <2>2, <2>3 DEF Types
<1>2. Counted = {} /\ TurningOff = {}
  BY DEF Init, Counted, TurningOff, Is, Busy
<1>3. Sums
  BY <1>2, FS_EmptySet DEF Sums, Init
<1>4. StagesOK /\ Alone /\ Pages /\ Knows
  BY DEF Init, StagesOK, Stages, Alone, Pages, Knows, At, Is, Busy, Adding
<1>5. Routines /\ Maps /\ Loops /\ Still
  BY DEF Init, Routines, Maps, Loops, Still, InUse, Is, Busy, IsOn
<1> QED
  BY <1>1, <1>3, <1>4, <1>5 DEF IInv, CalmInv, Init

LEMMA Holds == Spec => []IInv
<1>1. IInv /\ [Next]_vars => IInv'
  BY CalmBefore, CalmStep, TypesStep DEF IInv
<1> QED
  BY <1>1, Start, PTL DEF Spec

----------------------------------------------------------------------------
(* Theorems.                                                               *)

\* Starting, stopping and turning components on and off never drives the wait
\* group below zero, while no two handlers are at one component.
THEOREM NeverCrashes == Spec => []CalmNeverCrashes
<1>1. IInv => CalmNeverCrashes
  BY DEF IInv, CalmInv, CalmNeverCrashes
<1> QED
  BY <1>1, Holds, PTL

\* No component ever has a second goroutine next to one that runs or ends.
THEOREM NoSecondRoutine == Spec => []OneRoutine
<1>1. IInv => OneRoutine
  BY DEF IInv, CalmInv, Routines, OneRoutine
<1> QED
  BY <1>1, Holds, PTL

\* A handler whose Wait returned finds what it waited for.
THEOREM WaitsForAll == Spec => []WaitedForAll
<1>1. IInv => WaitedForAll
  BY DEF IInv, CalmInv, Knows, WaitedForAll
<1> QED
  BY <1>1, Holds, PTL

\* Between requests, the map of active components, their states and their
\* goroutines agree; in a stopped simulator nothing is left of them.
THEOREM QuietStatesAgree == Spec => []StatesAgree
<1>1. ASSUME IInv, Calm, Quiet PROVE
        IF simState = "Running"
        THEN \A c \in Component : /\ c \in active <=> IsOn(c)
                                  /\ IsOn(c) <=> routines[c] = 1
        ELSE /\ group = 0 /\ inactive = 0
             /\ \A c \in Component : ~IsOn(c) /\ routines[c] + ending[c] = 0
  <2>1. Types /\ CalmInv /\ \A h \in Handler : ~Busy(h)
    BY <1>1 DEF IInv, Quiet
  <2>2. \A c \in Component : ~Counts(c) /\ routines[c] \in Nat /\ ending[c] \in Nat
    BY <2>1 DEF Counts, PastSum, PastAdd, Is, Types
  <2>3. \A c \in Component : IsOn(c) <=> routines[c] = 1
    BY <2>1, <2>2 DEF CalmInv, Routines
  <2>4. CASE simState = "Running"
    <3>1. \A c \in Component : c \in active <=> IsOn(c)
      BY <2>1, <2>4 DEF CalmInv, Maps, InUse, At, Is
    <3> QED
      BY <2>3, <2>4, <3>1
  <2>5. CASE simState # "Running"
    <3>1. \A c \in Component : routines[c] + ending[c] = 0
      BY <2>1, <2>5 DEF CalmInv, Still, Is, Types
    <3>2. \A c \in Component : ~IsOn(c)
      BY <2>2, <2>3, <3>1
    <3>3. Counted = {} /\ TurningOff = {}
      BY <2>1, <2>2 DEF Counted, TurningOff, Is
    <3>4. group = 0 /\ inactive = 0
      BY <2>1, <3>3, FS_EmptySet DEF CalmInv, Sums
    <3> QED
      BY <2>5, <3>1, <3>2, <3>4
  <2> QED
    BY <2>4, <2>5
<1>2. IInv => StatesAgree
  BY <1>1 DEF StatesAgree
<1> QED
  BY <1>2, Holds, PTL

================================================================================
