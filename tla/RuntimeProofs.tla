--------------------------- MODULE RuntimeProofs ----------------------------
(***************************************************************************)
(* The service registry, for any services, dependency lists and any number *)
(* of boots, failures and shutdowns; and the event-driven runtime, for any *)
(* sessions, intents, vetoes, consumers and messages.                      *)
(*                                                                         *)
(* The invariant of the registry follows visit: what it has looked at is   *)
(* either placed in the order or still being visited, and the ranks of an  *)
(* acyclic graph go down the stack, so that a dependency that was visited  *)
(* before cannot be a caller.  The order outlives boot(), since shutdown() *)
(* walks it too, with everything in front of the cursor of init (behind    *)
(* that of stop) brought up (taken down).                                  *)
(*                                                                         *)
(* That of the runtime says for every place at which a session can wait    *)
(* how far its plan is and what the memory graph has for it; its plan is   *)
(* what the loop of execute makes of its intent, round by round.           *)
(***************************************************************************)
EXTENDS ServiceRegistry, Runtime, CollectionLemmas

Rankings == [Service -> 1 .. Cardinality(Service)]
Ranks(rank) == \A s \in Service : \A i \in DOMAIN deps[s] : rank[deps[s][i]] < rank[s]

Placed == {order[i] : i \in DOMAIN order}
Visiting == {stack[k].name : k \in DOMAIN stack}

\* A list that names nobody twice and, in an acyclic graph, dependencies first.
Once(list) == \A i, j \in DOMAIN list : list[i] = list[j] => i = j
DependenciesFirst(list) ==
  Acyclic => \A i \in DOMAIN list : \A d \in DepSet(list[i]) : \E j \in 1 .. i - 1 : list[j] = d

\* The stack names nobody twice, nor anybody who is placed.
StackApart ==
  /\ visited = Placed \cup Visiting
  /\ \A k \in DOMAIN stack : stack[k].name \notin Placed
  /\ \A k, l \in DOMAIN stack : stack[k].name = stack[l].name => k = l
  /\ \A k \in DOMAIN stack : stack[k].done <= Len(Dependencies(stack[k].name))

RanksGoDown ==
  \A rank \in Rankings : Ranks(rank) =>
      \A k, l \in DOMAIN stack : k < l => rank[stack[l].name] < rank[stack[k].name]

\* A dependency that was looked at is placed, or it is what is visited next.
LookedAt ==
  Acyclic => \A k \in DOMAIN stack : \A i \in 1 .. stack[k].done :
      \/ Dependencies(stack[k].name)[i] \in Placed
      \/ k < Len(stack) /\ Dependencies(stack[k].name)[i] = stack[k + 1].name

VisitInv ==
  /\ Once(order) /\ DependenciesFirst(order) /\ StackApart /\ RanksGoDown /\ LookedAt
  /\ pc # "order" => visited = {} /\ stack = <<>> /\ order = <<>>

WalkInv ==
  /\ Once(bootOrder) /\ DependenciesFirst(bootOrder)
  /\ pc \in {"order", "init"} => ~initialized
  /\ pc = "init" => /\ cursor \in 1 .. Len(bootOrder) + 1
                    /\ \A i \in 1 .. cursor - 1 : /\ instance[bootOrder[i]] = "up"
                                                  /\ health[bootOrder[i]] = "healthy"
  /\ pc = "stop" => /\ cursor \in 0 .. Len(bootOrder)
                    /\ \A i \in cursor + 1 .. Len(bootOrder) : instance[bootOrder[i]] # "up"
  /\ InitializedMeansUp

RegistryInv == TypeOK /\ VisitInv /\ WalkInv

-----------------------------------------------------------------------------
\* What a service depends on is a list of services.
LEMMA DependenciesAre ==
  ASSUME TypeOK, NEW s \in Service
  PROVE  /\ Dependencies(s) \in Seq(Service)
         /\ deps[s] \in Seq(Service)
         /\ Dependencies(s) = <<>> \/ Dependencies(s) = deps[s]
  BY DepListAssumption DEF TypeOK, Dependencies

\* The rank of a dependency is lower.
LEMMA DependencyIsLower ==
  ASSUME TypeOK, NEW rank \in Rankings, Ranks(rank), NEW s \in Service,
         NEW i \in DOMAIN Dependencies(s)
  PROVE  rank[Dependencies(s)[i]] < rank[s]
  <1>1. Dependencies(s) = deps[s]
    BY DependenciesAre
  <1> QED
    BY <1>1 DEF Ranks

LEMMA RegistryAtFirst == Init => RegistryInv
  <1> SUFFICES ASSUME Init PROVE RegistryInv
    OBVIOUS
  <1>1. /\ DOMAIN services = {} /\ DOMAIN bootOrder = {} /\ DOMAIN order = {} /\ DOMAIN stack = {}
        /\ Len(bootOrder) = 0 /\ boots \in 0 .. MaxBoots
    BY BootsAssumption DEF Init
  <1>2. TypeOK
    <2>1. /\ services = <<>> /\ bootOrder = <<>> /\ stack = <<>> /\ order = <<>>
          /\ singletons = {} /\ visited = {} /\ cursor = 0 /\ initialized = FALSE /\ pc = "idle"
      BY DEF Init
    <2>2. services \in Seq(Service) /\ bootOrder \in Seq(Service) /\ stack \in Seq(Frame) /\ order \in Seq(Service)
      BY <2>1
    <2>3. /\ deps \in [Service -> DepList] /\ instance \in [Service -> {"none", "up", "down"}]
          /\ health \in [Service -> {"uninitialized", "healthy", "failed"}]
      BY DEF Init
    <2> QED
      BY <1>1, <2>1, <2>2, <2>3 DEF TypeOK
  <1>3. VisitInv
    BY <1>1 DEF Init, VisitInv, Once, DependenciesFirst, StackApart, RanksGoDown, LookedAt, Placed, Visiting
  <1>4. WalkInv
    BY <1>1 DEF Init, WalkInv, Once, DependenciesFirst, InitializedMeansUp
  <1> QED
    BY <1>2, <1>3, <1>4 DEF RegistryInv

\* Where the graph stays and visit does not move, VisitInv stays.
LEMMA VisitKept ==
  ASSUME VisitInv, UNCHANGED <<deps, singletons, visited, stack, order>>,
         pc' # "order" => visited = {} /\ stack = <<>> /\ order = <<>>
  PROVE  VisitInv'
  <1>1. Acyclic' = Acyclic /\ Placed' = Placed /\ Visiting' = Visiting
    BY DEF Acyclic, Placed, Visiting
  <1>2. \A s : Dependencies(s)' = Dependencies(s) /\ DepSet(s)' = DepSet(s)
    BY DEF Dependencies, DepSet
  <1>3. \A rank : Ranks(rank)' = Ranks(rank)
    BY DEF Ranks
  <1>4. Once(order)' /\ DependenciesFirst(order)' /\ StackApart'
    BY <1>1, <1>2 DEF VisitInv, Once, DependenciesFirst, StackApart
  <1>5. RanksGoDown'
    BY <1>3 DEF VisitInv, RanksGoDown
  <1>6. LookedAt'
    BY <1>1, <1>2 DEF VisitInv, LookedAt
  <1> QED
    BY <1>4, <1>5, <1>6 DEF VisitInv

LEMMA OrderKept ==
  ASSUME WalkInv, UNCHANGED <<deps, singletons, bootOrder>>
  PROVE  Once(bootOrder)' /\ DependenciesFirst(bootOrder)'
  BY DEF WalkInv, Once, DependenciesFirst, Acyclic, DepSet, Dependencies

-----------------------------------------------------------------------------
\* Calls from outside.
LEMMA RegisterKeeps ==
  ASSUME RegistryInv, NEW s \in Service, Register(s)
  PROVE  RegistryInv'
  <1>1. TypeOK'
    <2>1. services' \in Seq(Service) /\ Registered \subseteq Registered'
      <3>1. services \in Seq(Service) /\ services' = Append(services, s)
        BY DEF RegistryInv, TypeOK, Register
      <3> QED
        BY <3>1, AppendedTo DEF Registered
    <2> QED
      BY <2>1 DEF RegistryInv, TypeOK, Register, visitVars
  <1>2. VisitInv'
    BY VisitKept DEF RegistryInv, Register, visitVars, VisitInv
  <1>3. WalkInv'
    BY OrderKept DEF RegistryInv, Register, visitVars, WalkInv, InitializedMeansUp
  <1> QED
    BY <1>1, <1>2, <1>3 DEF RegistryInv

LEMMA SingletonKeeps ==
  ASSUME RegistryInv, NEW s \in Singleton, RegisterSingleton(s)
  PROVE  RegistryInv'
  <1>0. s \in Service
    BY ServiceAssumption
  <1>1. TypeOK'
    <2>1. services' \in Seq(Service) /\ Registered \subseteq Registered' /\ s \in Registered'
      <3>1. CASE s \in Registered
        BY <3>1 DEF RegistryInv, TypeOK, RegisterSingleton, Registered
      <3>2. CASE s \notin Registered
        <4>1. services' = Append(services, s) /\ services \in Seq(Service)
          BY <3>2 DEF RegistryInv, TypeOK, RegisterSingleton
        <4>2. /\ services' \in Seq(Service) /\ DOMAIN services' = 1 .. Len(services) + 1
              /\ Len(services) \in Nat /\ DOMAIN services = 1 .. Len(services)
              /\ \A i \in 1 .. Len(services) : services'[i] = services[i]
              /\ services'[Len(services) + 1] = s
          BY <1>0, <4>1, AppendedTo
        <4> QED
          BY <4>2 DEF Registered
      <3> QED
        BY <3>1, <3>2
    <2>2. singletons' \in SUBSET (Registered' \cap Singleton)
      BY <2>1 DEF RegistryInv, TypeOK, RegisterSingleton
    <2>3. /\ instance' \in [Service -> {"none", "up", "down"}]
          /\ health' \in [Service -> {"uninitialized", "healthy", "failed"}]
      BY DEF RegistryInv, TypeOK, RegisterSingleton
    <2> QED
      BY <2>1, <2>2, <2>3 DEF RegistryInv, TypeOK, RegisterSingleton, visitVars
  <1>2. /\ pc = "idle" /\ pc' = "idle" /\ deps' = deps /\ bootOrder' = bootOrder
        /\ visited' = {} /\ stack' = <<>> /\ order' = <<>>
    BY DEF RegistryInv, RegisterSingleton, VisitInv, visitVars
  <1>3. VisitInv'
    <2>1. DOMAIN order' = {} /\ DOMAIN stack' = {}
      BY <1>2
    <2> QED
      BY <1>2, <2>1 DEF VisitInv, Once, DependenciesFirst, StackApart, RanksGoDown, LookedAt, Placed, Visiting
  <1>4. WalkInv'
    <2>1. \A t : DepSet(t)' \subseteq DepSet(t)
      BY <1>2 DEF DepSet, Dependencies, RegisterSingleton
    <2>2. Acyclic' <=> Acyclic
      BY <1>2 DEF Acyclic
    <2>3. Once(bootOrder)' /\ DependenciesFirst(bootOrder)'
      BY <1>2, <2>1, <2>2 DEF RegistryInv, WalkInv, Once, DependenciesFirst
    <2>4. InitializedMeansUp'
      <3>1. InitializedMeansUp /\ bootOrder \in Seq(Service)
        BY DEF RegistryInv, WalkInv, TypeOK
      <3>2. \A t \in Service : /\ instance'[t] = IF t = s THEN "up" ELSE instance[t]
                               /\ health'[t] = IF t = s THEN "uninitialized" ELSE health[t]
        BY DEF RegisterSingleton, RegistryInv, TypeOK
      <3> QED
        BY <1>2, <3>1, <3>2 DEF InitializedMeansUp, RegisterSingleton
    <2> QED
      BY <1>2, <2>3, <2>4 DEF WalkInv
  <1> QED
    BY <1>1, <1>3, <1>4 DEF RegistryInv

-----------------------------------------------------------------------------
\* visit.  The innermost call has looked at one dependency more.
LEMMA OneMoreLooked ==
  ASSUME TypeOK, stack # <<>>, NEW next, next = [stack EXCEPT ![Len(stack)].done = @ + 1]
  PROVE  /\ next \in Seq(Frame) /\ Len(next) = Len(stack) /\ DOMAIN next = 1 .. Len(stack)
         /\ Len(stack) \in Nat \ {0} /\ DOMAIN stack = 1 .. Len(stack)
         /\ \A k \in 1 .. Len(stack) : next[k].name = stack[k].name
         /\ \A k \in 1 .. Len(stack) : k # Len(stack) => next[k].done = stack[k].done
         /\ next[Len(stack)].done = Top.done + 1
         /\ Top \in Frame
  <1>1. stack \in Seq(Frame)
    BY DEF TypeOK
  <1>2. /\ stack \in [1 .. Len(stack) -> Frame] /\ Len(stack) \in Nat \ {0}
        /\ DOMAIN stack = 1 .. Len(stack)
    BY <1>1
  <1> DEFINE n == Len(stack)
             f == [stack[n] EXCEPT !.done = @ + 1]
  <1>3. stack[n] \in Frame /\ n \in 1 .. n
    BY <1>2
  <1>4. f \in Frame /\ f.name = stack[n].name /\ f.done = stack[n].done + 1
    BY <1>3 DEF Frame
  <1>5. next = [stack EXCEPT ![n] = f]
    OBVIOUS
  <1> HIDE DEF f
  <1>6. next \in [1 .. n -> Frame] /\ next[n] = f /\ \A k \in 1 .. n : k # n => next[k] = stack[k]
    BY <1>2, <1>3, <1>4, <1>5
  <1>7. next \in Seq(Frame) /\ Len(next) = n
    BY <1>2, <1>6
  <1> QED
    BY <1>2, <1>3, <1>4, <1>6, <1>7 DEF Top

\* In an acyclic graph nothing that is being visited is a dependency of the innermost call.
LEMMA NoCallerBelow ==
  ASSUME TypeOK, RanksGoDown, stack # <<>>, Acyclic,
         NEW i \in DOMAIN Dependencies(Top.name), NEW k \in DOMAIN stack
  PROVE  stack[k].name # Dependencies(Top.name)[i]
  <1>1. PICK rank \in Rankings : Ranks(rank)
    BY DEF Acyclic, Rankings, Ranks
  <1>2. /\ stack \in [1 .. Len(stack) -> Frame] /\ Len(stack) \in Nat \ {0}
        /\ DOMAIN stack = 1 .. Len(stack) /\ Len(stack) \in DOMAIN stack
    <2>1. stack \in Seq(Frame)
      BY DEF TypeOK
    <2> QED
      BY <2>1
  <1>3. Top.name \in Service /\ stack[k].name \in Service
    BY <1>2 DEF Top, Frame
  <1>4. rank[Dependencies(Top.name)[i]] < rank[Top.name]
    BY <1>1, <1>3, DependencyIsLower
  <1>5. k # Len(stack) => rank[Top.name] < rank[stack[k].name]
    BY <1>1, <1>2 DEF RanksGoDown, Top
  <1>6. rank[Top.name] \in Int /\ rank[stack[k].name] \in Int
    <2>1. Cardinality(Service) \in Nat
      BY ServiceAssumption, FS_CardinalityType
    <2> QED
      BY <1>3, <2>1 DEF Rankings
  <1>7. k = Len(stack) => stack[k].name = Top.name
    BY DEF Top
  <1> QED
    BY <1>4, <1>5, <1>6, <1>7

\* A dependency that was visited before: on to the next one.
LEMMA SeenKeeps ==
  ASSUME TypeOK, VisitInv, pc = "order", stack # <<>>,
         Top.done < Len(Dependencies(Top.name)), Dependencies(Top.name)[Top.done + 1] \in visited,
         stack' = [stack EXCEPT ![Len(stack)].done = @ + 1],
         UNCHANGED <<deps, singletons, visited, order, pc>>
  PROVE  VisitInv'
  <1> DEFINE n == Len(stack)
             d == Dependencies(Top.name)[Top.done + 1]
  <1>1. /\ Len(stack') = n /\ DOMAIN stack' = 1 .. n /\ n \in Nat \ {0} /\ DOMAIN stack = 1 .. n
        /\ \A k \in 1 .. n : stack'[k].name = stack[k].name
        /\ \A k \in 1 .. n : k # n => stack'[k].done = stack[k].done
        /\ stack'[n].done = Top.done + 1 /\ Top \in Frame
    BY OneMoreLooked
  <1>2. /\ Acyclic' = Acyclic /\ Placed' = Placed
        /\ \A s : Dependencies(s)' = Dependencies(s) /\ DepSet(s)' = DepSet(s)
        /\ \A rank : Ranks(rank)' = Ranks(rank)
    BY DEF Acyclic, Placed, Dependencies, DepSet, Ranks
  <1>3. Visiting' = Visiting
    BY <1>1 DEF Visiting
  <1>4. Once(order)' /\ DependenciesFirst(order)'
    BY <1>2 DEF VisitInv, Once, DependenciesFirst
  <1>5. StackApart'
    <2>1. \A k \in 1 .. n : stack'[k].done <= Len(Dependencies(stack'[k].name))
      <3>1. Len(Dependencies(Top.name)) \in Nat /\ Top.done \in Nat
        BY <1>1, DependenciesAre DEF Frame
      <3>2. stack'[n].name = Top.name
        BY <1>1 DEF Top
      <3>3. stack'[n].done <= Len(Dependencies(stack'[n].name))
        BY <1>1, <3>1, <3>2
      <3> QED
        BY <1>1, <3>3 DEF VisitInv, StackApart
    <2> QED
      BY <1>1, <1>2, <1>3, <2>1 DEF VisitInv, StackApart
  <1>6. RanksGoDown'
    BY <1>1, <1>2 DEF VisitInv, RanksGoDown
  <1>7. LookedAt'
    <2> SUFFICES ASSUME Acyclic PROVE LookedAt'
      BY <1>2 DEF LookedAt
    <2>1. d \in Placed
      <3>1. Top.done + 1 \in DOMAIN Dependencies(Top.name)
        BY <1>1, DependenciesAre DEF Frame
      <3>2. d \notin Visiting
        BY <3>1, NoCallerBelow DEF VisitInv, Visiting
      <3> QED
        BY <3>2 DEF VisitInv, StackApart
    <2>2. ASSUME NEW k \in 1 .. n, NEW i \in 1 .. stack'[k].done
          PROVE  \/ Dependencies(stack'[k].name)[i] \in Placed
                 \/ k < n /\ Dependencies(stack'[k].name)[i] = stack'[k + 1].name
      <3>1. CASE k = n /\ i = Top.done + 1
        BY <1>1, <2>1, <3>1 DEF Top
      <3>2. CASE i \in 1 .. stack[k].done
        <4>1. \/ Dependencies(stack[k].name)[i] \in Placed
              \/ k < n /\ Dependencies(stack[k].name)[i] = stack[k + 1].name
          BY <1>1, <3>2 DEF VisitInv, LookedAt
        <4> QED
          BY <1>1, <4>1
      <3> QED
        BY <1>1, <2>2, <3>1, <3>2 DEF Top, Frame
    <2> QED
      BY <1>1, <1>2, <2>2 DEF LookedAt
  <1> QED
    BY <1>4, <1>5, <1>6, <1>7 DEF VisitInv

\* What Push does to a stack, before it one call has looked at s or none has.
LEMMA Pushed ==
  ASSUME NEW next \in Seq(Frame), NEW s \in Service
  PROVE  /\ Push(next, s) \in Seq(Frame) /\ Len(next) \in Nat
         /\ DOMAIN next = 1 .. Len(next) /\ DOMAIN Push(next, s) = 1 .. Len(next) + 1
         /\ Len(Push(next, s)) = Len(next) + 1
         /\ \A k \in 1 .. Len(next) : Push(next, s)[k] = next[k] /\ k # Len(next) + 1
         /\ Push(next, s)[Len(next) + 1].name = s /\ Push(next, s)[Len(next) + 1].done = 0
  <1>1. [name |-> s, done |-> 0] \in Frame
    BY DEF Frame
  <1>2. [name |-> s, done |-> 0].name = s /\ [name |-> s, done |-> 0].done = 0
    OBVIOUS
  <1> DEFINE f == [name |-> s, done |-> 0]
  <1> HIDE DEF f
  <1>3. Push(next, s) = Append(next, f) /\ f \in Frame /\ f.name = s /\ f.done = 0
    BY <1>1, <1>2 DEF Push, f
  <1> QED
    BY <1>3, AppendedTo

\* An unvisited service is visited next: from the top, or for the innermost call.
LEMMA PushKeeps ==
  ASSUME TypeOK, VisitInv, pc = "order", NEW s \in Service \ visited, NEW next \in Seq(Frame),
         Len(next) = Len(stack),
         \A k \in 1 .. Len(stack) : next[k].name = stack[k].name,
         \A k \in 1 .. Len(stack) : k # Len(stack) => next[k].done = stack[k].done,
         stack # <<>> => /\ next[Len(stack)].done = Top.done + 1
                         /\ Top.done < Len(Dependencies(Top.name))
                         /\ Dependencies(Top.name)[Top.done + 1] = s,
         stack' = Push(next, s), visited' = visited \cup {s},
         UNCHANGED <<deps, singletons, order, pc>>
  PROVE  VisitInv'
  <1> DEFINE n == Len(stack)
  <1>1. /\ n \in Nat /\ DOMAIN stack = 1 .. n /\ DOMAIN stack' = 1 .. n + 1 /\ Len(stack') = n + 1
        /\ \A k \in 1 .. n : stack'[k].name = stack[k].name /\ k # n + 1 /\ k < n + 1
        /\ \A k \in 1 .. n : k # n => stack'[k].done = stack[k].done
        /\ stack'[n + 1].name = s /\ stack'[n + 1].done = 0
        /\ \A k \in 1 .. n + 1 : k = n + 1 \/ k \in 1 .. n
    <2>1. /\ stack \in Seq(Frame) /\ n \in Nat /\ DOMAIN stack = 1 .. n /\ Len(next) = n
          /\ \A k \in 1 .. n : next[k].name = stack[k].name
          /\ \A k \in 1 .. n : k # n => next[k].done = stack[k].done
      <3>1. stack \in Seq(Frame)
        BY DEF TypeOK
      <3>2. n \in Nat /\ DOMAIN stack = 1 .. n
        BY <3>1
      <3>3. /\ Len(next) = n
            /\ \A k \in 1 .. n : next[k].name = stack[k].name
            /\ \A k \in 1 .. n : k # n => next[k].done = stack[k].done
        BY Zenon DEF n
      <3> QED
        BY <3>1, <3>2, <3>3, Zenon
    <2> HIDE DEF n
    <2>2. /\ DOMAIN stack' = 1 .. n + 1 /\ Len(stack') = n + 1
          /\ \A k \in 1 .. n : stack'[k] = next[k] /\ k # n + 1
          /\ stack'[n + 1].name = s /\ stack'[n + 1].done = 0
      BY <2>1, Pushed
    <2>3. \A k \in 1 .. n : k < n + 1
      BY <2>1
    <2>4. \A k \in 1 .. n + 1 : k = n + 1 \/ k \in 1 .. n
      BY <2>1
    <2> QED
      BY <2>1, <2>2, <2>3, <2>4
  <1>2. /\ Acyclic' = Acyclic /\ Placed' = Placed
        /\ \A t : Dependencies(t)' = Dependencies(t) /\ DepSet(t)' = DepSet(t)
        /\ \A rank : Ranks(rank)' = Ranks(rank)
    BY DEF Acyclic, Placed, Dependencies, DepSet, Ranks
  <1>3. n # 0 => /\ stack # <<>> /\ n \in 1 .. n /\ stack'[n].done = Top.done + 1 /\ Top = stack[n]
                 /\ Top \in Frame /\ stack'[n].name = Top.name
    <2> SUFFICES ASSUME n # 0
                 PROVE  /\ stack # <<>> /\ n \in 1 .. n /\ stack'[n].done = Top.done + 1
                        /\ Top = stack[n] /\ Top \in Frame /\ stack'[n].name = Top.name
      OBVIOUS
    <2>1. stack \in Seq(Frame) /\ stack # <<>> /\ n \in 1 .. n /\ stack[n] \in Frame
      BY DEF TypeOK
    <2>2. Top = stack[n]
      BY DEF Top
    <2>3. stack'[n] = next[n]
      BY <2>1, Pushed
    <2>4. next[n].done = Top.done + 1 /\ stack'[n].name = stack[n].name
      BY <1>1, <2>1
    <2> QED
      BY <2>1, <2>2, <2>3, <2>4
  <1>4. Once(order)' /\ DependenciesFirst(order)'
    BY <1>2 DEF VisitInv, Once, DependenciesFirst
  <1>5. StackApart'
    <2>1. s \notin Visiting /\ s \notin Placed
      BY DEF VisitInv, StackApart
    <2>2. Visiting' = Visiting \cup {s}
      BY <1>1 DEF Visiting
    <2>3. \A k \in 1 .. n : stack'[k].name # s
      BY <1>1, <2>1 DEF Visiting
    <2>4. \A k \in 1 .. n + 1 : stack'[k].done <= Len(Dependencies(stack'[k].name))
      <3>1. stack'[n + 1].done <= Len(Dependencies(stack'[n + 1].name))
        BY <1>1, DependenciesAre
      <3>2. n # 0 => stack'[n].done <= Len(Dependencies(stack'[n].name))
        <4> SUFFICES ASSUME n # 0 PROVE stack'[n].done <= Len(Dependencies(stack'[n].name))
          OBVIOUS
        <4>1. Len(Dependencies(Top.name)) \in Nat /\ Top.done \in Nat
          BY <1>3, DependenciesAre DEF Frame
        <4> QED
          BY <1>3, <4>1
      <3>3. \A k \in 1 .. n : k # n => stack'[k].done <= Len(Dependencies(stack'[k].name))
        BY <1>1 DEF VisitInv, StackApart
      <3> QED
        BY <1>1, <3>1, <3>2, <3>3
    <2>5. visited' = Placed' \cup Visiting'
      BY <1>2, <2>2 DEF VisitInv, StackApart
    <2>6. \A k \in 1 .. n + 1 : stack'[k].name \notin Placed'
      BY <1>1, <1>2, <2>1 DEF VisitInv, StackApart
    <2>7. \A k, l \in 1 .. n + 1 : stack'[k].name = stack'[l].name => k = l
      BY <1>1, <2>3 DEF VisitInv, StackApart
    <2> HIDE DEF n
    <2> QED
      BY <1>1, <1>2, <2>4, <2>5, <2>6, <2>7 DEF StackApart
  <1>6. RanksGoDown'
    <2> SUFFICES ASSUME NEW rank \in Rankings, Ranks(rank),
                        NEW k \in 1 .. n + 1, NEW l \in 1 .. n + 1, k < l
                 PROVE  rank[stack'[l].name] < rank[stack'[k].name]
      BY <1>1, <1>2 DEF RanksGoDown
    <2>1. CASE l # n + 1
      <3>1. k \in 1 .. n /\ l \in 1 .. n
        BY <1>1, <2>1
      <3>2. rank[stack[l].name] < rank[stack[k].name]
        BY <1>1, <3>1 DEF VisitInv, RanksGoDown
      <3>3. stack'[l].name = stack[l].name /\ stack'[k].name = stack[k].name
        BY <1>1, <3>1
      <3> QED
        BY <3>2, <3>3
    <2>2. CASE l = n + 1
      <3>1. n # 0 /\ k \in 1 .. n
        BY <1>1, <2>2
      <3>2. Top.name \in Service /\ stack[k].name \in Service
        <4>1. Top \in Frame /\ stack[k] \in Frame
          BY <1>1, <1>3, <3>1 DEF TypeOK
        <4> QED
          BY <4>1 DEF Frame
      <3>3. Top.done + 1 \in DOMAIN Dependencies(Top.name)
        BY <1>3, <3>1, DependenciesAre DEF Frame
      <3>4. rank[s] < rank[Top.name]
        BY <1>3, <3>1, <3>2, <3>3, DependencyIsLower
      <3>5. k # n => rank[Top.name] < rank[stack[k].name]
        BY <1>1, <1>3, <3>1 DEF VisitInv, RanksGoDown
      <3>6. /\ rank[s] \in Int /\ rank[Top.name] \in Int /\ rank[stack[k].name] \in Int
        <4>1. Cardinality(Service) \in Nat
          BY ServiceAssumption, FS_CardinalityType
        <4> QED
          BY <3>2, <4>1 DEF Rankings
      <3> QED
        BY <1>1, <1>3, <2>2, <3>1, <3>4, <3>5, <3>6
    <2> QED
      BY <2>1, <2>2
  <1>7. LookedAt'
    <2> SUFFICES ASSUME Acyclic, NEW k \in 1 .. n + 1, NEW i \in 1 .. stack'[k].done
                 PROVE  \/ Dependencies(stack'[k].name)[i] \in Placed
                        \/ k < n + 1 /\ Dependencies(stack'[k].name)[i] = stack'[k + 1].name
      BY <1>1, <1>2 DEF LookedAt
    <2>1. k # n + 1
      BY <1>1
    <2>2. CASE k = n
      <3>1. CASE i = Top.done + 1
        BY <1>1, <1>3, <2>2, <3>1
      <3>2. CASE i # Top.done + 1
        <4>1. i \in 1 .. stack[n].done /\ n # 0
          BY <1>1, <1>3, <2>2, <3>2 DEF Frame
        <4>2. Dependencies(stack[n].name)[i] \in Placed
          BY <1>1, <1>3, <4>1 DEF VisitInv, LookedAt
        <4> QED
          BY <1>1, <2>2, <4>1, <4>2
      <3> QED
        BY <3>1, <3>2
    <2>3. CASE k # n
      <3>1. k \in 1 .. n /\ k + 1 \in 1 .. n /\ i \in 1 .. stack[k].done
        BY <1>1, <2>1, <2>3
      <3>2. \/ Dependencies(stack[k].name)[i] \in Placed
            \/ k < n /\ Dependencies(stack[k].name)[i] = stack[k + 1].name
        BY <1>1, <3>1 DEF VisitInv, LookedAt
      <3> QED
        BY <1>1, <3>1, <3>2
    <2> QED
      BY <2>2, <2>3
  <1> QED
    BY <1>4, <1>5, <1>6, <1>7 DEF VisitInv

\* Inside visit only visit's own state moves.
LEMMA VisitTypes ==
  ASSUME TypeOK, visited' \in SUBSET Service, stack' \in Seq(Frame), order' \in Seq(Service),
         pc' \in {"idle", "order", "init", "stop"}, bootOrder' \in Seq(Service), cursor' \in Nat,
         UNCHANGED <<deps, services, singletons, instance, health, initialized, boots>>
  PROVE  TypeOK'
  BY DEF TypeOK, Registered

LEMMA WalkUntouched ==
  ASSUME WalkInv, pc = "order", pc' \in {"order", "idle"},
         UNCHANGED <<deps, singletons, instance, health, bootOrder, initialized>>
  PROVE  WalkInv'
  BY OrderKept DEF WalkInv, InitializedMeansUp

LEMMA VisitRootKeeps ==
  ASSUME RegistryInv, NEW s \in Service, VisitRoot(s)
  PROVE  RegistryInv'
  <1>1. /\ TypeOK /\ VisitInv /\ pc = "order" /\ pc' = pc /\ s \in Service \ visited
        /\ stack = <<>> /\ stack' = Push(stack, s) /\ visited' = visited \cup {s} /\ stack \in Seq(Frame)
        /\ UNCHANGED <<deps, services, singletons, instance, health, bootOrder, initialized, order, cursor, boots>>
    BY DEF RegistryInv, VisitRoot, TypeOK
  <1>2. VisitInv'
    <2>1. Len(stack) = 0 /\ Len(stack) = Len(stack)
      BY <1>1
    <2>2. (\A k \in 1 .. Len(stack) : stack[k].name = stack[k].name)
          /\ \A k \in 1 .. Len(stack) : k # Len(stack) => stack[k].done = stack[k].done
      OBVIOUS
    <2> QED
      BY <1>1, <2>1, <2>2, PushKeeps
  <1>3. TypeOK'
    BY <1>1, Pushed, VisitTypes DEF TypeOK
  <1> QED
    BY <1>1, <1>2, <1>3, WalkUntouched DEF RegistryInv

LEMMA VisitDependencyKeeps ==
  ASSUME RegistryInv, VisitDependency
  PROVE  RegistryInv'
  <1> DEFINE d == Dependencies(Top.name)[Top.done + 1]
             next == [stack EXCEPT ![Len(stack)].done = @ + 1]
  <1>1. /\ TypeOK /\ VisitInv /\ pc = "order" /\ pc' = pc /\ stack # <<>>
        /\ Top.done < Len(Dependencies(Top.name)) /\ visited' = visited \cup {d}
        /\ stack' = IF d \in visited THEN next ELSE Push(next, d)
        /\ UNCHANGED <<deps, services, singletons, instance, health, bootOrder, initialized, order, cursor, boots>>
    BY DEF RegistryInv, VisitDependency
  <1>2. /\ next \in Seq(Frame) /\ Len(next) = Len(stack)
        /\ \A k \in 1 .. Len(stack) : next[k].name = stack[k].name
        /\ \A k \in 1 .. Len(stack) : k # Len(stack) => next[k].done = stack[k].done
        /\ next[Len(stack)].done = Top.done + 1 /\ Top \in Frame
    BY <1>1, OneMoreLooked
  <1>3. d \in Service
    <2>1. Top.name \in Service /\ Top.done \in Nat
      BY <1>2 DEF Frame
    <2> QED
      BY <1>1, <2>1, DependenciesAre
  <1> HIDE DEF next
  <1>4. VisitInv'
    <2>1. CASE d \in visited
      <3>1. visited' = visited /\ stack' = [stack EXCEPT ![Len(stack)].done = @ + 1]
        BY <1>1, <2>1 DEF next
      <3> QED
        BY <1>1, <2>1, <3>1, SeenKeeps
    <2>2. CASE d \notin visited
      BY <1>1, <1>2, <1>3, <2>2, PushKeeps
    <2> QED
      BY <2>1, <2>2
  <1>5. TypeOK'
    <2>1. stack' \in Seq(Frame)
      BY <1>1, <1>2, <1>3, Pushed
    <2> HIDE DEF d
    <2> QED
      BY <1>1, <1>3, <2>1, VisitTypes DEF TypeOK
  <1> QED
    BY <1>1, <1>4, <1>5, WalkUntouched DEF RegistryInv

\* boot() has done with visit, with or without an order.
LEMMA Forgotten ==
  ASSUME ForgetVisit
  PROVE  VisitInv'
  <1>1. visited' = {} /\ stack' = <<>> /\ order' = <<>> /\ DOMAIN order' = {} /\ DOMAIN stack' = {}
    BY DEF ForgetVisit
  <1> QED
    BY <1>1 DEF VisitInv, Once, DependenciesFirst, StackApart, RanksGoDown, LookedAt, Placed, Visiting

LEMMA VisitUnregisteredKeeps ==
  ASSUME RegistryInv, VisitUnregistered
  PROVE  RegistryInv'
  <1>1. /\ TypeOK /\ pc = "order" /\ pc' = "idle" /\ ForgetVisit
        /\ UNCHANGED <<deps, services, singletons, instance, health, bootOrder, initialized, cursor, boots>>
    BY DEF RegistryInv, VisitUnregistered
  <1>2. TypeOK'
    <2>1. stack' \in Seq(Frame) /\ order' \in Seq(Service) /\ visited' \in SUBSET Service
      BY <1>1 DEF ForgetVisit
    <2> QED
      BY <1>1, <2>1, VisitTypes DEF TypeOK
  <1> QED
    BY <1>1, <1>2, Forgotten, WalkUntouched DEF RegistryInv

LEMMA OrderBuiltKeeps ==
  ASSUME RegistryInv, OrderBuilt
  PROVE  RegistryInv'
  <1>1. /\ TypeOK /\ VisitInv /\ WalkInv /\ pc = "order" /\ pc' = "init" /\ ForgetVisit
        /\ bootOrder' = order /\ cursor' = 1 /\ order \in Seq(Service)
        /\ UNCHANGED <<deps, services, singletons, instance, health, initialized, boots>>
    BY DEF RegistryInv, OrderBuilt, TypeOK
  <1>2. TypeOK'
    <2>1. stack' \in Seq(Frame) /\ order' \in Seq(Service) /\ visited' \in SUBSET Service
      BY <1>1 DEF ForgetVisit
    <2> QED
      BY <1>1, <2>1, VisitTypes
  <1>3. Once(bootOrder)' /\ DependenciesFirst(bootOrder)'
    <2>1. Acyclic' = Acyclic /\ \A t : DepSet(t)' = DepSet(t)
      BY <1>1 DEF Acyclic, DepSet, Dependencies
    <2> QED
      BY <1>1, <2>1 DEF VisitInv, Once, DependenciesFirst
  <1>4. WalkInv'
    <2>1. ~initialized'
      BY <1>1 DEF WalkInv
    <2>2. cursor' \in 1 .. Len(bootOrder') + 1 /\ 1 .. cursor' - 1 = {}
      BY <1>1
    <2> QED
      BY <1>1, <1>3, <2>1, <2>2 DEF WalkInv, InitializedMeansUp
  <1> QED
    BY <1>1, <1>2, <1>4, Forgotten DEF RegistryInv

\* The innermost call has seen all its dependencies: they are placed, and so is it.
LEMMA VisitReturnsKeeps ==
  ASSUME RegistryInv, VisitReturns
  PROVE  RegistryInv'
  <1> DEFINE n == Len(stack)
             m == Len(order)
             s == Top.name
  <1>1. /\ TypeOK /\ VisitInv /\ pc = "order" /\ pc' = pc /\ stack # <<>>
        /\ Top.done = Len(Dependencies(Top.name))
        /\ order' = Append(order, s) /\ stack' = SubSeq(stack, 1, n - 1)
        /\ UNCHANGED <<deps, services, singletons, instance, health, bootOrder, initialized, visited, cursor, boots>>
    BY DEF RegistryInv, VisitReturns
  <1>2. /\ stack' \in Seq(Frame) /\ Len(stack') = n - 1 /\ DOMAIN stack' = 1 .. n - 1
        /\ n \in Nat \ {0} /\ DOMAIN stack = 1 .. n
        /\ \A k \in 1 .. n - 1 : stack'[k] = stack[k] /\ k \in 1 .. n /\ k # n
        /\ Top = stack[n] /\ Top \in Frame /\ n \in 1 .. n
    <2>1. stack \in Seq(Frame)
      BY <1>1 DEF TypeOK
    <2>2. /\ n \in Nat \ {0} /\ DOMAIN stack = 1 .. n /\ n \in 1 .. n /\ stack[n] \in Frame
          /\ n - 1 \in 0 .. n
      BY <1>1, <2>1
    <2>3. /\ SubSeq(stack, 1, n - 1) \in Seq(Frame) /\ Len(SubSeq(stack, 1, n - 1)) = n - 1
          /\ DOMAIN SubSeq(stack, 1, n - 1) = 1 .. n - 1
          /\ \A k \in 1 .. n - 1 : SubSeq(stack, 1, n - 1)[k] = stack[k]
      BY <2>1, <2>2
    <2> HIDE DEF n
    <2>4. \A k \in 1 .. n - 1 : k \in 1 .. n /\ k # n
      BY <2>2
    <2>5. Top = stack[n]
      BY DEF Top, n
    <2> QED
      BY <1>1, <2>2, <2>3, <2>4, <2>5
  <1>3. /\ order' \in Seq(Service) /\ DOMAIN order' = 1 .. m + 1 /\ m \in Nat /\ DOMAIN order = 1 .. m
        /\ \A i \in 1 .. m : order'[i] = order[i] /\ i # m + 1
        /\ order'[m + 1] = s
        /\ \A i \in 1 .. m + 1 : i = m + 1 \/ i \in 1 .. m
    <2>1. order \in Seq(Service) /\ s \in Service
      BY <1>1, <1>2 DEF TypeOK, Frame
    <2> QED
      BY <1>1, <2>1, AppendedTo
  <1> HIDE DEF n, m, s
  <1>4. /\ Acyclic' = Acyclic
        /\ \A t : Dependencies(t)' = Dependencies(t) /\ DepSet(t)' = DepSet(t)
        /\ \A rank : Ranks(rank)' = Ranks(rank)
    BY <1>1 DEF Acyclic, Dependencies, DepSet, Ranks
  <1>5. Placed' = Placed \cup {s}
    BY <1>3 DEF Placed
  <1>6. s = stack[n].name /\ s \notin Placed
    BY <1>1, <1>2 DEF s, VisitInv, StackApart
  <1>7. Once(order)'
    <2>1. \A i \in 1 .. m : order[i] # s
      BY <1>3, <1>6 DEF Placed
    <2>2. \A i, j \in 1 .. m : order[i] = order[j] => i = j
      BY <1>1, <1>3 DEF VisitInv, Once
    <2> QED
      BY <1>3, <2>1, <2>2 DEF Once
  <1>8. DependenciesFirst(order)'
    <2> SUFFICES ASSUME Acyclic, NEW i \in 1 .. m + 1, NEW d \in DepSet(order'[i])
                 PROVE  \E j \in 1 .. i - 1 : order'[j] = d
      BY <1>3, <1>4 DEF DependenciesFirst
    <2>1. CASE i \in 1 .. m
      <3>1. d \in DepSet(order[i])
        BY <1>3, <2>1
      <3>2. PICK j \in 1 .. i - 1 : order[j] = d
        BY <1>1, <1>3, <2>1, <3>1 DEF VisitInv, DependenciesFirst
      <3>3. j \in 1 .. m
        BY <1>3, <2>1
      <3> QED
        BY <1>3, <3>2, <3>3
    <2>2. CASE i = m + 1
      <3>1. PICK k \in DOMAIN Dependencies(s) : d = Dependencies(s)[k]
        BY <1>3, <2>2 DEF DepSet
      <3>2. k \in 1 .. stack[n].done /\ n \in DOMAIN stack /\ ~(n < n)
        <4>1. s \in Service
          BY <1>2 DEF s, Frame
        <4>2. Dependencies(s) \in Seq(Service)
          BY <1>1, <4>1, DependenciesAre
        <4>3. DOMAIN Dependencies(s) = 1 .. Len(Dependencies(s))
          BY <4>2
        <4>4. stack[n].done = Len(Dependencies(s))
          BY <1>1, <1>2 DEF s
        <4> QED
          BY <1>2, <3>1, <4>3, <4>4
      <3>3. d \in Placed
        BY <1>1, <1>2, <1>6, <3>1, <3>2 DEF VisitInv, LookedAt, n
      <3> QED
        BY <1>3, <2>2, <3>3 DEF Placed
    <2> QED
      BY <1>3, <2>1, <2>2
  <1>9. StackApart'
    <2>1. Visiting = Visiting' \cup {s}
      BY <1>2, <1>6 DEF Visiting
    <2>2. \A k \in 1 .. n - 1 : stack[k].name # s
      BY <1>1, <1>2, <1>6 DEF VisitInv, StackApart
    <2>3. visited' = Placed' \cup Visiting'
      BY <1>1, <1>5, <2>1 DEF VisitInv, StackApart
    <2>4. \A k \in 1 .. n - 1 : stack'[k].name \notin Placed'
      BY <1>1, <1>2, <1>5, <2>2 DEF VisitInv, StackApart
    <2> QED
      BY <1>1, <1>2, <1>4, <2>3, <2>4 DEF VisitInv, StackApart
  <1>10. RanksGoDown'
    BY <1>1, <1>2, <1>4 DEF VisitInv, RanksGoDown
  <1>11. LookedAt'
    <2> SUFFICES ASSUME Acyclic, NEW k \in 1 .. n - 1, NEW i \in 1 .. stack[k].done
                 PROVE  \/ Dependencies(stack[k].name)[i] \in Placed'
                        \/ k < n - 1 /\ Dependencies(stack[k].name)[i] = stack'[k + 1].name
      BY <1>2, <1>4 DEF LookedAt
    <2>1. \/ Dependencies(stack[k].name)[i] \in Placed
          \/ k < n /\ Dependencies(stack[k].name)[i] = stack[k + 1].name
      BY <1>1, <1>2 DEF VisitInv, LookedAt, n
    <2>2. CASE k < n - 1
      <3>1. k + 1 \in 1 .. n - 1
        BY <1>2, <2>2
      <3> QED
        BY <1>2, <1>5, <2>1, <2>2, <3>1
    <2>3. CASE k = n - 1
      <3>1. k + 1 = n
        BY <1>2, <2>3
      <3> QED
        BY <1>5, <1>6, <2>1, <3>1
    <2> QED
      BY <1>2, <2>2, <2>3
  <1>12. VisitInv'
    BY <1>1, <1>7, <1>8, <1>9, <1>10, <1>11 DEF VisitInv
  <1>13. TypeOK'
    BY <1>1, <1>2, <1>3, VisitTypes DEF TypeOK
  <1> QED
    BY <1>1, <1>12, <1>13, WalkUntouched DEF RegistryInv

-----------------------------------------------------------------------------
\* The walks of init and of stop.
LEMMA WalkTypes ==
  ASSUME TypeOK, instance' \in [Service -> {"none", "up", "down"}],
         health' \in [Service -> {"uninitialized", "healthy", "failed"}],
         initialized' \in BOOLEAN, pc' \in {"idle", "order", "init", "stop"}, cursor' \in Nat,
         boots' \in 0 .. MaxBoots,
         UNCHANGED <<deps, services, singletons, bootOrder, visitVars>>
  PROVE  TypeOK'
  BY DEF TypeOK, Registered, visitVars

\* A step of _init_service, whether it succeeds or fails.
LEMMA InitKeeps ==
  ASSUME RegistryInv, InitService \/ ConstructorFails \/ InitFails
  PROVE  RegistryInv'
  <1> DEFINE s == bootOrder[cursor]
  <1>1. /\ TypeOK /\ VisitInv /\ WalkInv /\ pc = "init" /\ cursor \in 1 .. Len(bootOrder)
        /\ bootOrder \in Seq(Service) /\ s \in Service /\ ~initialized
        /\ UNCHANGED <<deps, services, singletons, bootOrder, initialized, visitVars, boots>>
    <2>1. cursor \in Nat /\ cursor <= Len(bootOrder) /\ bootOrder \in Seq(Service) /\ pc = "init"
      BY DEF RegistryInv, TypeOK, InitService, ConstructorFails, InitFails
    <2>2. cursor \in 1 .. Len(bootOrder)
      BY <2>1 DEF RegistryInv, WalkInv
    <2> QED
      BY <2>1, <2>2 DEF RegistryInv, WalkInv, InitService, ConstructorFails, InitFails
  <1>2. /\ instance' \in [Service -> {"none", "up", "down"}]
        /\ health' \in [Service -> {"uninitialized", "healthy", "failed"}]
    BY <1>1 DEF TypeOK, InitService, ConstructorFails, InitFails
  <1>3. /\ pc' \in {"init", "idle"} /\ cursor' \in Nat
        /\ pc' = "init" => /\ cursor' = cursor + 1
                           /\ instance' = [instance EXCEPT ![s] = "up"]
                           /\ health' = [health EXCEPT ![s] = "healthy"]
    BY <1>1 DEF InitService, ConstructorFails, InitFails
  <1> HIDE DEF s
  <1>4. TypeOK'
    BY <1>1, <1>2, <1>3, WalkTypes DEF TypeOK
  <1>5. VisitInv'
    BY <1>1, <1>3, VisitKept DEF visitVars, VisitInv
  <1>6. pc' = "init" => \A i \in 1 .. cursor' - 1 : instance'[bootOrder[i]] = "up" /\ health'[bootOrder[i]] = "healthy"
    <2> SUFFICES ASSUME pc' = "init", NEW i \in 1 .. cursor
                 PROVE  instance'[bootOrder[i]] = "up" /\ health'[bootOrder[i]] = "healthy"
      BY <1>1, <1>3
    <2>1. \A t \in Service : /\ instance'[t] = IF t = s THEN "up" ELSE instance[t]
                             /\ health'[t] = IF t = s THEN "healthy" ELSE health[t]
      BY <1>1, <1>3 DEF TypeOK
    <2>2. bootOrder[i] \in Service
      BY <1>1
    <2>3. i = cursor => bootOrder[i] = s
      BY DEF s
    <2>4. i # cursor => instance[bootOrder[i]] = "up" /\ health[bootOrder[i]] = "healthy"
      BY <1>1 DEF WalkInv
    <2> QED
      BY <2>1, <2>2, <2>3, <2>4
  <1>7. pc' = "init" => cursor' \in 1 .. Len(bootOrder) + 1
    BY <1>1, <1>3
  <1>8. WalkInv'
    BY <1>1, <1>3, <1>6, <1>7, OrderKept DEF WalkInv, InitializedMeansUp
  <1> QED
    BY <1>4, <1>5, <1>8 DEF RegistryInv

LEMMA StopKeeps ==
  ASSUME RegistryInv, StopService
  PROVE  RegistryInv'
  <1> DEFINE s == bootOrder[cursor]
  <1>1. /\ TypeOK /\ VisitInv /\ WalkInv /\ pc = "stop" /\ pc' = pc /\ cursor \in 1 .. Len(bootOrder)
        /\ bootOrder \in Seq(Service) /\ s \in Service /\ cursor' = cursor - 1
        /\ instance' = [instance EXCEPT ![s] = IF @ = "none" THEN @ ELSE "down"]
        /\ UNCHANGED <<deps, services, singletons, health, bootOrder, initialized, visitVars, boots>>
    <2>1. cursor \in 1 .. Len(bootOrder) /\ bootOrder \in Seq(Service)
      BY DEF RegistryInv, WalkInv, TypeOK, StopService
    <2> QED
      BY <2>1 DEF RegistryInv, StopService
  <1> HIDE DEF s
  <1>2. \A t \in Service : instance'[t] = IF t # s \/ instance[t] = "none" THEN instance[t] ELSE "down"
    BY <1>1 DEF TypeOK
  <1>3. TypeOK'
    BY <1>1, WalkTypes DEF TypeOK
  <1>4. VisitInv'
    BY <1>1, VisitKept DEF visitVars, VisitInv
  <1>5. \A i \in cursor .. Len(bootOrder) : instance'[bootOrder[i]] # "up"
    <2> TAKE i \in cursor .. Len(bootOrder)
    <2>1. bootOrder[i] \in Service /\ (i = cursor => bootOrder[i] = s)
      BY <1>1 DEF s
    <2>2. i # cursor => instance[bootOrder[i]] # "up"
      BY <1>1 DEF WalkInv
    <2> QED
      BY <1>2, <2>1, <2>2
  <1>6. WalkInv'
    <2>1. cursor' \in 0 .. Len(bootOrder) /\ cursor' + 1 = cursor
      BY <1>1
    <2> QED
      BY <1>1, <1>5, <2>1, OrderKept DEF WalkInv, InitializedMeansUp
  <1> QED
    BY <1>3, <1>4, <1>6 DEF RegistryInv

\* The steps between the walks.
LEMMA BetweenKeeps ==
  ASSUME RegistryInv, Boot \/ Booted \/ Shutdown \/ Stopped
  PROVE  RegistryInv'
  <1>1. /\ TypeOK /\ VisitInv /\ WalkInv /\ bootOrder \in Seq(Service) /\ pc # "order"
        /\ boots \in 0 .. MaxBoots /\ cursor \in Nat /\ initialized \in BOOLEAN /\ Len(bootOrder) \in Nat
        /\ UNCHANGED <<deps, services, singletons, instance, health, bootOrder, visitVars>>
    BY DEF RegistryInv, TypeOK, Boot, Booted, Shutdown, Stopped
  <1>2. Once(bootOrder)' /\ DependenciesFirst(bootOrder)'
    BY <1>1, OrderKept
  <1> DEFINE Walks == /\ pc' \in {"idle", "order", "init", "stop"} /\ cursor' \in Nat
                      /\ boots' \in 0 .. MaxBoots /\ initialized' \in BOOLEAN
                      /\ WalkInv'
  <1>3. ASSUME Boot PROVE Walks
    <2>1. /\ boots' \in 0 .. MaxBoots /\ pc' = "order" /\ ~initialized
          /\ cursor' = cursor /\ initialized' = initialized
      BY <1>1, <1>3, BootsAssumption DEF Boot
    <2> QED
      BY <1>1, <1>2, <2>1 DEF WalkInv, InitializedMeansUp
  <1>4. ASSUME Stopped PROVE Walks
    <2>1. pc' = "idle" /\ initialized' = FALSE /\ cursor' = cursor /\ boots' = boots
      BY <1>4 DEF Stopped
    <2> QED
      BY <1>1, <1>2, <2>1 DEF WalkInv, InitializedMeansUp
  <1>5. ASSUME Shutdown PROVE Walks
    <2>1. /\ cursor' = Len(bootOrder) /\ cursor' \in 0 .. Len(bootOrder) /\ cursor' + 1 .. Len(bootOrder) = {}
          /\ pc' = "stop" /\ boots' = boots /\ initialized' = initialized
      BY <1>1, <1>5 DEF Shutdown
    <2> QED
      BY <1>1, <1>2, <2>1 DEF WalkInv, InitializedMeansUp
  <1>6. ASSUME Booted PROVE Walks
    <2>1. pc = "init" /\ pc' = "idle" /\ cursor' = 0 /\ initialized' = TRUE /\ boots' = boots
      BY <1>6 DEF Booted
    <2>2. \A i \in DOMAIN bootOrder : instance[bootOrder[i]] = "up" /\ health[bootOrder[i]] = "healthy"
      <3>1. cursor > Len(bootOrder) /\ DOMAIN bootOrder = 1 .. Len(bootOrder)
        BY <1>1, <1>6 DEF Booted
      <3>2. cursor \in 1 .. Len(bootOrder) + 1
        BY <1>1, <2>1 DEF WalkInv
      <3>3. cursor = Len(bootOrder) + 1
        BY <1>1, <3>1, <3>2
      <3>4. \A i \in 1 .. cursor - 1 : instance[bootOrder[i]] = "up" /\ health[bootOrder[i]] = "healthy"
        BY <1>1, <2>1 DEF WalkInv
      <3> QED
        BY <1>1, <3>1, <3>3, <3>4
    <2> QED
      BY <1>1, <1>2, <2>1, <2>2 DEF WalkInv, InitializedMeansUp
  <1>7. Walks
    BY <1>3, <1>4, <1>5, <1>6
  <1>8. TypeOK'
    BY <1>1, <1>7, WalkTypes DEF TypeOK
  <1>9. VisitInv'
    BY <1>1, VisitKept DEF visitVars, VisitInv
  <1> QED
    BY <1>7, <1>8, <1>9 DEF RegistryInv

LEMMA RegistryStep == RegistryInv /\ [Next]_vars => RegistryInv'
  <1> SUFFICES ASSUME RegistryInv, [Next]_vars PROVE RegistryInv'
    OBVIOUS
  <1>1. CASE \E s \in Service : Register(s)
    BY <1>1, RegisterKeeps
  <1>2. CASE \E s \in Singleton : RegisterSingleton(s)
    BY <1>2, SingletonKeeps
  <1>3. CASE Progress
    BY <1>3, VisitRootKeeps, VisitDependencyKeeps, VisitUnregisteredKeeps, VisitReturnsKeeps,
       OrderBuiltKeeps, InitKeeps, StopKeeps, BetweenKeeps DEF Progress
  <1>4. CASE Boot \/ Shutdown
    BY <1>4, BetweenKeeps
  <1>5. CASE UNCHANGED vars
    <2>1. VisitInv'
      BY <1>5, VisitKept DEF RegistryInv, vars, visitVars, VisitInv
    <2>2. TypeOK'
      BY <1>5 DEF RegistryInv, TypeOK, Registered, vars, visitVars
    <2>3. WalkInv'
      BY <1>5, OrderKept DEF RegistryInv, WalkInv, InitializedMeansUp, vars
    <2> QED
      BY <2>1, <2>2, <2>3 DEF RegistryInv
  <1> QED
    BY <1>1, <1>2, <1>3, <1>4, <1>5 DEF Next

LEMMA RegistryAlways == Spec => []RegistryInv
  BY RegistryAtFirst, RegistryStep, PTL DEF Spec

\* boot() builds a service only on what this boot has brought up, in an order
\* that names nobody twice and, unless the dependencies are circular, every
\* dependency first; and initialized means that all of it is up (boot,
\* service_registry.py, lines 121 to 190).
THEOREM BootIsAlwaysSafe == Spec => []BootSafe
  <1>1. RegistryInv => BootSafe
    <2> SUFFICES ASSUME RegistryInv PROVE BootSafe
      OBVIOUS
    <2>1. OrderIsTopological
      BY DEF RegistryInv, WalkInv, Once, DependenciesFirst, OrderIsTopological
    <2>2. DependenciesUpFirst
      <3> SUFFICES ASSUME pc = "init", cursor <= Len(bootOrder), Acyclic, NEW d \in DepSet(bootOrder[cursor])
                   PROVE  instance[d] = "up" /\ health[d] = "healthy"
        BY DEF DependenciesUpFirst
      <3>1. cursor \in DOMAIN bootOrder
        BY DEF RegistryInv, WalkInv, TypeOK
      <3>2. PICK j \in 1 .. cursor - 1 : bootOrder[j] = d
        BY <3>1 DEF RegistryInv, WalkInv, DependenciesFirst
      <3> QED
        BY <3>2 DEF RegistryInv, WalkInv
    <2> QED
      BY <2>1, <2>2 DEF BootSafe, RegistryInv, WalkInv
  <1> QED
    BY <1>1, RegistryAlways, PTL

\* shutdown() never takes a service away from under one that is still up,
\* also after a boot() that failed half-way (shutdown, service_registry.py).
THEOREM DependentsAlwaysStopFirst == Spec => DependentsStopFirst
  <1> DEFINE Step == \A s \in Service :
               pc = "stop" /\ instance[s] = "up" /\ instance'[s] = "down" /\ Acyclic =>
                   \A i \in DOMAIN bootOrder :
                       s \in DepSet(bootOrder[i]) => instance[bootOrder[i]] # "up"
  <1>1. RegistryInv /\ [Next]_vars => [Step]_vars
    <2> SUFFICES ASSUME RegistryInv, Next, NEW s \in Service, pc = "stop", instance[s] = "up",
                        instance'[s] = "down", Acyclic, NEW i \in DOMAIN bootOrder,
                        s \in DepSet(bootOrder[i])
                 PROVE  instance[bootOrder[i]] # "up"
      OBVIOUS
    <2>1. StopService
      BY DEF Next, Progress, Register, RegisterSingleton, Boot, Shutdown, VisitRoot, VisitDependency,
             VisitUnregistered, VisitReturns, OrderBuilt, InitService, ConstructorFails, InitFails,
             Booted, Stopped
    <2>2. /\ bootOrder \in Seq(Service) /\ cursor \in 1 .. Len(bootOrder)
          /\ DOMAIN bootOrder = 1 .. Len(bootOrder)
      BY <2>1 DEF RegistryInv, WalkInv, TypeOK, StopService
    <2>3. s = bootOrder[cursor]
      BY <2>1 DEF StopService, RegistryInv, TypeOK
    <2>4. PICK j \in 1 .. i - 1 : bootOrder[j] = s
      BY DEF RegistryInv, WalkInv, DependenciesFirst
    <2>5. j = cursor
      BY <2>2, <2>3, <2>4 DEF RegistryInv, WalkInv, Once
    <2>6. i \in cursor + 1 .. Len(bootOrder)
      BY <2>2, <2>5
    <2> QED
      BY <2>6 DEF RegistryInv, WalkInv
  <1>2. [][Step]_vars => DependentsStopFirst
    BY DEF DependentsStopFirst
  <1> QED
    BY <1>1, <1>2, RegistryAlways, PTL DEF Spec

-----------------------------------------------------------------------------
(***************************************************************************)
(* How an intent becomes a plan                                            *)
(***************************************************************************)

\* What an intent asks for: one to four steps.
LEMMA StepsWanted ==
  ASSUME NEW intent \in IntentRecords
  PROVE  /\ ParseIntent(intent) \in Seq(Kinds) /\ Len(ParseIntent(intent)) \in 1 .. 4
         /\ \A i \in 1 .. Len(ParseIntent(intent)) : ParseIntent(intent)[i] \in Kinds
  <1>1. \A i \in 1 .. 4 : KindsInOrder[i] \in Kinds
    BY DEF KindsInOrder, Kinds, ToSet
  <1>2. ASSUME NEW i \in 1 .. 4
        PROVE  Detected(intent, i) \in Seq(Kinds) /\ Len(Detected(intent, i)) \in 0 .. 1
    <2> HIDE DEF KindsInOrder
    <2> QED
      BY <1>1 DEF Detected
  <1> DEFINE one == Detected(intent, 1)
             two == Detected(intent, 2)
             three == Detected(intent, 3)
             four == Detected(intent, 4)
  <1>3. /\ one \in Seq(Kinds) /\ two \in Seq(Kinds) /\ three \in Seq(Kinds) /\ four \in Seq(Kinds)
        /\ Len(one) \in 0 .. 1 /\ Len(two) \in 0 .. 1 /\ Len(three) \in 0 .. 1 /\ Len(four) \in 0 .. 1
    <2>1. 1 \in 1 .. 4 /\ 2 \in 1 .. 4 /\ 3 \in 1 .. 4 /\ 4 \in 1 .. 4
      OBVIOUS
    <2> QED
      BY <1>2, <2>1, Zenon
  <1>4. ParseIntent(intent) = IF one \o two \o three \o four = <<>> THEN <<"generic">>
                              ELSE one \o two \o three \o four
    BY DEF ParseIntent
  <1> HIDE DEF one, two, three, four
  <1> DEFINE both == one \o two
             most == both \o three
             all == most \o four
  <1>5. both \in Seq(Kinds) /\ Len(both) \in 0 .. 2
    <2>1. Len(both) \in 0 .. 1 + 1 /\ both \in Seq(Kinds)
      BY <1>3, Joined
    <2> QED
      BY <2>1
  <1> HIDE DEF both
  <1>6. most \in Seq(Kinds) /\ Len(most) \in 0 .. 3
    <2> HIDE DEF most
    <2>1. most \in Seq(Kinds) /\ Len(most) \in 0 .. 2 + 1
      BY <1>3, <1>5, Joined DEF most
    <2> QED
      BY <2>1
  <1> HIDE DEF most
  <1>7. all \in Seq(Kinds) /\ Len(all) \in 0 .. 4
    <2> HIDE DEF all
    <2>1. all \in Seq(Kinds) /\ Len(all) \in 0 .. 3 + 1
      BY <1>3, <1>6, Joined DEF all
    <2> QED
      BY <2>1
  <1> HIDE DEF all
  <1>8. "generic" \in Kinds
    BY DEF Kinds
  <1>9. ParseIntent(intent) \in Seq(Kinds) /\ Len(ParseIntent(intent)) \in 1 .. 4
    BY <1>4, <1>7, <1>8 DEF all, most, both
  <1> QED
    BY <1>9

\* A risk that is acceptable is at most 500.
LEMMA Risks ==
  ASSUME NEW kind \in Kinds, NEW threat \in Threats
  PROVE  /\ ComputeRisk(kind, threat) \in Nat
         /\ ComputeRisk(kind, threat) < 700 => ComputeRisk(kind, threat) <= 500
  <1>1. kind \in {"devops_analyze", "file_write", "file_modify", "file_delete", "generic"}
    BY DEF Kinds, ToSet, KindsInOrder
  <1>2. BaseRisk[kind] \in Nat /\ BaseRisk[kind] <= 310
    BY <1>1 DEF BaseRisk
  <1>3. ThreatRisk[threat] \in {0, 850, 700, 500, 750}
    BY DEF ThreatRisk, Threats
  <1> QED
    BY <1>2, <1>3 DEF ComputeRisk

-----------------------------------------------------------------------------
Accepted(kind, intent, vetoed) == ComputeRisk(kind, intent.threat) < 700 /\ kind \notin vetoed

\* The plan of a loop that was not blocked, and of one that was, after n rounds.
Unblocked(p, wanted, intent, vetoed, n) ==
  /\ \A i \in 1 .. n : Accepted(wanted[i], intent, vetoed)
  /\ p.steps = SubSeq(wanted, 1, n) /\ p.blocked_at = "none" /\ p.risk <= 500 * n
BlockedBehind(p, wanted, intent, vetoed, n) ==
  \E l \in 0 .. n - 1 :
    /\ \A i \in 1 .. l : Accepted(wanted[i], intent, vetoed)
    /\ ~Accepted(wanted[l + 1], intent, vetoed)
    /\ p.steps = SubSeq(wanted, 1, l) /\ p.blocked_at # "none"

LEMMA PlannedIsPlan ==
  ASSUME NEW p \in PlanRecords, NEW kind \in Kinds, NEW intent \in IntentRecords, NEW vetoed
  PROVE  Planned(p, kind, intent, vetoed) \in PlanRecords
  <1>1. intent.threat \in Threats
    BY DEF IntentRecords
  <1>2. ComputeRisk(kind, intent.threat) \in Nat
    BY <1>1, Risks
  <1>3. p = [steps |-> p.steps, risk |-> p.risk, blocked_at |-> p.blocked_at]
        /\ p.steps \in Seq(Kinds) /\ p.risk \in Nat /\ p.blocked_at \in Kinds \cup {"none"}
    BY DEF PlanRecords
  <1> DEFINE accepted == [p EXCEPT !.steps = Append(p.steps, kind),
                                   !.risk = p.risk + ComputeRisk(kind, intent.threat)]
             blocked == [p EXCEPT !.blocked_at = kind]
  <1>4. Append(p.steps, kind) \in Seq(Kinds) /\ p.risk + ComputeRisk(kind, intent.threat) \in Nat
    BY <1>2, <1>3
  <1>5. accepted \in PlanRecords
    BY <1>3, <1>4 DEF PlanRecords
  <1>6. blocked \in PlanRecords
    BY <1>3 DEF PlanRecords
  <1>7. Planned(p, kind, intent, vetoed) \in {p, accepted, blocked}
    BY DEF Planned
  <1> QED
    BY <1>5, <1>6, <1>7

\* One round of the loop.
LEMMA PlannedOnce ==
  ASSUME NEW intent \in IntentRecords, NEW vetoed, NEW wanted \in Seq(Kinds),
         NEW N \in 1 .. 4, N = Len(wanted), NEW n \in 1 .. N, NEW p \in PlanRecords,
         \/ Unblocked(p, wanted, intent, vetoed, n - 1)
         \/ BlockedBehind(p, wanted, intent, vetoed, n - 1)
  PROVE  \/ Unblocked(Planned(p, wanted[n], intent, vetoed), wanted, intent, vetoed, n)
         \/ BlockedBehind(Planned(p, wanted[n], intent, vetoed), wanted, intent, vetoed, n)
  <1> DEFINE kind == wanted[n]
             risk == ComputeRisk(kind, intent.threat)
             next == Planned(p, kind, intent, vetoed)
  <1>1. kind \in Kinds /\ intent.threat \in Threats /\ n \in 1 .. 4
    BY DEF IntentRecords
  <1>2. risk \in Nat /\ (risk < 700 => risk <= 500)
    BY <1>1, Risks
  <1>3. p = [steps |-> p.steps, risk |-> p.risk, blocked_at |-> p.blocked_at]
        /\ p.steps \in Seq(Kinds) /\ p.risk \in Nat
    BY DEF PlanRecords
  <1>4. kind # "none"
    BY <1>1 DEF Kinds, ToSet, KindsInOrder
  <1>5. CASE BlockedBehind(p, wanted, intent, vetoed, n - 1)
    <2>1. next = p
      BY <1>5 DEF Planned, BlockedBehind
    <2>2. PICK l \in 0 .. n - 1 - 1 :
            /\ \A i \in 1 .. l : Accepted(wanted[i], intent, vetoed)
            /\ ~Accepted(wanted[l + 1], intent, vetoed)
            /\ p.steps = SubSeq(wanted, 1, l) /\ p.blocked_at # "none"
      BY <1>5 DEF BlockedBehind
    <2>3. l \in 0 .. n - 1
      BY <1>1
    <2> QED
      BY <2>1, <2>2, <2>3 DEF BlockedBehind
  <1>6. CASE Unblocked(p, wanted, intent, vetoed, n - 1)
    <2>1. /\ \A i \in 1 .. n - 1 : Accepted(wanted[i], intent, vetoed)
          /\ p.steps = SubSeq(wanted, 1, n - 1) /\ p.blocked_at = "none" /\ p.risk <= 500 * (n - 1)
      BY <1>6 DEF Unblocked
    <2> HIDE DEF kind, risk
    <2>2. CASE Accepted(kind, intent, vetoed)
      <3>1. risk < 700 /\ kind \notin vetoed
        BY <2>2 DEF Accepted, risk
      <3>2. p.risk + risk <= 500 * n /\ p.risk + risk <= 2500
        <4>1. p.risk \in Nat /\ p.risk <= 500 * (n - 1) /\ risk \in Nat /\ risk <= 500 /\ n \in {1, 2, 3, 4}
          BY <1>1, <1>2, <1>3, <2>1, <3>1 DEF risk
        <4> DEFINE r == p.risk
        <4> HIDE DEF r
        <4>2. r \in Nat /\ r <= 500 * (n - 1)
          BY <4>1 DEF r
        <4> QED
          BY <4>1, <4>2 DEF r
      <3>3. CanProceed(p, kind, intent, vetoed)
        BY <3>1, <3>2 DEF CanProceed, VerifySafety, risk
      <3>4. next = [p EXCEPT !.steps = Append(p.steps, kind), !.risk = p.risk + risk]
        BY <2>1, <3>3 DEF Planned, risk
      <3>5. next.steps = Append(p.steps, kind) /\ next.risk = p.risk + risk /\ next.blocked_at = "none"
        BY <1>3, <2>1, <3>4
      <3>6. Append(SubSeq(wanted, 1, n - 1), kind) = SubSeq(wanted, 1, n)
        BY <1>1 DEF kind
      <3>7. \A i \in 1 .. n : Accepted(wanted[i], intent, vetoed)
        BY <1>1, <2>1, <2>2 DEF kind
      <3> QED
        BY <2>1, <3>2, <3>5, <3>6, <3>7 DEF Unblocked
    <2>3. CASE ~Accepted(kind, intent, vetoed)
      <3>1. ~CanProceed(p, kind, intent, vetoed)
        BY <2>3 DEF CanProceed, Accepted
      <3>2. next = [p EXCEPT !.blocked_at = kind]
        BY <2>1, <3>1 DEF Planned
      <3>3. next.steps = p.steps /\ next.blocked_at # "none"
        BY <1>3, <1>4, <3>2
      <3> DEFINE l == n - 1
      <3>4. l \in 0 .. n - 1 /\ l + 1 = n
        BY <1>1
      <3>5. ~Accepted(wanted[l + 1], intent, vetoed)
        BY <2>3, <3>4 DEF kind
      <3>6. (\A i \in 1 .. l : Accepted(wanted[i], intent, vetoed)) /\ p.steps = SubSeq(wanted, 1, l)
        BY <2>1
      <3> HIDE DEF l, next
      <3>7. BlockedBehind(next, wanted, intent, vetoed, n)
        BY <3>3, <3>4, <3>5, <3>6 DEF BlockedBehind
      <3> QED
        BY <3>7 DEF next, kind
    <2> QED
      BY <2>2, <2>3
  <1> QED
    BY <1>5, <1>6

\* The whole loop.
LEMMA Executed ==
  ASSUME NEW intent \in IntentRecords, NEW vetoed
  PROVE  /\ Execute(intent, vetoed) \in PlanRecords
         /\ \/ Unblocked(Execute(intent, vetoed), ParseIntent(intent), intent, vetoed, Len(ParseIntent(intent)))
            \/ BlockedBehind(Execute(intent, vetoed), ParseIntent(intent), intent, vetoed, Len(ParseIntent(intent)))
  <1> DEFINE wanted == ParseIntent(intent)
             N == Len(wanted)
             step == [x \in (1 .. N) \X PlanRecords |-> Planned(x[2], wanted[x[1]], intent, vetoed)]
             P(f) == f = [n \in 0 .. N |-> IF n = 0 THEN EmptyPlan
                                           ELSE Planned(f[n - 1], wanted[n], intent, vetoed)]
             after == CHOOSE f : P(f)
  <1>1. Execute(intent, vetoed) = after[N]
    BY DEF Execute
  <1>2. wanted \in Seq(Kinds) /\ N \in 1 .. 4 /\ \A i \in 1 .. N : wanted[i] \in Kinds
    BY StepsWanted
  <1>3. EmptyPlan \in PlanRecords
    BY DEF EmptyPlan, PlanRecords
  <1> HIDE DEF wanted, N
  <1>4. step \in [(1 .. N) \X PlanRecords -> PlanRecords]
    <2> SUFFICES ASSUME NEW x \in (1 .. N) \X PlanRecords
                 PROVE  Planned(x[2], wanted[x[1]], intent, vetoed) \in PlanRecords
      OBVIOUS
    <2>1. x[1] \in 1 .. N /\ x[2] \in PlanRecords
      OBVIOUS
    <2>2. wanted[x[1]] \in Kinds
      BY <1>2, <2>1
    <2> QED
      BY <2>1, <2>2, PlannedIsPlan
  <1>5. PICK h \in [0 .. N -> PlanRecords] : h[0] = EmptyPlan /\ \A n \in 1 .. N : h[n] = step[<<n, h[n - 1]>>]
    <2> HIDE DEF step
    <2>1. N \in Nat
      BY <1>2
    <2> DEFINE plans == PlanRecords
    <2>2. step \in [(1 .. N) \X plans -> plans] /\ EmptyPlan \in plans
      BY <1>3, <1>4
    <2> HIDE DEF plans, step
    <2>3. \E h \in [0 .. N -> plans] : StepsFrom(h, EmptyPlan, step, N)
      BY <2>1, <2>2, StepByStep, Zenon
    <2> QED
      BY <2>3 DEF plans, StepsFrom
  <1>6. ASSUME NEW n \in 1 .. N PROVE h[n] = Planned(h[n - 1], wanted[n], intent, vetoed)
    <2>1. n - 1 \in 0 .. N
      BY <1>2
    <2>2. <<n, h[n - 1]>> \in (1 .. N) \X PlanRecords
      BY <2>1
    <2> QED
      BY <1>5, <2>2
  <1>7. P(h)
    <2>1. ASSUME NEW n \in 0 .. N
          PROVE  h[n] = IF n = 0 THEN EmptyPlan ELSE Planned(h[n - 1], wanted[n], intent, vetoed)
      <3>1. n = 0 \/ n \in 1 .. N
        BY <1>2
      <3> QED
        BY <1>5, <1>6, <3>1
    <2> QED
      BY <2>1
  <1> HIDE DEF P
  <1>8. P(after)
    BY <1>7, Zenon
  <1>9. ASSUME NEW n \in 0 .. N
        PROVE  after[n] = IF n = 0 THEN EmptyPlan ELSE Planned(after[n - 1], wanted[n], intent, vetoed)
    <2>1. after = [m \in 0 .. N |-> IF m = 0 THEN EmptyPlan
                                     ELSE Planned(after[m - 1], wanted[m], intent, vetoed)]
      BY <1>8 DEF P
    <2> HIDE DEF after
    <2> QED
      BY <2>1
  <1> HIDE DEF after
  <1> DEFINE Good(p, n) == Unblocked(p, wanted, intent, vetoed, n) \/ BlockedBehind(p, wanted, intent, vetoed, n)
             T == {n \in Nat : n <= N => after[n] \in PlanRecords /\ Good(after[n], n)}
  <1>10. 0 \in T
    <2>1. after[0] = EmptyPlan
      BY <1>2, <1>9
    <2>2. SubSeq(wanted, 1, 0) = <<>>
      BY <1>2
    <2>3. Unblocked(EmptyPlan, wanted, intent, vetoed, 0)
      BY <2>2 DEF Unblocked, EmptyPlan
    <2> QED
      BY <1>3, <2>1, <2>3
  <1>11. ASSUME NEW n \in T PROVE n + 1 \in T
    <2> SUFFICES ASSUME n + 1 <= N PROVE after[n + 1] \in PlanRecords /\ Good(after[n + 1], n + 1)
      OBVIOUS
    <2>1. n \in Nat /\ n + 1 \in 1 .. N /\ n + 1 \in 0 .. N /\ n + 1 - 1 = n /\ n + 1 # 0
      BY <1>2
    <2>2. after[n] \in PlanRecords /\ Good(after[n], n)
      BY <1>2, <2>1
    <2>3. after[n + 1] = Planned(after[n], wanted[n + 1], intent, vetoed)
      BY <1>9, <2>1
    <2>4. after[n + 1] \in PlanRecords
      BY <1>2, <2>1, <2>2, <2>3, PlannedIsPlan
    <2> DEFINE m == n + 1
    <2>5. m \in 1 .. N /\ N = Len(wanted) /\ m - 1 = n
      BY <1>2, <2>1 DEF N
    <2> HIDE DEF m
    <2>6. Good(Planned(after[n], wanted[m], intent, vetoed), m)
      BY <1>2, <2>2, <2>5, PlannedOnce
    <2> QED
      BY <2>3, <2>4, <2>6 DEF m
  <1> HIDE DEF T
  <1>12. T = Nat
    BY <1>10, <1>11, AllNumbers DEF T
  <1>13. after[N] \in PlanRecords /\ Good(after[N], N)
    BY <1>2, <1>12 DEF T
  <1> QED
    BY <1>1, <1>13 DEF wanted, N

(***************************************************************************)
(* The plan is the longest acceptable prefix of what was asked for.        *)
(***************************************************************************)
Acceptables(intent, vetoed) ==
  {k \in 0 .. Len(ParseIntent(intent)) :
     \A i \in 1 .. k : Accepted(ParseIntent(intent)[i], intent, vetoed)}

LongestPrefix(p, intent, vetoed) ==
  /\ p.steps = SubSeq(ParseIntent(intent), 1, Max(Acceptables(intent, vetoed)))
  /\ IsSafe(p) <=> Max(Acceptables(intent, vetoed)) = Len(ParseIntent(intent))

LEMMA LargestIsMax ==
  ASSUME NEW S, S \subseteq Int, NEW m \in S, \A k \in S : k <= m
  PROVE  Max(S) = m
  <1> DEFINE P(x) == x \in S /\ \A k \in S : k <= x
             x == CHOOSE x \in S : \A y \in S : x >= y
  <1>1. x \in S /\ \A y \in S : x >= y
    <2>1. m \in S /\ \A y \in S : m >= y
      OBVIOUS
    <2> QED
      BY <2>1, Zenon
  <1>2. Max(S) = x
    BY DEF Max
  <1> HIDE DEF x
  <1>3. x >= m /\ x <= m /\ x \in Int /\ m \in Int
    BY <1>1
  <1> QED
    BY <1>2, <1>3

LEMMA ExecuteIsLongestPrefix ==
  ASSUME NEW intent \in IntentRecords, NEW vetoed
  PROVE  Execute(intent, vetoed) \in PlanRecords /\ LongestPrefix(Execute(intent, vetoed), intent, vetoed)
  <1> DEFINE p == Execute(intent, vetoed)
             wanted == ParseIntent(intent)
             N == Len(wanted)
             S == Acceptables(intent, vetoed)
  <1>1. p \in PlanRecords /\ (Unblocked(p, wanted, intent, vetoed, N) \/ BlockedBehind(p, wanted, intent, vetoed, N))
    BY Executed
  <1>2. N \in 1 .. 4
    BY StepsWanted
  <1>3. S = {k \in 0 .. N : \A i \in 1 .. k : Accepted(wanted[i], intent, vetoed)}
    BY DEF Acceptables
  <1>4. p.risk \in Nat
    BY <1>1 DEF PlanRecords
  <1>5. LongestPrefix(p, intent, vetoed) <=> p.steps = SubSeq(wanted, 1, Max(S)) /\ (IsSafe(p) <=> Max(S) = N)
    BY DEF LongestPrefix
  <1> HIDE DEF p, wanted, N, S
  <1>6. CASE Unblocked(p, wanted, intent, vetoed, N)
    <2>1. N \in S /\ \A k \in S : k <= N
      BY <1>2, <1>3, <1>6 DEF Unblocked
    <2>2. Max(S) = N
      BY <1>2, <1>3, <2>1, LargestIsMax
    <2>3. p.risk <= 2000
      BY <1>2, <1>4, <1>6 DEF Unblocked
    <2> QED
      BY <1>1, <1>4, <1>5, <1>6, <2>2, <2>3 DEF Unblocked, IsSafe, p
  <1>7. CASE BlockedBehind(p, wanted, intent, vetoed, N)
    <2>1. PICK l \in 0 .. N - 1 :
            /\ \A i \in 1 .. l : Accepted(wanted[i], intent, vetoed)
            /\ ~Accepted(wanted[l + 1], intent, vetoed)
            /\ p.steps = SubSeq(wanted, 1, l) /\ p.blocked_at # "none"
      BY <1>7 DEF BlockedBehind
    <2>2. l \in S /\ S \subseteq Int
      BY <1>2, <1>3, <2>1
    <2>3. ASSUME NEW k \in S PROVE k <= l
      <3>1. k \in 0 .. N /\ \A i \in 1 .. k : Accepted(wanted[i], intent, vetoed)
        BY <1>3
      <3>2. l + 1 \notin 1 .. k
        BY <2>1, <3>1
      <3> QED
        BY <1>2, <3>1, <3>2
    <2>4. Max(S) = l
      BY <2>2, <2>3, LargestIsMax
    <2>5. l # N
      BY <1>2
    <2> QED
      BY <1>1, <1>5, <2>1, <2>4, <2>5 DEF IsSafe, p
  <1> QED
    BY <1>1, <1>6, <1>7 DEF p

-----------------------------------------------------------------------------
(***************************************************************************)
(* The inductive invariant of a session: where it waits says how far its   *)
(* plan is and what the memory graph has for it.                           *)
(***************************************************************************)
Places == {"idle", "step", "engine_ended", "engine_handled", "ended", "handled", "returned", "raised"}

Nodes == [status : {"planning", "completed"}, result_count : Nat, version : Nat]

SessionTypes ==
  /\ hasLoop \in BOOLEAN
  /\ where \in [Sessions -> Places]
  /\ plan \in [Sessions -> PlanRecords]
  /\ done \in [Sessions -> Nat]
  /\ memory \in [Sessions -> Nodes \cup {NoNode}]
  /\ version \in Nat
  /\ asked \in [Sessions -> [intent : Intents, vetoed : Vetoes] \cup {NoNode}]

SessionAt(s) ==
  /\ where[s] = "idle" => done[s] = 0 /\ memory[s] = NoNode
  /\ where[s] # "idle" => memory[s] \in Nodes /\ memory[s].version < version
  /\ where[s] \in {"step", "engine_ended", "engine_handled", "ended", "raised"} =>
       memory[s].status = "planning"
  /\ where[s] = "step" => done[s] < Len(plan[s].steps)
  /\ where[s] \in {"engine_ended", "engine_handled", "ended", "handled", "returned"} =>
       done[s] = Len(plan[s].steps)
  /\ where[s] \in {"handled", "returned"} =>
       memory[s].status = "completed" /\ memory[s].result_count = done[s]

PlanFollows(s) ==
  asked[s] # NoNode => hasLoop /\ plan[s] = Execute(asked[s].intent, asked[s].vetoed)

VersionsDiffer ==
  \A s, t \in Sessions : where[s] # "idle" /\ where[t] # "idle" /\ s # t =>
                           memory[s].version # memory[t].version

SessionInv ==
  SessionTypes /\ VersionsDiffer /\ \A s \in Sessions : SessionAt(s) /\ PlanFollows(s)

QueueInv ==
  /\ maxsize \in Nat
  /\ queue \in Seq(Messages)
  /\ consumer \in [Consumers -> {"off", "waiting", "ended"}]
  /\ stats \in [enqueued : Nat, processed : Nat, dropped : Nat]
  /\ QueueBalances

RuntimeInv == SessionInv /\ QueueInv /\ log \in [EventTypes -> Nat] /\ stale \subseteq Peers

LEMMA RuntimeInvInit == RuntimeInit => RuntimeInv
  <1> SUFFICES ASSUME RuntimeInit PROVE RuntimeInv
    OBVIOUS
  <1>1. EmptyPlan \in PlanRecords
    BY DEF EmptyPlan, PlanRecords
  <1>2. SessionTypes
    BY <1>1 DEF RuntimeInit, SessionTypes, NoPlan, Places
  <1>3. SessionInv
    BY <1>2 DEF RuntimeInit, SessionInv, SessionAt, PlanFollows, VersionsDiffer
  <1>4. Cardinality({c \in Consumers : consumer[c] = "ended"}) = 0
    <2>1. {c \in Consumers : consumer[c] = "ended"} = {}
      BY DEF RuntimeInit
    <2> QED
      BY <2>1, FS_EmptySet
  <1>5. QueueInv
    BY <1>4 DEF RuntimeInit, QueueInv, QueueBalances
  <1> QED
    BY <1>3, <1>5 DEF RuntimeInit, RuntimeInv

\* A step of one session keeps what holds of all, when it leaves that session
\* where it should be and gives it, if anything, a new version.
LEMMA OneSessionMoves ==
  ASSUME SessionInv, SessionTypes', NEW s \in Sessions, hasLoop' = hasLoop,
         \A t \in Sessions \ {s} : /\ where'[t] = where[t] /\ plan'[t] = plan[t] /\ done'[t] = done[t]
                                   /\ memory'[t] = memory[t] /\ asked'[t] = asked[t],
         SessionAt(s)', PlanFollows(s)',
         \/ version' = version /\ memory' = memory /\ where[s] # "idle"
         \/ version' = version + 1 /\ memory'[s].version = version
  PROVE  SessionInv'
  <1>1. version \in Nat /\ version' \in Nat /\ version <= version'
    BY DEF SessionInv, SessionTypes
  <1>2. ASSUME NEW t \in Sessions PROVE SessionAt(t)' /\ PlanFollows(t)'
    <2>1. CASE t = s
      BY <2>1
    <2>2. CASE t # s
      <3>1. SessionAt(t) /\ PlanFollows(t)
        BY DEF SessionInv
      <3>2. /\ where'[t] = where[t] /\ plan'[t] = plan[t] /\ done'[t] = done[t]
            /\ memory'[t] = memory[t] /\ asked'[t] = asked[t]
        BY <2>2
      <3>3. memory[t] \in Nodes => memory[t].version \in Nat
        BY DEF Nodes
      <3> QED
        BY <1>1, <3>1, <3>2, <3>3 DEF SessionAt, PlanFollows
    <2> QED
      BY <2>1, <2>2
  <1>3. ASSUME NEW t \in Sessions, where[t] # "idle"
        PROVE  memory[t].version \in Nat /\ memory[t].version < version
    BY <1>3 DEF SessionInv, SessionAt, Nodes
  <1>4. VersionsDiffer'
    <2> SUFFICES ASSUME NEW t \in Sessions, NEW u \in Sessions, where'[t] # "idle", where'[u] # "idle", t # u
                 PROVE  memory'[t].version # memory'[u].version
      BY DEF VersionsDiffer
    <2>1. CASE version' = version /\ memory' = memory /\ where[s] # "idle"
      <3>1. where[t] # "idle" /\ where[u] # "idle"
        BY <2>1
      <3> QED
        BY <2>1, <3>1 DEF SessionInv, VersionsDiffer
    <2>2. CASE version' = version + 1 /\ memory'[s].version = version
      <3>1. CASE t # s /\ u # s
        BY <3>1 DEF SessionInv, VersionsDiffer
      <3>2. CASE t = s
        <4>1. memory'[u] = memory[u] /\ where[u] # "idle"
          BY <3>2
        <4> QED
          BY <1>1, <1>3, <2>2, <3>2, <4>1
      <3>3. CASE u = s
        <4>1. memory'[t] = memory[t] /\ where[t] # "idle"
          BY <3>3
        <4> QED
          BY <1>1, <1>3, <2>2, <3>3, <4>1
      <3> QED
        BY <3>1, <3>2, <3>3
    <2> QED
      BY <2>1, <2>2
  <1> QED
    BY <1>2, <1>4 DEF SessionInv

LEMMA EmittedIsLog ==
  ASSUME log \in [EventTypes -> Nat], NEW events
  PROVE  Emitted(events) \in [EventTypes -> Nat]
  BY DEF Emitted

\* What the intents of the model ask for are intents.
LEMMA IntentsAreRecords == ASSUME NEW i \in Intents PROVE i \in IntentRecords
  BY IntentsAssumption

SessionStep == SessionInv' /\ log' \in [EventTypes -> Nat] /\ stale' \subseteq Peers

LEMMA BeginKeeps ==
  ASSUME RuntimeInv, NEW s \in Sessions, NEW p \in PlanRecords, Begin(s, p), PlanFollows(s)',
         asked' \in [Sessions -> [intent : Intents, vetoed : Vetoes] \cup {NoNode}],
         \A t \in Sessions \ {s} : asked'[t] = asked[t]
  PROVE  SessionStep
  <1>1. SessionTypes /\ SessionAt(s) /\ where[s] = "idle" /\ done[s] = 0
    BY DEF RuntimeInv, SessionInv, SessionAt, Begin
  <1> DEFINE node == [status |-> "planning", result_count |-> 0, version |-> version]
  <1>2. node \in Nodes /\ node.status = "planning" /\ node.version = version
    BY <1>1 DEF SessionTypes, Nodes
  <1>3. memory' = [memory EXCEPT ![s] = node] /\ version' = version + 1
    BY DEF Begin, NodeAdded
  <1> HIDE DEF node
  <1>4. /\ plan' = [plan EXCEPT ![s] = p] /\ done' = done /\ hasLoop' = hasLoop /\ stale' = stale
    BY DEF Begin
  <1>5. PICK w \in {"step", "ended"} :
          /\ where' = [where EXCEPT ![s] = w]
          /\ w = "step" <=> p.steps # <<>>
    BY DEF Begin
  <1>6. log' \in [EventTypes -> Nat]
    BY EmittedIsLog DEF RuntimeInv, Begin
  <1>7. SessionTypes'
    BY <1>1, <1>2, <1>3, <1>4, <1>5 DEF SessionTypes, Places
  <1>8. where'[s] = w /\ plan'[s] = p /\ done'[s] = 0 /\ memory'[s] = node /\ version < version'
    BY <1>1, <1>3, <1>4, <1>5 DEF SessionTypes
  <1>9. IF w = "step" THEN 0 < Len(p.steps) ELSE 0 = Len(p.steps)
    <2>1. p.steps \in Seq(Kinds)
      BY DEF PlanRecords
    <2> DEFINE steps == p.steps
    <2> HIDE DEF steps
    <2>2. steps \in Seq(Kinds) /\ (w = "step" <=> steps # <<>>)
      BY <1>5, <2>1 DEF steps
    <2>3. IF w = "step" THEN 0 < Len(steps) ELSE 0 = Len(steps)
      BY <2>2
    <2> QED
      BY <2>3 DEF steps
  <1>10. SessionAt(s)'
    BY <1>2, <1>5, <1>8, <1>9 DEF SessionAt
  <1>11. \A t \in Sessions \ {s} : /\ where'[t] = where[t] /\ plan'[t] = plan[t] /\ done'[t] = done[t]
                                   /\ memory'[t] = memory[t] /\ asked'[t] = asked[t]
    BY <1>1, <1>3, <1>4, <1>5 DEF SessionTypes
  <1>12. SessionInv'
    BY <1>2, <1>3, <1>4, <1>7, <1>8, <1>10, <1>11, OneSessionMoves DEF RuntimeInv
  <1> QED
    BY <1>4, <1>6, <1>12 DEF RuntimeInv, SessionStep

LEMMA BeginWithoutLoopKeeps ==
  ASSUME RuntimeInv, NEW s \in Sessions, BeginWithoutLoop(s)
  PROVE  SessionStep
  <1>1. EmptyPlan \in PlanRecords /\ Begin(s, EmptyPlan) /\ asked' = asked /\ ~hasLoop
    BY DEF BeginWithoutLoop, NoPlan, EmptyPlan, PlanRecords
  <1>2. asked \in [Sessions -> [intent : Intents, vetoed : Vetoes] \cup {NoNode}] /\ PlanFollows(s)
    BY DEF RuntimeInv, SessionInv, SessionTypes
  <1>3. PlanFollows(s)'
    BY <1>1, <1>2 DEF PlanFollows
  <1> QED
    BY <1>1, <1>2, <1>3, BeginKeeps

LEMMA BeginWithLoopKeeps ==
  ASSUME RuntimeInv, NEW s \in Sessions, NEW i \in Intents, NEW v \in Vetoes, BeginWithLoop(s, i, v)
  PROVE  SessionStep
  <1>1. Execute(i, v) \in PlanRecords /\ Begin(s, Execute(i, v)) /\ hasLoop
    BY IntentsAreRecords, ExecuteIsLongestPrefix DEF BeginWithLoop
  <1>2. asked' = [asked EXCEPT ![s] = [intent |-> i, vetoed |-> v]]
    BY DEF BeginWithLoop
  <1>3. SessionTypes
    BY DEF RuntimeInv, SessionInv
  <1>4. /\ asked' \in [Sessions -> [intent : Intents, vetoed : Vetoes] \cup {NoNode}]
        /\ asked'[s].intent = i /\ asked'[s].vetoed = v
        /\ \A t \in Sessions \ {s} : asked'[t] = asked[t]
    BY <1>2, <1>3 DEF SessionTypes
  <1>5. plan'[s] = Execute(i, v) /\ hasLoop'
    BY <1>1, <1>3 DEF Begin, SessionTypes
  <1>6. PlanFollows(s)'
    BY <1>4, <1>5 DEF PlanFollows
  <1> QED
    BY <1>1, <1>4, <1>6, BeginKeeps

LEMMA PlanRaisesKeeps ==
  ASSUME RuntimeInv, NEW s \in Sessions, PlanRaises(s)
  PROVE  SessionStep
  <1>1. SessionTypes /\ SessionAt(s) /\ PlanFollows(s) /\ where[s] = "idle" /\ done[s] = 0
    BY DEF RuntimeInv, SessionInv, SessionAt, PlanRaises
  <1> DEFINE node == [status |-> "planning", result_count |-> 0, version |-> version]
  <1>2. node \in Nodes /\ node.status = "planning" /\ node.version = version
    BY <1>1 DEF SessionTypes, Nodes
  <1>3. memory' = [memory EXCEPT ![s] = node] /\ version' = version + 1
    BY DEF PlanRaises, NodeAdded
  <1> HIDE DEF node
  <1>4. /\ plan' = plan /\ done' = done /\ hasLoop' = hasLoop /\ stale' = stale /\ asked' = asked
        /\ where' = [where EXCEPT ![s] = "raised"]
    BY DEF PlanRaises
  <1>5. log' \in [EventTypes -> Nat]
    BY EmittedIsLog DEF RuntimeInv, PlanRaises
  <1>6. SessionTypes'
    BY <1>1, <1>2, <1>3, <1>4 DEF SessionTypes, Places
  <1>7. where'[s] = "raised" /\ done'[s] = 0 /\ memory'[s] = node /\ version < version'
    BY <1>1, <1>3, <1>4 DEF SessionTypes
  <1>8. SessionAt(s)' /\ PlanFollows(s)'
    BY <1>1, <1>2, <1>4, <1>7 DEF SessionAt, PlanFollows
  <1>9. \A t \in Sessions \ {s} : /\ where'[t] = where[t] /\ plan'[t] = plan[t] /\ done'[t] = done[t]
                                   /\ memory'[t] = memory[t] /\ asked'[t] = asked[t]
    BY <1>1, <1>3, <1>4 DEF SessionTypes
  <1>10. SessionInv'
    BY <1>2, <1>3, <1>4, <1>6, <1>7, <1>8, <1>9, OneSessionMoves DEF RuntimeInv
  <1> QED
    BY <1>4, <1>5, <1>10 DEF RuntimeInv, SessionStep

LEMMA StepDoneKeeps ==
  ASSUME RuntimeInv, NEW s \in Sessions, StepDone(s)
  PROVE  SessionStep
  <1>1. SessionTypes /\ SessionAt(s) /\ PlanFollows(s) /\ where[s] = "step"
    BY DEF RuntimeInv, SessionInv, StepDone
  <1>2. /\ plan' = plan /\ memory' = memory /\ version' = version /\ hasLoop' = hasLoop
        /\ stale' = stale /\ asked' = asked /\ done' = [done EXCEPT ![s] = done[s] + 1]
    BY DEF StepDone
  <1>3. PICK w \in {"step", "engine_ended"} :
          /\ where' = [where EXCEPT ![s] = w]
          /\ IF w = "step" THEN done[s] + 1 < Len(plan[s].steps) ELSE done[s] + 1 = Len(plan[s].steps)
    <2>1. where = [where EXCEPT ![s] = "step"]
      BY <1>1 DEF SessionTypes
    <2> QED
      BY <2>1 DEF StepDone
  <1>4. log' \in [EventTypes -> Nat]
    BY EmittedIsLog DEF RuntimeInv, StepDone
  <1>5. SessionTypes'
    BY <1>1, <1>2, <1>3 DEF SessionTypes, Places
  <1>6. where'[s] = w /\ done'[s] = done[s] + 1
    BY <1>1, <1>2, <1>3 DEF SessionTypes
  <1>7. SessionAt(s)' /\ PlanFollows(s)'
    BY <1>1, <1>2, <1>3, <1>6 DEF SessionAt, PlanFollows
  <1>8. \A t \in Sessions \ {s} : /\ where'[t] = where[t] /\ plan'[t] = plan[t] /\ done'[t] = done[t]
                                   /\ memory'[t] = memory[t] /\ asked'[t] = asked[t]
    BY <1>1, <1>2, <1>3 DEF SessionTypes
  <1>9. SessionInv'
    BY <1>1, <1>2, <1>5, <1>7, <1>8, OneSessionMoves DEF RuntimeInv
  <1> QED
    BY <1>2, <1>4, <1>9 DEF RuntimeInv, SessionStep

\* The engine's own end event and its return change where the session waits.
LEMMA EngineEndKeeps ==
  ASSUME RuntimeInv, NEW s \in Sessions, OnEngineFinished(s) \/ EngineReturns(s)
  PROVE  SessionStep
  <1>1. SessionTypes /\ SessionAt(s) /\ PlanFollows(s)
    BY DEF RuntimeInv, SessionInv
  <1>2. /\ plan' = plan /\ memory' = memory /\ version' = version /\ hasLoop' = hasLoop
        /\ stale' = stale /\ asked' = asked /\ done' = done
    BY DEF OnEngineFinished, EngineReturns
  <1>3. PICK w \in {"engine_handled", "ended"} : where' = [where EXCEPT ![s] = w]
    BY DEF OnEngineFinished, EngineReturns
  <1>4. where[s] \in {"engine_ended", "engine_handled"}
    BY DEF OnEngineFinished, EngineReturns
  <1>5. log' \in [EventTypes -> Nat]
    BY EmittedIsLog DEF RuntimeInv, OnEngineFinished, EngineReturns
  <1>6. SessionTypes' /\ where'[s] = w
    BY <1>1, <1>2, <1>3 DEF SessionTypes, Places
  <1>7. SessionAt(s)' /\ PlanFollows(s)'
    BY <1>1, <1>2, <1>3, <1>4, <1>6 DEF SessionAt, PlanFollows
  <1>8. \A t \in Sessions \ {s} : /\ where'[t] = where[t] /\ plan'[t] = plan[t] /\ done'[t] = done[t]
                                   /\ memory'[t] = memory[t] /\ asked'[t] = asked[t]
    BY <1>1, <1>2, <1>3 DEF SessionTypes
  <1>9. SessionInv'
    BY <1>2, <1>4, <1>6, <1>7, <1>8, OneSessionMoves DEF RuntimeInv
  <1> QED
    BY <1>2, <1>5, <1>9 DEF RuntimeInv, SessionStep

\* The session's end event and the rest of process_intent complete its node.
LEMMA CompletionKeeps ==
  ASSUME RuntimeInv, NEW s \in Sessions, OnExecutionFinished(s) \/ Return(s)
  PROVE  SessionStep
  <1>1. SessionTypes /\ SessionAt(s) /\ PlanFollows(s)
    BY DEF RuntimeInv, SessionInv
  <1>2. /\ plan' = plan /\ version' = version + 1 /\ hasLoop' = hasLoop
        /\ stale' \subseteq Peers /\ asked' = asked /\ done' = done
        /\ log' \in [EventTypes -> Nat]
    BY DEF OnExecutionFinished, Return, RuntimeInv
  <1>3. PICK w \in {"handled", "returned"} : where' = [where EXCEPT ![s] = w]
    BY DEF OnExecutionFinished, Return
  <1>4. where[s] \in {"ended", "handled"}
    BY DEF OnExecutionFinished, Return
  <1>5. memory' = Updated(s, done[s])
    BY <1>1, <1>4 DEF OnExecutionFinished, Return, SessionAt
  <1> DEFINE node == [status |-> "completed", result_count |-> done[s], version |-> version]
  <1>6. node \in Nodes /\ node.status = "completed" /\ node.result_count = done[s] /\ node.version = version
    BY <1>1 DEF SessionTypes, Nodes
  <1>7. memory' = [memory EXCEPT ![s] = node]
    BY <1>5 DEF Updated
  <1> HIDE DEF node
  <1>8. SessionTypes' /\ where'[s] = w /\ memory'[s] = node /\ version < version'
    BY <1>1, <1>2, <1>3, <1>6, <1>7 DEF SessionTypes, Places
  <1>9. SessionAt(s)' /\ PlanFollows(s)'
    BY <1>1, <1>2, <1>3, <1>4, <1>6, <1>8 DEF SessionAt, PlanFollows
  <1>10. \A t \in Sessions \ {s} : /\ where'[t] = where[t] /\ plan'[t] = plan[t] /\ done'[t] = done[t]
                                   /\ memory'[t] = memory[t] /\ asked'[t] = asked[t]
    BY <1>1, <1>2, <1>3, <1>7 DEF SessionTypes
  <1>11. SessionInv'
    BY <1>2, <1>6, <1>8, <1>9, <1>10, OneSessionMoves DEF RuntimeInv
  <1> QED
    BY <1>2, <1>11 DEF SessionStep

-----------------------------------------------------------------------------
Ended == {c \in Consumers : consumer[c] = "ended"}

LEMMA EndedCount ==
  /\ Cardinality(Ended) \in Nat
  /\ \A c \in Consumers \ Ended : Cardinality(Ended \cup {c}) = Cardinality(Ended) + 1
  <1>1. IsFiniteSet(Ended)
    BY SetsAssumption, FS_Subset DEF Ended
  <1> QED
    BY <1>1, FS_CardinalityType, FS_AddElement

\* The steps of the queue and of its consumers keep its books.
LEMMA QueueKeeps ==
  ASSUME RuntimeInv,
         \/ \E m \in Messages : PushMessage(m)
         \/ \E c \in Consumers : StartConsumer(c) \/ Consume(c)
  PROVE  QueueInv' /\ log' \in [EventTypes -> Nat] /\ stale' = stale /\ UNCHANGED <<hasLoop, sessionVars>>
  <1> DEFINE in == stats.enqueued
             out == stats.processed
             lost == stats.dropped
             ends == Cardinality(Ended)
             len == Len(queue)
  <1>1. QueueInv
    BY DEF RuntimeInv
  <1>2. /\ stats = [enqueued |-> in, processed |-> out, dropped |-> lost]
        /\ in \in Nat /\ out \in Nat /\ lost \in Nat /\ len \in Nat /\ ends \in Nat
        /\ in = out + len + ends
    <2>1. stats \in [enqueued : Nat, processed : Nat, dropped : Nat] /\ queue \in Seq(Messages)
      BY <1>1 DEF QueueInv
    <2>2. in = out + len + ends
      BY <1>1 DEF QueueInv, QueueBalances, Ended
    <2> QED
      BY <2>1, <2>2, EndedCount
  <1>3. QueueBalances' <=> stats'.enqueued = stats'.processed + Len(queue') + Cardinality(Ended')
    BY DEF QueueBalances, Ended
  <1>4. ASSUME queue # <<>>
        PROVE  Tail(queue) \in Seq(Messages) /\ Len(Tail(queue)) = len - 1
    BY <1>1, <1>4 DEF QueueInv
  <1> HIDE DEF in, out, lost, ends, len
  <1>5. ASSUME NEW m \in Messages, PushMessage(m)
        PROVE  QueueInv' /\ log' = log
    <2>1. maxsize' = maxsize /\ consumer' = consumer /\ log' = log /\ Ended' = Ended
      BY <1>5 DEF PushMessage, Ended
    <2>2. CASE stats' = [stats EXCEPT !.dropped = stats.dropped + 1] /\ queue' = queue
      <3>1. /\ stats' \in [enqueued : Nat, processed : Nat, dropped : Nat]
            /\ stats'.enqueued = in /\ stats'.processed = out
        <4>1. stats' = [stats EXCEPT !.dropped = lost + 1]
          BY <2>2 DEF lost
        <4> QED
          BY <1>2, <4>1
      <3>2. QueueBalances'
        BY <1>2, <1>3, <2>1, <2>2, <3>1 DEF ends, len
      <3> QED
        BY <1>1, <2>1, <2>2, <3>1, <3>2 DEF QueueInv
    <2>3. CASE stats' = [stats EXCEPT !.enqueued = stats.enqueued + 1] /\ queue' = Append(queue, m)
      <3>1. /\ stats' \in [enqueued : Nat, processed : Nat, dropped : Nat]
            /\ stats'.enqueued = in + 1 /\ stats'.processed = out
        <4>1. stats' = [stats EXCEPT !.enqueued = in + 1]
          BY <2>3 DEF in
        <4> QED
          BY <1>2, <4>1
      <3>2. queue' \in Seq(Messages) /\ Len(queue') = len + 1
        BY <1>1, <2>3 DEF QueueInv, len
      <3>3. QueueBalances'
        BY <1>2, <1>3, <2>1, <3>1, <3>2 DEF ends
      <3> QED
        BY <1>1, <2>1, <3>1, <3>2, <3>3 DEF QueueInv
    <2> QED
      BY <1>5, <2>1, <2>2, <2>3 DEF PushMessage
  <1>6. ASSUME NEW c \in Consumers, StartConsumer(c)
        PROVE  QueueInv' /\ log' = log
    <2>1. /\ consumer[c] = "off" /\ consumer' = [consumer EXCEPT ![c] = "waiting"]
          /\ maxsize' = maxsize /\ queue' = queue /\ stats' = stats /\ log' = log
      BY <1>6 DEF StartConsumer
    <2>2. consumer' \in [Consumers -> {"off", "waiting", "ended"}] /\ Ended' = Ended
      BY <1>1, <2>1 DEF QueueInv, Ended
    <2>3. QueueBalances'
      BY <1>2, <1>3, <2>1, <2>2 DEF in, out, len, ends
    <2> QED
      BY <1>1, <2>1, <2>2, <2>3 DEF QueueInv
  <1>7. ASSUME NEW c \in Consumers, Handle(c)
        PROVE  QueueInv' /\ log' \in [EventTypes -> Nat]
    <2>1. /\ queue # <<>> /\ queue' = Tail(queue) /\ stats' = [stats EXCEPT !.processed = stats.processed + 1]
          /\ maxsize' = maxsize /\ consumer' = consumer /\ Ended' = Ended
      BY <1>7 DEF Handle, Ended
    <2>2. /\ stats' \in [enqueued : Nat, processed : Nat, dropped : Nat]
          /\ stats'.enqueued = in /\ stats'.processed = out + 1
      <3>1. stats' = [stats EXCEPT !.processed = out + 1]
        BY <2>1 DEF out
      <3> QED
        BY <1>2, <3>1
    <2>3. queue' \in Seq(Messages) /\ Len(queue') = len - 1
      BY <1>4, <2>1
    <2>4. QueueBalances'
      BY <1>2, <1>3, <2>1, <2>2, <2>3 DEF ends
    <2>5. log' \in [EventTypes -> Nat]
      BY <1>7, EmittedIsLog DEF RuntimeInv, Handle
    <2> QED
      BY <1>1, <2>1, <2>2, <2>3, <2>4, <2>5 DEF QueueInv
  <1>8. ASSUME NEW c \in Consumers, HandlerRaises(c)
        PROVE  QueueInv' /\ log' = log
    <2>1. /\ queue # <<>> /\ queue' = Tail(queue) /\ stats' = stats /\ maxsize' = maxsize /\ log' = log
          /\ consumer[c] = "waiting" /\ consumer' = [consumer EXCEPT ![c] = "ended"]
      BY <1>8 DEF HandlerRaises
    <2>2. /\ consumer' \in [Consumers -> {"off", "waiting", "ended"}]
          /\ Ended' = Ended \cup {c} /\ c \in Consumers \ Ended
      BY <1>1, <2>1 DEF QueueInv, Ended
    <2>3. Cardinality(Ended') = ends + 1
      BY <2>2, EndedCount DEF ends
    <2>4. queue' \in Seq(Messages) /\ Len(queue') = len - 1
      BY <1>4, <2>1
    <2>5. QueueBalances'
      BY <1>2, <1>3, <2>1, <2>3, <2>4 DEF in, out
    <2> QED
      BY <1>1, <2>1, <2>2, <2>4, <2>5 DEF QueueInv
  <1>9. stale' = stale /\ UNCHANGED <<hasLoop, sessionVars>>
    BY DEF PushMessage, StartConsumer, Consume, Handle, HandlerRaises
  <1> QED
    BY <1>5, <1>6, <1>7, <1>8, <1>9 DEF RuntimeInv, Consume

LEMMA RuntimeInvNext == RuntimeInv /\ [RuntimeNext]_runtimeVars => RuntimeInv'
  <1> SUFFICES ASSUME RuntimeInv, [RuntimeNext]_runtimeVars PROVE RuntimeInv'
    OBVIOUS
  <1>1. ASSUME NEW s \in Sessions,
               \/ BeginWithoutLoop(s)
               \/ \E i \in Intents, v \in Vetoes :
                     v \subseteq ToSet(ParseIntent(i)) /\ BeginWithLoop(s, i, v)
               \/ PlanRaises(s)
               \/ EventLoop(s)
        PROVE  RuntimeInv'
    <2>1. SessionStep
      <3>1. CASE BeginWithoutLoop(s)
        BY <3>1, BeginWithoutLoopKeeps
      <3>2. ASSUME NEW i \in Intents, NEW v \in Vetoes, BeginWithLoop(s, i, v) PROVE SessionStep
        BY <3>2, BeginWithLoopKeeps
      <3>3. CASE PlanRaises(s)
        BY <3>3, PlanRaisesKeeps
      <3>4. CASE EventLoop(s)
        BY <3>4, StepDoneKeeps, EngineEndKeeps, CompletionKeeps DEF EventLoop
      <3> QED
        BY <1>1, <3>1, <3>2, <3>3, <3>4
    <2>2. UNCHANGED <<maxsize, queueVars>>
      BY <1>1 DEF BeginWithoutLoop, BeginWithLoop, Begin, PlanRaises, EventLoop, StepDone,
                  OnEngineFinished, EngineReturns, OnExecutionFinished, Return
    <2>3. QueueInv'
      BY <2>2 DEF RuntimeInv, QueueInv, QueueBalances, queueVars
    <2> QED
      BY <2>1, <2>3 DEF SessionStep, RuntimeInv
  <1>2. ASSUME \/ \E m \in Messages : PushMessage(m)
               \/ \E c \in Consumers : StartConsumer(c) \/ Consume(c)
        PROVE  RuntimeInv'
    <2>1. QueueInv' /\ log' \in [EventTypes -> Nat] /\ stale' = stale /\ UNCHANGED <<hasLoop, sessionVars>>
      BY <1>2, QueueKeeps
    <2>2. SessionInv'
      BY <2>1 DEF RuntimeInv, SessionInv, SessionTypes, SessionAt, PlanFollows, VersionsDiffer, sessionVars
    <2> QED
      BY <2>1, <2>2 DEF RuntimeInv
  <1>3. ASSUME NEW p \in Peers, FallSilent(p) PROVE RuntimeInv'
    <2>1. SessionInv' /\ QueueInv'
      BY <1>3 DEF FallSilent, RuntimeInv, SessionInv, SessionTypes, SessionAt, PlanFollows,
                  VersionsDiffer, sessionVars, QueueInv, QueueBalances, queueVars
    <2> QED
      BY <1>3, <2>1 DEF FallSilent, RuntimeInv
  <1>4. CASE UNCHANGED runtimeVars
    <2>1. SessionInv' /\ QueueInv'
      BY <1>4 DEF runtimeVars, RuntimeInv, SessionInv, SessionTypes, SessionAt, PlanFollows,
                  VersionsDiffer, sessionVars, QueueInv, QueueBalances, queueVars
    <2> QED
      BY <1>4, <2>1 DEF runtimeVars, RuntimeInv
  <1> QED
    BY <1>1, <1>2, <1>3, <1>4 DEF RuntimeNext

LEMMA RuntimeSpecInv == RuntimeSpec => []RuntimeInv
  BY RuntimeInvInit, RuntimeInvNext, PTL DEF RuntimeSpec

\* The plan of every session is the longest run of acceptable steps from the
\* first, for every intent and every veto: the limit on the sum of the risks
\* never bites, because no intent has more than four steps and an acceptable
\* step has a risk of 0.5 at most (ExecutionLoop.execute).
LEMMA PlansAreAcceptablePrefixes == RuntimeInv => PlanIsAcceptablePrefix
  <1> SUFFICES ASSUME RuntimeInv PROVE PlanIsAcceptablePrefix
    OBVIOUS
  <1>1. ASSUME NEW s \in Sessions, asked[s] # NoNode
        PROVE  LongestPrefix(plan[s], asked[s].intent, asked[s].vetoed)
    <2>1. asked[s].intent \in Intents /\ plan[s] = Execute(asked[s].intent, asked[s].vetoed)
      BY <1>1 DEF RuntimeInv, SessionInv, SessionTypes, PlanFollows
    <2> QED
      BY <2>1, IntentsAreRecords, ExecuteIsLongestPrefix
  <1> QED
    BY <1>1, Zenon DEF PlanIsAcceptablePrefix, LongestPrefix, Acceptables, Accepted

\* The memory graph follows the engine, the queue accounts for every message,
\* and a plan is the longest acceptable run of its intent's steps, whatever
\* sessions, consumers, peers and intents there are (process_intent,
\* MemoryGraph, MessageQueue.push and consume, ExecutionLoop.execute).
THEOREM RuntimeAlwaysHolds == RuntimeSpec => []RuntimeHolds
  <1>1. RuntimeInv => RuntimeHolds
    <2> SUFFICES ASSUME RuntimeInv PROVE RuntimeHolds
      OBVIOUS
    <2>1. RuntimeTypeOK
      BY DEF RuntimeTypeOK, RuntimeInv, SessionInv, SessionTypes, QueueInv, Places, Nodes
    <2>2. ASSUME NEW s \in Sessions
          PROVE  SessionAt(s) /\ (s \in InMemory => where[s] # "idle")
      BY DEF RuntimeInv, SessionInv, SessionAt, InMemory
    <2>3. \A s \in InMemory : s \in Sessions
      BY DEF InMemory
    <2>4. VersionsDiffer /\ where \in [Sessions -> Places]
      BY DEF RuntimeInv, SessionInv, SessionTypes
    <2>5. ASSUME NEW s \in InMemory
          PROVE  /\ memory[s].status = "completed" =>
                      memory[s].result_count = done[s] /\ done[s] = Len(plan[s].steps)
                 /\ where[s] = "returned" => memory[s].status = "completed"
                 /\ memory[s].version < version
      <3>1. SessionAt(s) /\ where[s] # "idle" /\ where[s] \in Places
        BY <2>2, <2>3, <2>4
      <3> QED
        BY <3>1 DEF SessionAt, Places
    <2>6. ASSUME NEW s \in InMemory, NEW t \in InMemory, memory[t].version = memory[s].version PROVE s = t
      BY <2>2, <2>3, <2>4, <2>6 DEF VersionsDiffer
    <2>7. MemoryFollowsEngine
      BY <2>5, <2>6 DEF MemoryFollowsEngine
    <2> QED
      BY <2>1, <2>7, PlansAreAcceptablePrefixes DEF RuntimeHolds, RuntimeInv, QueueInv
  <1> QED
    BY <1>1, RuntimeSpecInv, PTL
=============================================================================
