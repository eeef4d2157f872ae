-------------------------- MODULE ServiceRegistry --------------------------
(***************************************************************************)
(* The dependency-injection container of ATOM OS                           *)
(* (atomos_pkg/atomos/core/service_registry.py): registration, boot in     *)
(* dependency order, resolution and shutdown.                              *)
(*                                                                         *)
(* Modules register services as they are imported, so a service may also   *)
(* be registered while another one is being constructed.  boot() orders    *)
(* the services by a depth-first search (visit), here a stack machine that *)
(* takes one step per dependency looked at, and then constructs and init()s*)
(* them one by one; shutdown() walks the boot order backwards.  Any        *)
(* constructor and any init() may raise.                                   *)
(*                                                                         *)
(* What a service is (its dependency list, and whether it has a factory or *)
(* a get_instance, which ignore the dependencies) is fixed by its module.  *)
(* All services have init, health and shutdown methods.                    *)
(***************************************************************************)
EXTENDS Naturals, Sequences, FiniteSets

CONSTANTS
    Service,     \* the names modules may register
    Singleton,   \* those for which register_singleton may be called
    SelfMade,    \* those built by a factory or get_instance
    DepList,     \* the dependency lists a service may declare
    MaxBoots     \* bound on the number of boot() calls

ASSUME ServiceAssumption ==
    IsFiniteSet(Service) /\ Singleton \subseteq Service /\ SelfMade \subseteq Service
ASSUME DepListAssumption == DepList \subseteq Seq(Service)
ASSUME BootsAssumption == MaxBoots \in Nat

VARIABLES
    deps,         \* ServiceMetadata.dependencies
    services,     \* registered names, in registration order
    singletons,   \* those whose metadata register_singleton wrote
    instance,     \* what get() finds: none, up (constructed), down (shut down)
    health,       \* health_status
    bootOrder,    \* _boot_order
    initialized,  \* _initialized
    pc,           \* idle, or inside boot (order, init) or shutdown (stop)
    visited,      \* visit's set
    stack,        \* active visit calls: name and number of dependencies done
    order,        \* visit's list
    cursor,       \* position in bootOrder of the init or shutdown loop
    boots         \* boot() calls so far

visitVars == <<visited, stack, order>>
vars == <<deps, services, singletons, instance, health, bootOrder, initialized,
          pc, visitVars, cursor, boots>>

Registered == {services[i] : i \in DOMAIN services}

\* A singleton's metadata has no dependencies.
Dependencies(s) == IF s \in singletons THEN <<>> ELSE deps[s]

DepSet(s) == {Dependencies(s)[i] : i \in DOMAIN Dependencies(s)}

-----------------------------------------------------------------------------

Init ==
    /\ deps \in [Service -> DepList]
    /\ services = <<>> /\ singletons = {}
    /\ instance = [s \in Service |-> "none"]
    /\ health = [s \in Service |-> "uninitialized"]
    /\ bootOrder = <<>>
    /\ initialized = FALSE
    /\ pc = "idle"
    /\ visited = {} /\ stack = <<>> /\ order = <<>>
    /\ cursor = 0
    /\ boots = 0

\* register: a name that is already there is skipped.  Constructors, init() and
\* shutdown() of services may call it; visit calls nothing of theirs.
Register(s) ==
    /\ pc \in {"idle", "init", "stop"}
    /\ s \notin Registered
    /\ services' = Append(services, s)
    /\ UNCHANGED <<deps, singletons, instance, health, bootOrder, initialized,
                   pc, visitVars, cursor, boots>>

\* register_singleton: new metadata with an instance, whatever was there.
\* The new metadata has no dependencies, and boot() builds it again from its
\* class without arguments.
RegisterSingleton(s) ==
    /\ pc = "idle"
    /\ services' = IF s \in Registered THEN services ELSE Append(services, s)
    /\ singletons' = singletons \cup {s}
    /\ instance' = [instance EXCEPT ![s] = "up"]
    /\ health' = [health EXCEPT ![s] = "uninitialized"]
    /\ UNCHANGED <<deps, bootOrder, initialized, pc, visitVars, cursor, boots>>

\* boot() returns at once when already booted (leaving everything unchanged);
\* otherwise _build_boot_order starts with an empty visited set.
Boot ==
    /\ pc = "idle"
    /\ ~initialized
    /\ boots < MaxBoots
    /\ boots' = boots + 1
    /\ pc' = "order"
    /\ UNCHANGED <<deps, services, singletons, instance, health, bootOrder, initialized,
                   visitVars, cursor>>

\* visited, order and the visit calls are local to _build_boot_order.
ForgetVisit == visited' = {} /\ stack' = <<>> /\ order' = <<>>

Push(frames, s) == Append(frames, [name |-> s, done |-> 0])

Top == stack[Len(stack)]

\* "for name in self._services: visit(name)", at the first unvisited name.
VisitRoot(s) ==
    /\ pc = "order"
    /\ stack = <<>>
    /\ \E i \in DOMAIN services :
         /\ services[i] = s
         /\ s \notin visited
         /\ \A j \in 1 .. i - 1 : services[j] \in visited
    /\ visited' = visited \cup {s}
    /\ stack' = Push(stack, s)
    /\ UNCHANGED <<deps, services, singletons, instance, health, bootOrder, initialized,
                   pc, order, cursor, boots>>

\* The next dependency of the innermost visit call.
VisitDependency ==
    /\ pc = "order"
    /\ stack # <<>>
    /\ Top.done < Len(Dependencies(Top.name))
    /\ LET d == Dependencies(Top.name)[Top.done + 1]
           next == [stack EXCEPT ![Len(stack)].done = @ + 1]
       IN /\ d \in Registered
          /\ visited' = visited \cup {d}
          /\ stack' = IF d \in visited THEN next ELSE Push(next, d)
    /\ UNCHANGED <<deps, services, singletons, instance, health, bootOrder, initialized,
                   pc, order, cursor, boots>>

\* A dependency nobody registered: ValueError out of boot().
VisitUnregistered ==
    /\ pc = "order"
    /\ stack # <<>>
    /\ Top.done < Len(Dependencies(Top.name))
    /\ Dependencies(Top.name)[Top.done + 1] \notin Registered
    /\ pc' = "idle"
    /\ ForgetVisit
    /\ UNCHANGED <<deps, services, singletons, instance, health, bootOrder, initialized,
                   cursor, boots>>

\* All dependencies of the innermost call are done: append it and return.
VisitReturns ==
    /\ pc = "order"
    /\ stack # <<>>
    /\ Top.done = Len(Dependencies(Top.name))
    /\ order' = Append(order, Top.name)
    /\ stack' = SubSeq(stack, 1, Len(stack) - 1)
    /\ UNCHANGED <<deps, services, singletons, instance, health, bootOrder, initialized,
                   pc, visited, cursor, boots>>

OrderBuilt ==
    /\ pc = "order"
    /\ stack = <<>>
    /\ Registered \subseteq visited
    /\ bootOrder' = order
    /\ cursor' = 1
    /\ pc' = "init"
    /\ ForgetVisit
    /\ UNCHANGED <<deps, services, singletons, instance, health, initialized, boots>>

-----------------------------------------------------------------------------

\* get() on every dependency, unless the service makes itself.
Resolvable(s) == s \in SelfMade \/ \A d \in DepSet(s) : instance[d] # "none"

\* _init_service succeeds.
InitService ==
    /\ pc = "init"
    /\ cursor <= Len(bootOrder)
    /\ LET s == bootOrder[cursor] IN
         /\ Resolvable(s)
         /\ instance' = [instance EXCEPT ![s] = "up"]
         /\ health' = [health EXCEPT ![s] = "healthy"]
    /\ cursor' = cursor + 1
    /\ UNCHANGED <<deps, services, singletons, bootOrder, initialized, pc, visitVars, boots>>

\* get() of a dependency raises, or the constructor does: boot() raises.
ConstructorFails ==
    /\ pc = "init"
    /\ cursor <= Len(bootOrder)
    /\ health' = [health EXCEPT ![bootOrder[cursor]] = "failed"]
    /\ pc' = "idle" /\ cursor' = 0
    /\ UNCHANGED <<deps, services, singletons, instance, bootOrder, initialized,
                   visitVars, boots>>

\* Mutant of InitFails: the exception is logged and boot() goes on.
InitFailsAndBootGoesOn ==
    /\ pc = "init"
    /\ cursor <= Len(bootOrder)
    /\ LET s == bootOrder[cursor] IN
         /\ Resolvable(s)
         /\ instance' = [instance EXCEPT ![s] = "up"]
         /\ health' = [health EXCEPT ![s] = "failed"]
    /\ cursor' = cursor + 1
    /\ UNCHANGED <<deps, services, singletons, bootOrder, initialized, pc, visitVars, boots>>

\* init() raises after the instance has been stored.
InitFails ==
    /\ pc = "init"
    /\ cursor <= Len(bootOrder)
    /\ LET s == bootOrder[cursor] IN
         /\ Resolvable(s)
         /\ instance' = [instance EXCEPT ![s] = "up"]
         /\ health' = [health EXCEPT ![s] = "failed"]
    /\ pc' = "idle" /\ cursor' = 0
    /\ UNCHANGED <<deps, services, singletons, bootOrder, initialized, visitVars, boots>>

Booted ==
    /\ pc = "init"
    /\ cursor > Len(bootOrder)
    /\ initialized' = TRUE
    /\ pc' = "idle" /\ cursor' = 0
    /\ UNCHANGED <<deps, services, singletons, instance, health, bootOrder,
                   visitVars, boots>>

-----------------------------------------------------------------------------

\* shutdown() may be called whether or not boot() succeeded.
Shutdown ==
    /\ pc = "idle"
    /\ pc' = "stop"
    /\ cursor' = Len(bootOrder)
    /\ UNCHANGED <<deps, services, singletons, instance, health, bootOrder, initialized,
                   visitVars, boots>>

\* Mutants of StopService: the walk goes forward, and it never gets past a
\* service that has no instance.
StopServiceForward ==
    /\ pc = "stop"
    /\ cursor > 0
    /\ LET s == bootOrder[Len(bootOrder) + 1 - cursor] IN
         instance' = [instance EXCEPT ![s] = IF @ = "none" THEN @ ELSE "down"]
    /\ cursor' = cursor - 1
    /\ UNCHANGED <<deps, services, singletons, health, bootOrder, initialized, pc, visitVars, boots>>

\* One service of the backward walk; what its shutdown() raises is logged.
\* The instance stays in the registry.
StopService ==
    /\ pc = "stop"
    /\ cursor > 0
    /\ LET s == bootOrder[cursor] IN
         instance' = [instance EXCEPT ![s] = IF @ = "none" THEN @ ELSE "down"]
    /\ cursor' = cursor - 1
    /\ UNCHANGED <<deps, services, singletons, health, bootOrder, initialized, pc, visitVars, boots>>

Stopped ==
    /\ pc = "stop"
    /\ cursor = 0
    /\ initialized' = FALSE
    /\ pc' = "idle"
    /\ UNCHANGED <<deps, services, singletons, instance, health, bootOrder, visitVars, cursor, boots>>

\* What the thread inside boot() or shutdown() does next.
Progress ==
    \/ \E s \in Service : VisitRoot(s)
    \/ VisitDependency
    \/ VisitUnregistered
    \/ VisitReturns
    \/ OrderBuilt
    \/ InitService
    \/ ConstructorFails
    \/ InitFails
    \/ Booted
    \/ StopService
    \/ Stopped

Next ==
    \/ \E s \in Service : Register(s)
    \/ \E s \in Singleton : RegisterSingleton(s)
    \/ Boot
    \/ Shutdown
    \/ Progress

\* The thread that called boot() or shutdown() goes on; nobody has to call.
Spec == Init /\ [][Next]_vars /\ WF_vars(Progress)

-----------------------------------------------------------------------------
(***************************************************************************)
(* Properties                                                              *)
(***************************************************************************)

Frame == [name : Service, done : Nat]

\* The state of the registry is well formed.
TypeOK ==
    /\ deps \in [Service -> DepList]
    /\ services \in Seq(Service)
    /\ singletons \in SUBSET (Registered \cap Singleton)
    /\ instance \in [Service -> {"none", "up", "down"}]
    /\ health \in [Service -> {"uninitialized", "healthy", "failed"}]
    /\ bootOrder \in Seq(Service)
    /\ initialized \in BOOLEAN
    /\ pc \in {"idle", "order", "init", "stop"}
    /\ visited \in SUBSET Service
    /\ stack \in Seq(Frame)
    /\ order \in Seq(Service)
    /\ cursor \in Nat
    /\ boots \in 0 .. MaxBoots

\* The declared dependencies can be ranked: there is no cycle.
Acyclic ==
    \E rank \in [Service -> 1 .. Cardinality(Service)] :
        \A s \in Service : \A i \in DOMAIN deps[s] : rank[deps[s][i]] < rank[s]

\* visit computes a topological order: when boot() starts to construct, no
\* service is in the order twice and, if there is no cycle, each one comes
\* after everything it depends on, whatever the registration order was.
OrderIsTopological ==
    pc = "init" =>
        \A i \in DOMAIN bootOrder :
            /\ \A j \in DOMAIN bootOrder : bootOrder[i] = bootOrder[j] => i = j
            /\ Acyclic => \A d \in DepSet(bootOrder[i]) :
                            \E j \in 1 .. i - 1 : bootOrder[j] = d

\* boot() builds a service only from dependencies that this same boot has
\* brought up: not from one left over from a boot that failed, one that has
\* been shut down since, or one that is only registered.
DependenciesUpFirst ==
    pc = "init" /\ cursor <= Len(bootOrder) /\ Acyclic =>
        \A d \in DepSet(bootOrder[cursor]) : instance[d] = "up" /\ health[d] = "healthy"

\* A registry that says it is initialized has every service of its boot order
\* up, through failed boots, shutdowns, reboots and replaced singletons.
InitializedMeansUp ==
    initialized /\ pc # "stop" =>
        \A i \in DOMAIN bootOrder :
            instance[bootOrder[i]] = "up" /\ health[bootOrder[i]] # "failed"

\* shutdown() never takes a service away from under one that depends on it
\* and is still up, also when it follows a boot that failed half-way.
DependentsStopFirst ==
    [][\A s \in Service :
         pc = "stop" /\ instance[s] = "up" /\ instance'[s] = "down" /\ Acyclic =>
             \A i \in DOMAIN bootOrder :
                 s \in DepSet(bootOrder[i]) => instance[bootOrder[i]] # "up"]_vars

\* boot() builds in order, on what this boot brought up, and says so only when
\* all of it is up: the three invariants above on a well-formed registry.
BootSafe == TypeOK /\ OrderIsTopological /\ DependenciesUpFirst /\ InitializedMeansUp
=============================================================================
