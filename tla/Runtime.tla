------------------------------ MODULE Runtime ------------------------------
(* The runtime's lifecycle (sdk/src/runtime.cpp), its plugin directory     *)
(* (registry.cpp, registry.h) and the calls that go through them           *)
(* (bridge_support.h), from several threads.  The lifecycle mutex, the     *)
(* directory's and the handle table's are three different ones, and        *)
(* plugin code runs under none of them: a call is as many actions as it    *)
(* has critical sections.  Handles are those of HandleMap, which           *)
(* HandleTable implements: one handle for each backend object, for good.   *)
EXTENDS Integers, FiniteSets

CONSTANTS Thread,
          Plugin,      \* plugin ids
          Files,       \* what discover() finds: [name, id, good]
          Static,      \* ids the program registers itself
          Promises,    \* what callers keep to, of AllPromises
          MaxObjects,  \* bound: backend objects made
          MaxLoads     \* bound: times one plugin is loaded

AllPromises == {"init first", "lifecycle calls alone", "one thread per handle",
                "no id twice"}

RuntimeAssumption ==
  /\ Static \subseteq Plugin
  /\ \A f \in Files : f.id \in Plugin /\ f.good \in BOOLEAN
  /\ Promises \subseteq AllPromises
  /\ {MaxObjects, MaxLoads} \subseteq Nat

VARIABLES running,     \* Lifecycle::running
          directory,   \* slots_: which load of a plugin is in it, 0 for none
          loads,       \* how often each plugin was loaded
          broken,      \* broken_: names of files that were rejected
          objects,     \* the backend objects ever made, in order
          doing,       \* where each thread is, and on what
          registered   \* history: ids registered since the last deinit

vars == <<running, directory, loads, broken, objects, doing, registered>>

-----------------------------------------------------------------------------
(* A piece of plugin code: the n-th load of a plugin.                      *)
Code(p, n) == [id |-> p, n |-> n]

Current(p) == Code(p, directory[p])

(* Its library is in memory, and its package object exists, exactly while  *)
(* its PluginSlot is in the directory.                                     *)
Mapped(code) == directory[code.id] = code.n

Idle(t) == doing[t].at = "out"

OthersIdle(t) == \A u \in Thread \ {t} : Idle(u)

(* No other thread is between two steps of a lifecycle call.               *)
LifecycleFree == \A t \in Thread : doing[t].at # "deinit"

Go(t, where, what) == doing' = [doing EXCEPT ![t] = [at |-> where, on |-> what]]

Leave(t) == Go(t, "out", 0)

OpenObjects == {o \in DOMAIN objects : objects[o].state = "open"}

SetState(o, s) == objects' = [objects EXCEPT ![o].state = s]

(* The promises of a caller who is about to start something.               *)
MayEnter(t) == "lifecycle calls alone" \in Promises => LifecycleFree

MayUsePlugins(t) == MayEnter(t) /\ ("init first" \in Promises => running)

MayChangeLifecycle(t) == "lifecycle calls alone" \in Promises => OthersIdle(t)

MayUse(t, o) ==
  "one thread per handle" \in Promises =>
    \A u \in Thread \ {t} : doing[u].at = "call" => doing[u].on # o

-----------------------------------------------------------------------------
(* get<>(): an id that is not in the directory is told apart by the names  *)
(* of the files that were rejected.                                        *)
Lookup(p) ==
  IF directory[p] # 0 THEN "found" ELSE IF p \in broken THEN "broken" ELSE "unknown"

(* discover(): good files replace what is registered under their id.       *)
Discover ==
  LET found == {f.id : f \in {g \in Files : g.good}}
  IN  /\ \A p \in found : loads[p] < MaxLoads
      /\ loads' = [p \in Plugin |-> IF p \in found THEN loads[p] + 1 ELSE loads[p]]
      /\ directory' = [p \in Plugin |-> IF p \in found THEN loads[p] + 1 ELSE directory[p]]
      /\ broken' = broken \cup {f.name : f \in {g \in Files : ~g.good}}

(* unload_all().                                                           *)
UnloadAll == directory' = [p \in Plugin |-> 0] /\ broken' = {}

(* unirt_init().                                                           *)
InitRuntime(t) ==
  /\ Idle(t) /\ LifecycleFree /\ MayChangeLifecycle(t)
  /\ ~running
  /\ Discover
  /\ running' = TRUE
  /\ UNCHANGED <<objects, doing, registered>>

(* The same, when the scan itself throws: whatever is in the directory by  *)
(* then is unloaded.                                                       *)
InitFails(t) ==
  /\ Idle(t) /\ LifecycleFree /\ MayChangeLifecycle(t)
  /\ ~running
  /\ UnloadAll
  /\ UNCHANGED <<running, loads, objects, doing, registered>>

(* A fault: the live handles are not asked about.                          *)
NoCount == TRUE

(* active_handle_count() == 0.                                             *)
NoneLive == OpenObjects = {}

(* unirt_deinit() up to the count of live handles; BUSY changes nothing.   *)
DeinitChecks(t) ==
  /\ Idle(t) /\ LifecycleFree /\ MayChangeLifecycle(t)
  /\ running
  /\ NoneLive
  /\ Go(t, "deinit", 0)
  /\ UNCHANGED <<running, directory, loads, broken, objects, registered>>

(* The rest of it, under the directory's mutex.                            *)
DeinitUnloads(t) ==
  /\ doing[t].at = "deinit"
  /\ UnloadAll
  /\ running' = FALSE
  /\ registered' = {}
  /\ Leave(t)
  /\ UNCHANGED <<loads, objects>>

(* unirt_register_plugin(): replaces what is there under the id.           *)
Register(t, p) ==
  /\ Idle(t) /\ MayEnter(t)
  /\ "no id twice" \in Promises => directory[p] = 0
  /\ loads[p] < MaxLoads
  /\ loads' = [loads EXCEPT ![p] = @ + 1]
  /\ directory' = [directory EXCEPT ![p] = loads[p] + 1]
  /\ registered' = registered \cup {p}
  /\ UNCHANGED <<running, broken, objects, doing>>

-----------------------------------------------------------------------------
(* open_backend(): the directory makes the object, under its mutex.        *)
OpenMakes(t, p) ==
  /\ Idle(t) /\ MayUsePlugins(t)
  /\ Lookup(p) = "found"
  /\ Cardinality(DOMAIN objects) < MaxObjects
  /\ LET o == Cardinality(DOMAIN objects) + 1
     IN  /\ objects' = [x \in DOMAIN objects \cup {o} |->
                          IF x = o THEN [code |-> Current(p), state |-> "made"]
                                   ELSE objects[x]]
         /\ Go(t, "open", o)
  /\ UNCHANGED <<running, directory, loads, broken, registered>>

(* create() succeeded, under no lock: the object gets a handle.            *)
OpenTracks(t) ==
  /\ doing[t].at = "open"
  /\ SetState(doing[t].on, "open")
  /\ Leave(t)
  /\ UNCHANGED <<running, directory, loads, broken, registered>>

(* create() failed or threw: the unique_ptr destroys the object.           *)
OpenFails(t) ==
  /\ doing[t].at = "open"
  /\ SetState(doing[t].on, "deleted")
  /\ Leave(t)
  /\ UNCHANGED <<running, directory, loads, broken, registered>>

(* with_backend(): the handle is resolved, then the backend called.        *)
CallResolves(t, o) ==
  /\ Idle(t) /\ MayEnter(t) /\ MayUse(t, o)
  /\ o \in OpenObjects
  /\ Go(t, "call", o)
  /\ UNCHANGED <<running, directory, loads, broken, objects, registered>>

CallReturns(t) ==
  /\ doing[t].at \in {"call", "query"}
  /\ Leave(t)
  /\ UNCHANGED <<running, directory, loads, broken, objects, registered>>

(* close_backend(): the handle is forgotten, then the object deleted.      *)
CloseForgets(t, o) ==
  /\ Idle(t) /\ MayEnter(t) /\ MayUse(t, o)
  /\ o \in OpenObjects
  /\ SetState(o, "forgotten")
  /\ Go(t, "close", o)
  /\ UNCHANGED <<running, directory, loads, broken, registered>>

CloseDeletes(t) ==
  /\ doing[t].at = "close"
  /\ SetState(doing[t].on, "deleted")
  /\ Leave(t)
  /\ UNCHANGED <<running, directory, loads, broken, registered>>

(* unirt_get_plugin_version() and its like: the package is looked up under *)
(* the directory's mutex and asked after it.                               *)
QueryLooksUp(t, p) ==
  /\ Idle(t) /\ MayUsePlugins(t)
  /\ Lookup(p) = "found"
  /\ Go(t, "query", Current(p))
  /\ UNCHANGED <<running, directory, loads, broken, objects, registered>>

Init ==
  /\ running = FALSE
  /\ directory = [p \in Plugin |-> 0]
  /\ loads = [p \in Plugin |-> 0]
  /\ broken = {}
  /\ objects = [o \in {} |-> 0]
  /\ doing = [t \in Thread |-> [at |-> "out", on |-> 0]]
  /\ registered = {}

Next ==
  \E t \in Thread :
    \/ InitRuntime(t) \/ InitFails(t) \/ DeinitChecks(t) \/ DeinitUnloads(t)
    \/ \E p \in Static : Register(t, p)
    \/ \E p \in Plugin : OpenMakes(t, p) \/ QueryLooksUp(t, p)
    \/ OpenTracks(t) \/ OpenFails(t) \/ CallReturns(t) \/ CloseDeletes(t)
    \/ \E o \in DOMAIN objects : CallResolves(t, o) \/ CloseForgets(t, o)

Spec == Init /\ [][Next]_vars

-----------------------------------------------------------------------------
ObjectState == {"made", "open", "forgotten", "deleted"}

TypeOK ==
  /\ running \in BOOLEAN
  /\ directory \in [Plugin -> 0..MaxLoads]
  /\ loads \in [Plugin -> 0..MaxLoads]
  /\ broken \subseteq {f.name : f \in Files}
  /\ DOMAIN objects = 1..Cardinality(DOMAIN objects)
  /\ \A o \in DOMAIN objects :
       objects[o].code.id \in Plugin /\ objects[o].state \in ObjectState
  /\ \A t \in Thread : doing[t].at \in {"out", "deinit", "open", "call", "close", "query"}
  /\ registered \subseteq Static

(* unirt.h:245-246, runtime.cpp:120-121: plugin code is never unmapped     *)
(* under a live object, one that is being made or deleted included.        *)
CodeStaysMapped ==
  \A o \in DOMAIN objects : objects[o].state # "deleted" => Mapped(objects[o].code)

(* A package that is being asked something is still in the directory: for  *)
(* callers who never register an id twice.                                 *)
PackageStaysMapped ==
  \A t \in Thread : doing[t].at = "query" => Mapped(doing[t].on)

(* Between calls every object is either behind a handle or gone: the count *)
(* of live handles that deinit goes by misses none.                        *)
NothingLeaks ==
  (\A t \in Thread : Idle(t)) =>
    \A o \in DOMAIN objects : objects[o].state \in {"open", "deleted"}

(* llm_backend.h:12-13: "the bridge serializes calls per instance".  For    *)
(* the record: it does not, callers have to (README.md, Disagreements).    *)
CallsSerialized ==
  \A t, u \in Thread :
    t # u /\ doing[t].at = "call" /\ doing[u].at = "call" => doing[t].on # doing[u].on

(* unirt.h:216-218: a plugin registered by the program is there until the  *)
(* runtime is torn down, whatever unirt_init() does meanwhile.             *)
(* For the record: it does not hold (README.md, Disagreements).            *)
RegisteredStays == \A p \in registered : Lookup(p) = "found"

(* registry.h:87-89: a plugin whose file was rejected is told apart from   *)
(* one that never existed.                                                 *)
BrokenIsTold ==
  running => \A f \in Files : ~f.good => Lookup(f.id) # "unknown"

=============================================================================
