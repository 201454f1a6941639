------------------------------- MODULE Bridge -------------------------------
(* The library between callers and plugins, put together: the handle       *)
(* table, the plugins' lifecycle and the calls across the C ABI, for any   *)
(* threads, plugins, tables and inputs.  They share no state: what the     *)
(* lifecycle needs of the table is that a handle names one backend for     *)
(* good, which is what HandleMap says of it.                               *)
EXTENDS HandleTable

CONSTANTS Thread, Plugin, Files, Static, Promises, MaxObjects, MaxLoads,
          Producers, Inputs, SizeMax, MaxTables

VARIABLES running, directory, loads, broken, objects, doing, registered

Lifecycle == INSTANCE Runtime

VARIABLES package, tables, handles, call, code, detail, output, touched

Boundary == INSTANCE PluginBoundary

ASSUME PartsAssumption == Lifecycle!RuntimeAssumption /\ Boundary!BoundaryAssumption

-----------------------------------------------------------------------------
(* For callers who keep to the documented rules, deinit never unmaps code  *)
(* beneath a live backend, backends that were made are owned or deleted,   *)
(* and a plugin that could not be loaded is reported as broken:            *)
(* runtime.cpp:113-133, bridge_support.h:121-159, registry.cpp:203-234.    *)
LifecycleHolds ==
  /\ Lifecycle!TypeOK
  /\ Lifecycle!CodeStaysMapped
  /\ Lifecycle!PackageStaysMapped
  /\ Lifecycle!NothingLeaks
  /\ Lifecycle!BrokenIsTold

(* Every table a plugin handed out is released once when nobody has it any *)
(* more, and functions appended to a table are called only where the       *)
(* plugin was built with them: plugin_adapters.h:32-52, 164-208.           *)
TablesAreOwned ==
  /\ Boundary!TypeOK
  /\ Boundary!EveryTableReleased
  /\ Boundary!AppendedFieldsGuarded

(* A call's output is blank or its own, and a backend is called only with  *)
(* counts that have pointers behind them: bridge_support.h:42-67, 216-239. *)
CallsAreClean ==
  /\ Boundary!OutputIsOfThisCall
  /\ Boundary!BackendsReadWhatIsThere

(* Nothing of a table is called after its destroy: bridge_support.h:142.   *)
DestroyIsLast == Boundary!DestroyIsLast

=============================================================================
