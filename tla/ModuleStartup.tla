--------------------------- MODULE ModuleStartup ---------------------------
(***************************************************************************)
(* How a Tenshi program starts and ends (TenshiRuntime.c).  teInitGlob is  *)
(* a constructor: before main it makes the runtime's two pools and starts  *)
(* the modules that the program links, in order.  A module that fails to   *)
(* start has those before it closed, and the program exits.  main has      *)
(* teFini called at exit, which closes the modules and then the pools.  A  *)
(* runtime error exits, at any time: before main, nothing is closed then.  *)
(***************************************************************************)
EXTENDS Naturals, SequencesExt

CONSTANTS
  ModuleCount,     \* tenshi__numMods__
  MaxEngineTypes   \* TENSHI_MAX_ENGINE_TYPES

ASSUME EngineTypesAssumption == ModuleCount \in Nat /\ MaxEngineTypes \in Nat /\ MaxEngineTypes >= 2

VARIABLES
  inits,      \* what each module's initialisation does: "none" when it has none
  finis,      \* whether each module has a finalisation
  startPc,    \* "init", "rollback", "main", "fini", "pools", "exit"
  uModule,    \* the loop counter of InitModules and FiniModules, 0 when none is left
  started,    \* the modules whose initialisation succeeded, in order
  closed,     \* the modules finalised, in order
  engineTypes \* the owner of each engine pool, 0 for the runtime's

startVars == <<inits, finis, startPc, uModule, started, closed, engineTypes>>

Modules == 1 .. ModuleCount

\* teAllocEnginePool, which makes none when there is no room.
AllocEnginePool(pools, owner) ==
  IF Len(pools) = MaxEngineTypes THEN pools ELSE Append(pools, owner)

\* The part of teInitGlob that comes before InitModules.
StartInit ==
  /\ inits \in [Modules -> {"none", "succeeds", "fails", "errors"}]
  /\ finis \in [Modules -> BOOLEAN]
  /\ startPc = "init" /\ uModule = 1 /\ started = <<>> /\ closed = <<>>
  /\ engineTypes = AllocEnginePool(AllocEnginePool(<<>>, 0), 0)

\* A faulty turn, after which the module that failed is closed too.
InitModuleClosingIt ==
  /\ startPc = "init" /\ uModule \in Modules
  /\ UNCHANGED <<engineTypes, inits, finis, closed>>
  /\ IF inits[uModule] = "fails"
     THEN startPc' = "rollback" /\ UNCHANGED <<uModule, started>>
     ELSE /\ uModule' = uModule + 1 /\ UNCHANGED startPc
          /\ started' = IF inits[uModule] = "succeeds" THEN Append(started, uModule) ELSE started

\* A turn of InitModules' loop.  A module that fails may have made a pool.
InitModule ==
  /\ startPc = "init" /\ uModule \in Modules
  /\ \/ inits[uModule] = "none" /\ UNCHANGED engineTypes
     \/ inits[uModule] # "none"
        /\ engineTypes' \in {engineTypes, AllocEnginePool(engineTypes, uModule)}
  /\ CASE inits[uModule] = "none" ->
            uModule' = uModule + 1 /\ UNCHANGED <<startPc, started>>
       [] inits[uModule] = "succeeds" ->
            /\ uModule' = uModule + 1 /\ started' = Append(started, uModule)
            /\ UNCHANGED startPc
       [] inits[uModule] = "fails" ->
            startPc' = "rollback" /\ uModule' = uModule - 1 /\ UNCHANGED started
       [] inits[uModule] = "errors" ->
            startPc' = "exit" /\ UNCHANGED <<uModule, started>>
  /\ UNCHANGED <<inits, finis, closed>>

\* CommonMain: atexit( &teFini ).
EnterMain ==
  /\ startPc = "init" /\ uModule > ModuleCount
  /\ startPc' = "main"
  /\ UNCHANGED <<inits, finis, uModule, started, closed, engineTypes>>

\* TenshiMain returns, or teRuntimeError exits: teFini is called either way.
LeaveMain ==
  /\ startPc = "main"
  /\ startPc' = "fini" /\ uModule' = ModuleCount
  /\ UNCHANGED <<inits, finis, started, closed, engineTypes>>

\* A turn of the loop that closes modules, after a failure or in FiniModules.
CloseModule ==
  /\ startPc \in {"rollback", "fini"} /\ uModule > 0
  /\ closed' = IF finis[uModule] THEN Append(closed, uModule) ELSE closed
  /\ uModule' = uModule - 1
  /\ UNCHANGED <<inits, finis, startPc, started, engineTypes>>

\* exit( EXIT_FAILURE ), before main and so without teFini; or on to the pools.
ModulesClosed ==
  /\ startPc \in {"rollback", "fini"} /\ uModule = 0
  /\ startPc' = IF startPc = "rollback" THEN "exit" ELSE "pools"
  /\ UNCHANGED <<inits, finis, uModule, started, closed, engineTypes>>

\* A turn of teFini's loop: the last pool is finalised.
FiniEnginePool ==
  /\ startPc = "pools"
  /\ IF engineTypes = <<>> THEN startPc' = "exit" /\ UNCHANGED engineTypes
     ELSE engineTypes' = Front(engineTypes) /\ UNCHANGED startPc
  /\ UNCHANGED <<inits, finis, uModule, started, closed>>

StartNext ==
  InitModule \/ EnterMain \/ LeaveMain \/ CloseModule \/ ModulesClosed \/ FiniEnginePool

StartSpec == StartInit /\ [][StartNext]_startVars

-----------------------------------------------------------------------------
\* m comes before n in s.
Precedes(s, m, n) == \E i, j \in DOMAIN s : i < j /\ s[i] = m /\ s[j] = n

(* When a program ends, other than by a runtime error while its modules are *)
(* started, every module that InitModules started and that has a            *)
(* finalisation was closed, once, in the reverse order, and no module that  *)
(* failed or was never reached was; and no pool is gone that a module still *)
(* to be closed has made.                                                   *)
ClosedInReverse ==
  /\ startPc = "exit" /\ ~(uModule \in Modules /\ inits[uModule] = "errors") =>
       \A m \in Modules : inits[m] # "none" =>
         (m \in ToSet(closed) <=> m \in ToSet(started) /\ finis[m])
  /\ \A m, n \in Modules : Precedes(closed, m, n) =>
       /\ m # n
       /\ {m, n} \subseteq ToSet(started) => Precedes(started, n, m)
  /\ startPc = "pools" => \A m \in ToSet(started) : finis[m] => m \in ToSet(closed)
  /\ Len(engineTypes) < 2 => startPc \in {"pools", "exit"}
=============================================================================
