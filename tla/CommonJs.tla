------------------------------ MODULE CommonJs ------------------------------
(***************************************************************************)
(* require() and module.exports as create_instance_internal installs them  *)
(* (the module system code in src/src/runtime.rs) on the native function   *)
(* __koss_load_module.                                                     *)
(*                                                                         *)
(* A module is put in Module._cache before its code runs, so that a cycle  *)
(* of require calls finds it there, and is taken out again if the code     *)
(* throws.  While the code runs, the globals module, exports and Buffer    *)
(* are its own; the previous ones are kept in the frame of the call.  An   *)
(* assignment to the exports of the main script's module replaces          *)
(* Module._cache by an empty object; require.cache stays the first one.    *)
(***************************************************************************)
EXTENDS Naturals, Sequences, FiniteSets

CONSTANTS
  Path,          \* the names given to require
  Source,        \* those the native function finds code for
  None,          \* no module
  Main,          \* the module object of the main script
  MaxInstances,  \* bound: modules evaluated
  MaxDepth,      \* bound: require calls in progress
  MaxResets      \* bound: assignments to module.exports of the main script

ASSUME PathAssumption ==
  /\ Source \subseteq Path
  /\ None # Main /\ {None, Main} \cap (1 .. MaxInstances) = {}
ASSUME BoundAssumption == {MaxInstances, MaxDepth, MaxResets} \subseteq Nat

VARIABLES
  instances,  \* instances[i]: a module object, its path and whether it loaded
  cache,      \* Module._cache: an instance for each path, or None
  published,  \* require.cache
  stack,      \* the require calls in progress, each with the globals it saved
  module,     \* globalThis.module, and with it globalThis.exports
  Buffer,     \* globalThis.Buffer: Main's, a module's own, or None
  resets,     \* how often the exports of the main script were assigned
  forgotten   \* history: the paths the script deleted from require.cache

vars == <<instances, cache, published, stack, module, Buffer, resets, forgotten>>

Instance == 1 .. MaxInstances
Top == stack[Len(stack)]
Outer == SubSeq(stack, 1, Len(stack) - 1)
Empty == [p \in Path |-> None]
Loading == {stack[k].instance : k \in 1 .. Len(stack)}

Frame == [instance : Instance, module : Instance \cup {Main},
          Buffer : Instance \cup {Main, None}]

(* Until the first assignment Module._cache and require.cache are one.     *)
TypeOK ==
  /\ instances \in Seq([path : Path, loaded : BOOLEAN])
  /\ Len(instances) <= MaxInstances
  /\ cache \in [Path -> 1 .. Len(instances) \cup {None}]
  /\ published \in [Path -> 1 .. Len(instances) \cup {None}]
  /\ stack \in Seq(Frame)
  /\ module \in Instance \cup {Main}
  /\ Buffer \in Instance \cup {Main, None}
  /\ resets \in 0 .. MaxResets
  /\ forgotten \subseteq Path
  /\ resets = 0 => cache = published
-----------------------------------------------------------------------------
Init ==
  /\ instances = <<>>
  /\ cache = Empty /\ published = Empty
  /\ stack = <<>>
  /\ module = Main /\ Buffer = Main
  /\ resets = 0
  /\ forgotten = {}

(* Mistake: require.cache is a copy.                                       *)
SetEntryOfCopy(p, i) ==
  /\ cache' = [cache EXCEPT ![p] = i]
  /\ UNCHANGED published

(* The entry of a path in Module._cache, which may still be require.cache. *)
SetEntry(p, i) ==
  /\ cache' = [cache EXCEPT ![p] = i]
  /\ published' = IF resets = 0 THEN cache' ELSE published

(* Mistake: the module is not cached before its code runs.                 *)
CreateUncached(p, isLoaded) ==
  /\ cache[p] = None
  /\ Len(instances) < MaxInstances
  /\ instances' = Append(instances, [path |-> p, loaded |-> isLoaded])
  /\ UNCHANGED <<cache, published, resets, forgotten>>

(* A path that is not cached: the module object is made and cached.  A     *)
(* path in the cache returns its exports and changes nothing; so does one  *)
(* the native function rejects (no capability, an unknown koss: module),   *)
(* whose entry is made and deleted in the same call.                       *)
Create(p, isLoaded) ==
  /\ cache[p] = None
  /\ Len(instances) < MaxInstances
  /\ instances' = Append(instances, [path |-> p, loaded |-> isLoaded])
  /\ SetEntry(p, Len(instances) + 1)
  /\ UNCHANGED <<resets, forgotten>>

(* Its code begins to run.                                                 *)
BeginRequire(p) ==
  /\ p \in Source /\ Len(stack) < MaxDepth
  /\ Create(p, FALSE)
  /\ stack' = Append(stack, [instance |-> Len(instances) + 1, module |-> module,
                             Buffer |-> Buffer])
  /\ module' = Len(instances) + 1
  /\ Buffer' = None

(* No code runs: the answer is an object, or nothing, and then the module  *)
(* is cached with empty exports.                                           *)
RequireWithoutCode(p) ==
  /\ p \notin Source
  /\ Create(p, TRUE)
  /\ UNCHANGED <<stack, module, Buffer>>

(* The finally clause around the code.                                     *)
RestoreGlobals ==
  /\ module' = Top.module
  /\ Buffer' = Top.Buffer

(* The code ends.                                                          *)
EndRequire ==
  /\ stack # <<>>
  /\ instances' = [instances EXCEPT ![Top.instance].loaded = TRUE]
  /\ stack' = Outer
  /\ RestoreGlobals
  /\ UNCHANGED <<cache, published, resets, forgotten>>

(* Mistake: the entry of a module whose code threw stays.                  *)
ThrowKeepsEntry ==
  /\ stack # <<>>
  /\ stack' = Outer
  /\ RestoreGlobals
  /\ UNCHANGED <<instances, cache, published, resets, forgotten>>

(* Mistake: no finally clause, the globals are not restored.               *)
ThrowKeepsGlobals ==
  /\ stack # <<>>
  /\ SetEntry(instances[Top.instance].path, None)
  /\ stack' = Outer
  /\ UNCHANGED <<instances, module, Buffer, resets, forgotten>>

(* The code throws: the entry of its path is deleted, whoever's it is, and *)
(* the caller, who sees the exception, goes on or throws as well.          *)
Throw ==
  /\ stack # <<>>
  /\ SetEntry(instances[Top.instance].path, None)
  /\ stack' = Outer
  /\ RestoreGlobals
  /\ UNCHANGED <<instances, resets, forgotten>>

(* Code assigns to the exports of the main script's module, which it       *)
(* reaches as module outside any module's code, or kept from there.        *)
AssignMainExports ==
  /\ resets < MaxResets
  /\ cache' = Empty
  /\ resets' = resets + 1
  /\ UNCHANGED <<instances, published, stack, module, Buffer, forgotten>>

(* delete require.cache[p]                                                 *)
Forget(p) ==
  /\ published[p] # None
  /\ published' = [published EXCEPT ![p] = None]
  /\ cache' = IF resets = 0 THEN published' ELSE cache
  /\ forgotten' = forgotten \cup {p}
  /\ UNCHANGED <<instances, stack, module, Buffer, resets>>

(* The code of a module sets globalThis.Buffer, as koss:buffer may.        *)
SetBuffer ==
  /\ stack # <<>>
  /\ Buffer' = Top.instance
  /\ UNCHANGED <<instances, cache, published, stack, module, resets, forgotten>>

(* The main script has ended, or requires what is cached.                  *)
Finished == stack = <<>> /\ UNCHANGED vars

Next ==
  \/ \E p \in Path : BeginRequire(p) \/ RequireWithoutCode(p) \/ Forget(p)
  \/ EndRequire \/ Throw
  \/ AssignMainExports
  \/ SetBuffer
  \/ Finished

Spec == Init /\ [][Next]_vars
-----------------------------------------------------------------------------
(* A module that require finds in the cache has loaded, or its code is     *)
(* running and the caller is part of a cycle: what failed is gone, however *)
(* the calls are nested and whatever was deleted or replaced meanwhile.    *)
CachedIsLive ==
  \A p \in Path : cache[p] # None =>
    /\ instances[cache[p]].path = p
    /\ instances[cache[p]].loaded \/ cache[p] \in Loading

(* As long as nothing is assigned to module.exports of the main script, a  *)
(* path is evaluated at most once, cycles and failures included, unless    *)
(* the script deletes it from require.cache.                               *)
OnceUntilReset ==
  resets = 0 =>
    \A i, j \in 1 .. Len(instances) :
      /\ instances[i].path = instances[j].path
      /\ instances[i].path \notin forgotten
      /\ {i, j} \subseteq {k \in 1 .. Len(instances) : instances[k].loaded} \cup Loading
      => i = j

(* The code that runs sees its own module as module, and as Buffer what it *)
(* set itself; the main script has its own of both whenever no require is  *)
(* in progress.                                                            *)
GlobalsFollowStack ==
  IF stack = <<>>
  THEN module = Main /\ Buffer = Main
  ELSE module = Top.instance /\ Buffer \in {None, Top.instance}
=============================================================================
