----------------------------- MODULE HostGlobals -----------------------------
(***************************************************************************)
(* What a host puts into the globals of an instance between the runs of a  *)
(* script (koss_set_global_*, koss_register_function, koss_register_class  *)
(* in src/src/runtime.rs), while the script assigns, freezes and fixes     *)
(* what it likes.                                                          *)
(*                                                                         *)
(* A function may be registered under a dotted path.  The path is walked   *)
(* by code given to the engine: an intermediate that is not an object is   *)
(* replaced by an empty one, and the value travels in a global that this   *)
(* code deletes.  All answers are "ok": what the engine refuses (a fixed   *)
(* global, a frozen object, an exception of the walking code) is dropped.  *)
(***************************************************************************)
EXTENDS Naturals, Sequences, SequencesExt

CONSTANTS
  Path,       \* the paths from globalThis, as sequences of names, each with
              \*   its prefixes
  Callback,   \* the functions of the host
  NoCallback, \* none of them
  KossJS,     \* the path of the global that is made first
  MaxObjects  \* bound: objects made of a class

VARIABLES
  tree,         \* the value at every path from globalThis
  fixed,        \* the globals a script made constant
  parseBroken,  \* a script replaced JSON.parse by a function that throws
  temps,        \* the temporary globals that exist
  objects,      \* the instances of classes: their class, when it was registered
                \*   with which callback, and the callback their methods call
  hardened      \* history: a script fixed or froze something

vars == <<tree, fixed, parseBroken, temps, objects, hardened>>

Global == {p \in Path : Len(p) = 1}
Containers == {"object", "frozen"}
GlobalValue == [is : {"absent", "null", "plain", "object", "frozen"}, fn : {NoCallback}]
           \cup [is : {"function", "class"}, fn : Callback]

Is(kind) == [is |-> kind, fn |-> NoCallback]
Function(f) == [is |-> "function", fn |-> f]
Class(f) == [is |-> "class", fn |-> f]

TypeOK ==
  /\ tree \in [Path -> GlobalValue]
  /\ fixed \subseteq Global
  /\ parseBroken \in BOOLEAN
  /\ temps \subseteq Path \cup {<<>>}
  /\ objects \in Seq([of : Global, given : Callback, calls : Callback])
  /\ hardened \in BOOLEAN

(* register_koss_global: KossJS is frozen, and neither writable nor        *)
(* configurable, before a host or a script gets at the globals.            *)
Init ==
  /\ tree = [p \in Path |-> Is(IF p = KossJS THEN "frozen" ELSE "absent")]
  /\ fixed = {KossJS}
  /\ parseBroken = FALSE
  /\ temps = {}
  /\ objects = <<>>
  /\ hardened = FALSE

-----------------------------------------------------------------------------
(* The value found where p is written; globalThis itself is an object.     *)
Holder(t, p) == IF Len(p) = 1 THEN Is("object") ELSE t[Front(p)]

(* The engine refuses a write to a constant, into a frozen object and into *)
(* what is no object; it throws for null and undefined.  A function takes  *)
(* properties like an object.                                              *)
Takes(t, p) == p \notin fixed /\ Holder(t, p).is \in {"object", "function", "class"}
Throws(t, p) == Holder(t, p).is \in {"absent", "null"}

(* A new value has nothing below it.                                       *)
Put(t, p, v) ==
  IF ~Takes(t, p) THEN t
  ELSE [q \in Path |-> IF q = p THEN v
                       ELSE IF IsStrictPrefix(p, q) THEN Is("absent") ELSE t[q]]

(* register_global_property, its result ignored.                           *)
Define(g, v) == tree' = Put(tree, g, v)

(* koss_set_global_string, _number, _bool: ok, whatever the engine said.   *)
SetGlobal(g) ==
  /\ Define(g, Is("plain"))
  /\ UNCHANGED <<fixed, parseBroken, temps, objects, hardened>>

(* koss_set_global_null and koss_set_global_undefined.                     *)
SetGlobalNull(g) ==
  /\ Define(g, Is("null"))
  /\ UNCHANGED <<fixed, parseBroken, temps, objects, hardened>>

(* Mistake: the temporary global stays.                                    *)
SetGlobalJsonKeepingTemp(g, kind) ==
  /\ IF parseBroken
     THEN UNCHANGED tree
     ELSE Define(g, Is(kind))
  /\ temps' = temps \cup {<<>>}
  /\ UNCHANGED <<fixed, parseBroken, objects, hardened>>

(* koss_set_global_json of valid JSON: the text goes through a temporary   *)
(* global, which is not deleted when JSON.parse throws.  What serde_json   *)
(* refuses changes nothing.                                                *)
SetGlobalJson(g, kind) ==
  /\ IF parseBroken
     THEN temps' = temps \cup {<<>>} /\ UNCHANGED tree
     ELSE temps' = temps \ {<<>>} /\ Define(g, Is(kind))
  /\ UNCHANGED <<fixed, parseBroken, objects, hardened>>

-----------------------------------------------------------------------------
(* set_nested_property: the strict prefixes of the path, outermost first.  *)
Intermediates(p) == [n \in 1 .. Len(p) - 1 |-> SubSeq(p, 1, n)]

WithObject(t, q) == IF t[q].is \in Containers THEN t ELSE Put(t, q, Is("object"))

(* Mistake: only what is undefined is replaced.                            *)
WithObjectIfAbsent(t, q) == IF t[q].is # "absent" THEN t ELSE Put(t, q, Is("object"))

Walked(p) == FoldLeft(LAMBDA t, q : WithObject(t, q), tree, Intermediates(p))

(* Some prefix is null or undefined although the code has written to it:   *)
(* the code throws, and the temporary global stays.                        *)
Stumbles(p) == Throws(Walked(p), p)

(* koss_register_function.                                                 *)
Registered(p, f) == Put(Walked(p), p, Function(f))

RegisterFunction(p, f) ==
  /\ tree' = Registered(p, f)
  /\ temps' = IF Len(p) = 1 THEN temps
              ELSE IF Stumbles(p) THEN temps \cup {p} ELSE temps \ {p}
  /\ UNCHANGED <<fixed, parseBroken, objects, hardened>>

-----------------------------------------------------------------------------
(* koss_register_class: a dispatcher for the callback, and a function of   *)
(* that name which closes over it.  (A name the engine cannot parse leaves *)
(* the dispatcher and answers 1; the names of the function's own variables *)
(* are taken.)                                                             *)
RegisterClass(g, f) ==
  /\ Define(g, Class(f))
  /\ UNCHANGED <<fixed, parseBroken, temps, objects, hardened>>

(* Mistake: the methods look their dispatcher up when they are called.     *)
CallsLate(o) == IF tree[o.of].is = "class" THEN tree[o.of].fn ELSE o.calls

(* The callback a method of an instance reaches.                           *)
Calls(o) == o.calls

(* The script makes an instance.                                           *)
New(g) ==
  /\ tree[g].is = "class"
  /\ Len(objects) < MaxObjects
  /\ objects' = Append(objects, [of |-> g, given |-> tree[g].fn, calls |-> tree[g].fn])
  /\ UNCHANGED <<tree, fixed, parseBroken, temps, hardened>>

(* The script writes, freezes, fixes and breaks.                           *)
Assign(p, kind) ==
  /\ ~Throws(tree, p)
  /\ tree' = Put(tree, p, Is(kind))
  /\ UNCHANGED <<fixed, parseBroken, temps, objects, hardened>>

Freeze(p) ==
  /\ tree[p].is = "object"
  /\ tree' = [tree EXCEPT ![p] = Is("frozen")]
  /\ hardened' = TRUE
  /\ UNCHANGED <<fixed, parseBroken, temps, objects>>

Fix(g) ==
  /\ fixed' = fixed \cup {g}
  /\ hardened' = TRUE
  /\ UNCHANGED <<tree, parseBroken, temps, objects>>

BreakParse ==
  /\ parseBroken' = TRUE
  /\ UNCHANGED <<tree, fixed, temps, objects, hardened>>

Next ==
  \/ \E g \in Global :
       \/ SetGlobal(g) \/ SetGlobalNull(g) \/ New(g) \/ Fix(g)
       \/ \E kind \in {"plain", "object", "null"} : SetGlobalJson(g, kind)
       \/ \E f \in Callback : RegisterClass(g, f)
  \/ \E p \in Path :
       \/ \E f \in Callback : RegisterFunction(p, f)
       \/ \E kind \in {"plain", "object"} : Assign(p, kind)
       \/ Freeze(p)
  \/ BreakParse

Spec == Init /\ [][Next]_vars

-----------------------------------------------------------------------------
(***************************************************************************)
(* What the host was told is registered is there, and nothing is left      *)
(* behind: a temporary global outlives its call only if JSON.parse threw,  *)
(* if the script fixed or froze something or if the path goes through      *)
(* KossJS, which is frozen from the start; and the value of a path never   *)
(* hangs below something that cannot hold it (set_nested_property makes    *)
(* every intermediate an object before it writes).                         *)
(***************************************************************************)
NothingIsLeftBehind ==
  /\ <<>> \in temps => parseBroken
  /\ \A p \in temps \ {<<>>} : hardened \/ IsPrefix(KossJS, p)
  /\ \A p \in Path :
       tree[p].is # "absent" => Holder(tree, p).is \in Containers \cup {"function", "class"}

(***************************************************************************)
(* A registration under a path takes nothing away but what stood at the    *)
(* path, and what stood where an object was needed.                        *)
(***************************************************************************)
OthersStay ==
  \A p, q \in Path, f \in Callback :
    \/ Registered(p, f)[q] = tree[q]
    \/ IsPrefix(p, q)
    \/ \E n \in 1 .. Len(p) - 1 :
         IsPrefix(SubSeq(p, 1, n), q) /\ tree[SubSeq(p, 1, n)].is \notin Containers

(***************************************************************************)
(* Neither a registration under its name or below it nor a script replaces *)
(* KossJS or adds to it.                                                   *)
(***************************************************************************)
KossJSStays == \A p \in Path : IsPrefix(KossJS, p) =>
                 tree[p] = Is(IF p = KossJS THEN "frozen" ELSE "absent")

(***************************************************************************)
(* An instance keeps the callback its class was registered with, when the  *)
(* host registers a class of the same name again.                          *)
(***************************************************************************)
InstancesKeepTheirCallback == \A i \in 1 .. Len(objects) : Calls(objects[i]) = objects[i].given
=============================================================================
