-------------------------------- MODULE Napi --------------------------------
(***************************************************************************)
(* The N-API of src/src/napi: native code that a script's call entered     *)
(* works on handles, which are sentinels or pointers to slots of the heap. *)
(* Nothing ends the life of a slot but the end of the call it was made for *)
(* (arguments) and the end of a reference (its copy).                      *)
(*                                                                         *)
(* Native code is external.  It is taken to use a handle only while it may *)
(* (an argument during its call, a reference's value while the reference   *)
(* is there) and every call of it runs on the script's thread, but for the *)
(* execute function of an asynchronous work.                               *)
(***************************************************************************)
EXTENDS Naturals, Sequences, FiniteSets

CONSTANTS
  Slots,       \* bound: slots of the heap in use
  Objects,     \* objects and arrays there are
  ScriptFn,    \* the script's function; properties of functions are left out
  NativeFns,   \* functions of napi_create_function, one per C function
  Passed,      \* the values scripts pass
  Datum,       \* pointers of the addon; 0 is null
  MaxFrames,   \* bound: calls within calls
  MaxRefs,     \* bound: references created
  MaxRefCount, \* bound: their counts
  Opaque,      \* buffers and externals there are
  Key          \* property names, one of them for napi_wrap

(* Handles: 0 to 3 are undefined, null, true and false; others are slots.  *)
Sentinel == 0 .. 3
Slot == 4 .. 3 + Slots
Ref == 1 .. MaxRefs

(* What a script's value is, and what a slot holds besides.                *)
Undefined == <<"undefined", 0>>
OfSentinel == [h \in Sentinel |->
  CASE h = 0 -> Undefined [] h = 1 -> <<"null", 0>>
    [] h = 2 -> <<"boolean", 1>> [] h = 3 -> <<"boolean", 0>>]
IsObject(v) == v[1] = "object"
Free == <<"free", 0>>
Text == <<"string", 0>>    \* what it says is told apart nowhere

VARIABLES
  heap,       \* heap[s]: what slot s holds
  frames,     \* calls in progress: native ones with their arguments, and
              \* the script's function called by native code
  registered, \* CALLBACK_REGISTRY
  data,       \* CALLBACK_DATA
  refs,       \* REF_COUNTS: the reference's slot and its count; slot -1: none
  nextRef,    \* NEXT_REF_ID
  of,         \* of[r]: the value reference r was created from
  props,      \* props[o]: the own properties of object o
  misfreed,   \* a slot was freed that was not there
  garbled     \* a result was not what the native function returned

callVars == <<frames, registered, data, misfreed, garbled>>
refVars == <<refs, nextRef, of>>
vars == <<heap, callVars, refVars, props>>

NoRef == [slot |-> 0, count |-> 0, there |-> FALSE]

TypeOK ==
  /\ \A s \in Slot : heap[s][1] \in {"free", "number", "string", "object", "buffer", "external"}
  /\ Len(frames) <= MaxFrames
  /\ registered \subseteq NativeFns
  /\ data \in [NativeFns -> Datum \cup {0}]
  /\ \A r \in Ref : refs[r].slot \in Sentinel \cup Slot /\ refs[r].count \in 0 .. MaxRefCount
  /\ nextRef \in 1 .. MaxRefs + 1
  /\ misfreed \in BOOLEAN /\ garbled \in BOOLEAN

Init ==
  /\ heap = [s \in Slot |-> Free]
  /\ frames = <<>>
  /\ registered = NativeFns /\ data = [f \in NativeFns |-> 0]
  /\ refs = [r \in Ref |-> NoRef] /\ nextRef = 1 /\ of = [r \in Ref |-> Undefined]
  /\ props = [o \in Objects |-> [k \in {} |-> Undefined]]
  /\ misfreed = FALSE /\ garbled = FALSE

-----------------------------------------------------------------------------
(* Values *)

Live == {s \in Slot : heap[s] # Free}
Handles == Sentinel \cup Live
Content(h, hp) == IF h \in Sentinel THEN OfSentinel[h] ELSE hp[h]

(* value_to_js: what a script cannot hold becomes undefined. *)
ToJs(h, hp) ==
  LET c == Content(h, hp)
  IN IF c[1] \in {"buffer", "external"} THEN Undefined ELSE c

(* js_to_napi and alloc_slot: the handles of new slots, the lowest free    *)
(* ones, and the heap that has them; sentinels take no slot.               *)
Needs(vs) == {i \in DOMAIN vs : \A h \in Sentinel : vs[i] # OfSentinel[h]}
FreeSlots(hp) == {s \in Slot : hp[s] = Free}
Nth(S, n) == CHOOSE s \in S : Cardinality({x \in S : x < s}) = n - 1
Room(vs) == Cardinality(Needs(vs)) <= Cardinality(FreeSlots(heap))
NewHandles(vs, hp) ==
  [i \in DOMAIN vs |->
     IF i \in Needs(vs)
     THEN Nth(FreeSlots(hp), Cardinality({j \in Needs(vs) : j <= i}))
     ELSE CHOOSE h \in Sentinel : vs[i] = OfSentinel[h]]
Filled(vs, hp) ==
  LET hs == NewHandles(vs, hp)
  IN [s \in Slot |-> IF \E i \in Needs(vs) : hs[i] = s
                     THEN vs[CHOOSE i \in Needs(vs) : hs[i] = s] ELSE hp[s]]

(* free_value of each *)
Freed(hs, hp) == [s \in Slot |-> IF s \in hs THEN Free ELSE hp[s]]
FreesNothing(hs, hp) == \E s \in hs \cap Slot : hp[s] = Free

Top == frames[Len(frames)]
Pop == SubSeq(frames, 1, Len(frames) - 1)
InScript == frames # <<>> => Top.kind = "script"
InNative == frames # <<>> /\ Top.kind = "native"

(* An operation that makes one slot and changes nothing else. *)
Make(v) ==
  /\ InNative /\ Room(<<v>>)
  /\ heap' = Filled(<<v>>, heap)
  /\ UNCHANGED <<frames, registered, data, misfreed, garbled, refVars, props>>

CreateString == Make(Text)
CreateOpaque(v) == Make(v)

-----------------------------------------------------------------------------
(* Calls *)

(* The function the script holds was called: its arguments become slots.   *)
CallNative(f, args) ==
  /\ InScript
  /\ f \in registered
  /\ Len(frames) < MaxFrames /\ Room(args)
  /\ heap' = Filled(args, heap)
  /\ frames' = Append(frames, [kind |-> "native", args |-> NewHandles(args, heap), data |-> data[f]])
  /\ UNCHANGED <<registered, data, misfreed, garbled, refVars, props>>

(* Mistake: the arguments are freed before the result is converted. *)
NativeReturnsFreed(h) ==
  /\ InNative /\ h \in Handles
  /\ LET args == {Top.args[i] : i \in DOMAIN Top.args} \cap Slot
     IN /\ misfreed' = (misfreed \/ FreesNothing(args, heap))
        /\ heap' = Freed(args, heap)
        /\ garbled' = (garbled \/ ToJs(h, heap) # ToJs(h, heap'))
  /\ frames' = Pop
  /\ UNCHANGED <<registered, data, refVars, props>>

(* It returns a handle, an argument's or another: what that holds is the   *)
(* result, and then the arguments are freed.                               *)
NativeReturns(h) ==
  /\ InNative /\ h \in Handles
  /\ LET args == {Top.args[i] : i \in DOMAIN Top.args} \cap Slot
     IN /\ misfreed' = (misfreed \/ FreesNothing(args, heap))
        /\ heap' = Freed(args, heap)
  /\ frames' = Pop
  /\ UNCHANGED <<registered, data, garbled, refVars, props>>

(* napi_create_function: the data of a function made before from the same  *)
(* C function is replaced, unless the new one has none.                    *)
CreateFunction(f, d) ==
  /\ InNative /\ Room(<<<<"object", f>>>>)
  /\ registered' = registered \cup {f}
  /\ data' = IF d = 0 THEN data ELSE [data EXCEPT ![f] = d]
  /\ heap' = Filled(<<<<"object", f>>>>, heap)
  /\ UNCHANGED <<frames, misfreed, garbled, refVars, props>>

(* napi_call_function and napi_new_instance on the script's function. *)
CallScript(h, new) ==
  /\ InNative /\ h \in Live
  /\ heap[h] = <<"object", ScriptFn>>
  /\ Len(frames) < MaxFrames
  /\ frames' = Append(frames, [kind |-> "script", args |-> <<>>, new |-> new])
  /\ UNCHANGED <<heap, registered, data, misfreed, garbled, refVars, props>>

(* It returns; a constructor that returns no object gives the new one.     *)
ScriptReturns(v, o) ==
  /\ frames # <<>> /\ Top.kind = "script"
  /\ LET given == IF Top.new /\ ~IsObject(v) THEN <<"object", o>> ELSE v
     IN /\ Room(<<given>>)
        /\ heap' = Filled(<<given>>, heap)
  /\ frames' = Pop
  /\ UNCHANGED <<registered, data, misfreed, garbled, refVars, props>>

(* It throws: the exception ends here, as a status. *)
ScriptThrows ==
  /\ frames # <<>> /\ Top.kind = "script"
  /\ frames' = Pop
  /\ UNCHANGED <<heap, registered, data, misfreed, garbled, refVars, props>>

-----------------------------------------------------------------------------
(* References *)

(* Mistake: the slot of the value itself is kept. *)
CreateReferenceSharing(h, count) ==
  /\ InNative /\ h \in Handles
  /\ nextRef \in Ref
  /\ refs' = [refs EXCEPT ![nextRef] = [slot |-> h, count |-> count, there |-> TRUE]]
  /\ of' = [of EXCEPT ![nextRef] = Content(h, heap)]
  /\ nextRef' = nextRef + 1
  /\ UNCHANGED <<heap, callVars, props>>

(* A reference has a copy of its own. *)
CreateReference(h, count) ==
  /\ InNative /\ h \in Handles
  /\ nextRef \in Ref /\ Room(<<Content(h, heap)>>)
  /\ LET copy == <<Content(h, heap)>>
     IN /\ heap' = Filled(copy, heap)
        /\ refs' = [refs EXCEPT ![nextRef] =
             [slot |-> NewHandles(copy, heap)[1], count |-> count, there |-> TRUE]]
  /\ of' = [of EXCEPT ![nextRef] = Content(h, heap)]
  /\ nextRef' = nextRef + 1
  /\ UNCHANGED <<frames, registered, data, misfreed, garbled, props>>

(* Deleting one that is gone changes nothing. *)
DeleteReference(r) ==
  /\ InNative /\ refs[r].there
  /\ LET slot == {refs[r].slot} \cap Slot
     IN /\ misfreed' = (misfreed \/ FreesNothing(slot, heap))
        /\ heap' = Freed(slot, heap)
  /\ refs' = [refs EXCEPT ![r] = NoRef]
  /\ of' = [of EXCEPT ![r] = Undefined]
  /\ UNCHANGED <<frames, registered, data, garbled, nextRef, props>>

(* The count keeps nothing alive: at zero the reference still has its      *)
(* value.                                                                  *)
Count(r, n) ==
  /\ InNative /\ refs[r].there
  /\ n \in 0 .. MaxRefCount
  /\ n = refs[r].count + 1 \/ n = refs[r].count - 1
  /\ refs' = [refs EXCEPT ![r].count = n]
  /\ UNCHANGED <<heap, callVars, nextRef, of, props>>

-----------------------------------------------------------------------------
(* Objects: the object's own properties, written past setters and flags.   *)
(* napi_wrap writes one whose value is the number of an address.           *)

Put(h, k, v) ==
  /\ InNative /\ h \in Live /\ IsObject(heap[h]) /\ heap[h][2] \in Objects
  /\ LET o == heap[h][2]
     IN props' = [props EXCEPT ![o] =
          [x \in DOMAIN @ \cup {k} |-> IF x = k THEN v ELSE @[x]]]
  /\ UNCHANGED <<callVars, refVars>>

SetProperty(h, k, hv) == hv \in Handles /\ Put(h, k, ToJs(hv, heap)) /\ UNCHANGED heap

(* napi_set_named_property makes a slot for the key, and leaves it.        *)
SetNamedProperty(h, k, hv) ==
  /\ hv \in Handles /\ Room(<<Text>>)
  /\ Put(h, k, ToJs(hv, heap))
  /\ heap' = Filled(<<Text>>, heap)

GetProperty(h, k) ==
  /\ h \in Live
  /\ IsObject(heap[h]) /\ heap[h][2] \in Objects
  /\ k \in DOMAIN props[heap[h][2]]
  /\ Make(props[heap[h][2]][k])

Wrap(h, d) == Put(h, "wrapped", <<"number", d>>) /\ UNCHANGED heap

-----------------------------------------------------------------------------
Next ==
  \/ \E f \in NativeFns : \/ \E n \in 0 .. 1 : \E args \in [1 .. n -> Passed] : CallNative(f, args)
                          \/ \E d \in Datum \cup {0} : CreateFunction(f, d)
  \/ \E h \in Handles :
       \/ NativeReturns(h)
       \/ \E count \in 0 .. MaxRefCount : CreateReference(h, count)
       \/ \E new \in BOOLEAN : CallScript(h, new)
       \/ \E k \in Key : \/ \E hv \in Handles : SetProperty(h, k, hv) \/ SetNamedProperty(h, k, hv)
                         \/ GetProperty(h, k)
       \/ \E d \in Datum : Wrap(h, d)
  \/ \E v \in Passed \cup {Undefined}, o \in Objects : ScriptReturns(v, o)
  \/ ScriptThrows
  \/ CreateString
  \/ \E v \in Opaque : CreateOpaque(v)
  \/ \E r \in Ref : DeleteReference(r) \/ \E n \in 0 .. MaxRefCount : Count(r, n)

Spec == Init /\ [][Next]_vars

-----------------------------------------------------------------------------
(* Properties *)

(***************************************************************************)
(* Who owns a slot frees it, and nobody else: the value of a reference is  *)
(* the one it was created from until it is deleted, though the slot of     *)
(* that is freed with its call; arguments are there while their call runs, *)
(* whatever the calls within it free; no slot is freed twice; and a        *)
(* function's result arrives though it may be one of its arguments.        *)
(***************************************************************************)
SlotsHaveOneOwner ==
  /\ \A r \in Ref : refs[r].there => Content(refs[r].slot, heap) = of[r]
  /\ \A i \in 1 .. Len(frames) : \A j \in DOMAIN frames[i].args : frames[i].args[j] \in Handles
  /\ ~misfreed
  /\ ~garbled

=============================================================================
