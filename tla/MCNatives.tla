------------------------------ MODULE MCNatives ------------------------------
(***************************************************************************)
(* The event loop, and the parts of the FFI and of N-API, which share no   *)
(* state with it or each other in the model: one run checks them side by   *)
(* side.  `part` names the one that moves.                                 *)
(***************************************************************************)
EXTENDS EventLoop, Integers

CONSTANTS
  ByteValues, Exact, FieldLists, Packings, NoPacking, Inputs, MaxKept,
  Declarations, Arguments,
  MaxCallbacks, MaxDepth, MaxBlocks, Sizes,
  Slots, Objects, ScriptFn, NativeFns, Passed, Datum, MaxFrames, MaxRefs, MaxRefCount,
  Opaque, Key, MaxScopes, MaxWorks

VARIABLES
  part,
  fields, packing, stage, offsets, cursor, align, size, made, buffer, kept, written,
  declared, passed, plain, async,
  stack, created, registry, taken, touched, answer, inner, libClosed, held, unloaded,
  reached, blocks, engine, pointers, misfreed,
  heap, frames, registered, data, slotMisfreed, garbled, refs, nextRef, of, props,
  error, scopes, mismatch, instance, work, queued, threads, queue, drained

Structs == INSTANCE FfiStructs
Calls == INSTANCE FfiCalls
Holds == INSTANCE FfiObjects WITH closed <- libClosed
ASSUME ObjectsAssumption ==
  /\ MaxCallbacks \in Nat /\ MaxDepth \in Nat /\ MaxBlocks \in Nat
  /\ Sizes \subseteq Nat

(* Parameters are strings; structures have the names of types, and packed  *)
(* is an integer, or not given.                                            *)
ASSUME StructsAssumption ==
  /\ FieldLists \subseteq Seq(Structs!TypeName)
  /\ Packings \subseteq Nat /\ NoPacking \notin Nat
  /\ Declarations \subseteq Seq(STRING)

N == INSTANCE Napi WITH misfreed <- slotMisfreed
Env == INSTANCE NapiEnv

(* A slot that is free holds nothing that could be passed: scripts pass    *)
(* what sentinels stand for, numbers, strings and objects; buffers and     *)
(* externals are the addon's.                                              *)
ASSUME AddonsAssumption ==
  /\ {Slots, MaxFrames, MaxRefs, MaxRefCount, MaxScopes, MaxWorks} \subseteq Nat
  /\ <<"free", 0>> \notin Passed \cup Opaque
  /\ \A v \in Passed \cup Opaque :
       \/ v[1] \in {"number", "string", "object", "buffer", "external"}
       \/ \E h \in N!Sentinel : v = N!OfSentinel[h]

structVars == <<fields, packing, stage, offsets, cursor, align, size, made, buffer, kept, written>>
ffiCallVars == <<declared, passed, plain, async>>
objectVars == <<stack, created, registry, taken, touched, answer, inner, libClosed, held,
                unloaded, reached, blocks, engine, pointers, misfreed>>
napiVars == <<heap, frames, registered, data, slotMisfreed, garbled, refs, nextRef, of, props>>
envVars == <<error, scopes, mismatch, instance, work, queued, threads, queue, drained>>

-----------------------------------------------------------------------------
(* What the instances are given. *)
V == INSTANCE FfiTypes

(* A byte has an even number of values.  The rest is what a power is.      *)
ASSUME TypesAssumption ==
  /\ ByteValues \in Nat \ {0} /\ ByteValues % 2 = 0 /\ Exact \in Nat
  /\ ByteValues ^ 0 = 1 /\ \A i \in 0 .. 7 : ByteValues ^ (i + 1) = ByteValues * ByteValues ^ i
  /\ 2 ^ 0 = 1 /\ \A k \in 0 .. 15 : 2 ^ (k + 1) = 2 * 2 ^ k

(* Addresses have 64 bits, and no string is at address 0.                  *)
ASSUME ValuesAssumption ==
  \A v \in Inputs \cup Arguments :
    /\ v \in [is : {"number", "nan", "undefined", "null", "object", "pointer", "string", "nulstring"},
             n : Int]
    /\ v.is = "pointer" => v.n \in 0 .. V!High("pointer")
    /\ v.is = "string" => v.n \in 1 .. V!High("cstring")

MCFieldLists ==
  {<<"int8", "int32">>, <<"uint8", "int16", "uint8">>, <<"int8", "cstring", "uint16">>,
   <<"int8", "int64">>, <<"pointer", "uint8">>}
MCInputs ==
  {V!Number(-3), V!Number(1), V!Number(40), V!Nan, V!Undefined, V!Pointer(9), V!String(5), V!NulString}
MCDeclarations ==
  {<<>>, <<"int8", "int32">>, <<"uint8", "pointer", "uint16">>, <<"cstring", "int64">>,
   <<"callback", "int32">>, <<"int32", "...">>, <<"callback", "int16", "...", "int8">>,
   <<"callback", "...">>}
MCArguments ==
  {V!Number(-300), V!Number(-3), V!Number(40), V!Nan, V!Undefined, V!Pointer(9), V!String(5),
   V!NulString, V!Object}
MCPassed == {<<"number", 1>>, <<"object", "fn">>}
MCOpaque == {<<"external", 1>>}

-----------------------------------------------------------------------------
Parts == {"loop", "structs", "calls", "objects", "napi", "env"}

(* One beginning each for those that do not move. *)
AList == <<"int8", "int32">>

SumInit ==
  /\ part \in Parts
  /\ Init /\ Structs!Init /\ Calls!Init /\ Holds!Init /\ N!Init /\ Env!Init
  /\ part # "structs" => fields = AList /\ packing = NoPacking
  /\ part # "calls" => declared = AList

SumNext ==
  /\ UNCHANGED part
  /\ \/ part = "loop" /\ Next
        /\ UNCHANGED <<structVars, ffiCallVars, objectVars, napiVars, envVars>>
     \/ part = "structs" /\ Structs!Next
        /\ UNCHANGED <<vars, ffiCallVars, objectVars, napiVars, envVars>>
     \/ part = "calls" /\ Calls!Next
        /\ UNCHANGED <<vars, structVars, objectVars, napiVars, envVars>>
     \/ part = "objects" /\ Holds!Next
        /\ UNCHANGED <<vars, structVars, ffiCallVars, napiVars, envVars>>
     \/ part = "napi" /\ N!Next
        /\ UNCHANGED <<vars, structVars, ffiCallVars, objectVars, envVars>>
     \/ part = "env" /\ Env!Next
        /\ UNCHANGED <<vars, structVars, ffiCallVars, objectVars, napiVars>>

SumSpec ==
  SumInit /\ [][SumNext]_<<part, vars, structVars, ffiCallVars, objectVars, napiVars, envVars>>

-----------------------------------------------------------------------------
(* The state of every part has its type.                                   *)
TypesOK ==
  TypeOK /\ Structs!TypeOK /\ Calls!TypeOK /\ Holds!TypeOK /\ N!TypeOK /\ Env!TypeOK

(* Structures: the layout is that of C, no write to a field reaches another *)
(* field or leaves the buffer, and every field reads as what was last       *)
(* written to it.                                                           *)
FieldsKeepTheirValues ==
  Structs!LayoutIsNatural /\ Structs!FieldsDoNotOverlap /\ Structs!FieldsKeepTheirValues

(* Calls: what a plain call accepts arrives whole, funcAsync passes the     *)
(* same bytes, and a callback that returns what it gets returns the same.   *)
ArgumentsArrive ==
  Calls!EveryArgumentArrives /\ Calls!AsyncPassesTheSame /\ Calls!CallbacksReturnWhatTheyGet

(* Callbacks, libraries and memory: the function of a callback is away      *)
(* exactly while it runs, only close() takes code away, and the allocator   *)
(* gets back what it gave.                                                  *)
HeldNativesAreThere ==
  Holds!CallbacksKeepTheirFunction /\ Holds!NativeCodeStaysUntilClose /\ Holds!BlocksAreReturnedWhole

(* N-API: who owns a slot frees it and nobody else, and an asynchronous     *)
(* work completes once.                                                     *)
AddonsKeepTheirValues == N!SlotsHaveOneOwner /\ Env!WorksCompleteOnce
=============================================================================
