----------------------------- MODULE FfiObjects -----------------------------
(***************************************************************************)
(* What a script holds of src/src/_senri_ffi: libraries and functions of   *)
(* them (library.rs), callbacks (callback.rs) and blocks of memory         *)
(* (memory.rs).  A script calls a native function, which may call a        *)
(* callback, in which the script may do anything again: the frames of both *)
(* are one stack.  Whether the sandbox lets an operation happen is the     *)
(* subject of Sandbox; here only the refusal inside a callback matters.    *)
(***************************************************************************)
EXTENDS Naturals, Sequences, FiniteSets

CONSTANTS
  MaxCallbacks, \* bound: callbacks created
  MaxDepth,     \* bound: frames on the stack
  MaxBlocks,    \* bound: blocks allocated
  Sizes         \* the sizes of blocks tried

Callback == 1 .. MaxCallbacks
Block == 1 .. MaxBlocks

VARIABLES
  stack,    \* frames: 0 for a native function, c for the function of callback c
  created,  \* callbacks created
  registry, \* CALLBACK_REGISTRY: callbacks not freed
  taken,    \* callbacks whose func is taken from its cell
  touched,  \* a trampoline used the data of a freed callback
  answer,   \* the result of the last callback: whose and how it was written
  inner,    \* the handle has its library
  closed,   \* the handle's closed flag
  held,     \* the script holds a function of the library
  unloaded, \* whether close unloaded it, and while a call was under way
  reached,  \* a call reached code that was no longer loaded
  blocks,   \* blocks[b]: the size of a live block, 0 otherwise
  engine,   \* the blocks that are the engine's: array buffers and structures
  pointers, \* Pointer objects: block, offset into it, size
  misfreed  \* blocks given to dealloc that are not alloc's, or not as it gave them

callbackVars == <<created, registry, taken, touched, answer>>
libraryVars == <<inner, closed, held, unloaded, reached>>
blockVars == <<blocks, engine, pointers, misfreed>>
vars == <<stack, callbackVars, libraryVars, blockVars>>

Answer == [of : 0 .. MaxCallbacks, how : {"none", "value", "zero", "unwritten"}]

TypeOK ==
  /\ stack \in Seq(0 .. MaxCallbacks) /\ Len(stack) <= MaxDepth
  /\ created \in 0 .. MaxCallbacks
  /\ registry \subseteq 1 .. created
  /\ taken \subseteq registry
  /\ touched \in BOOLEAN
  /\ answer \in Answer
  /\ inner \in BOOLEAN /\ closed \in BOOLEAN /\ held \in BOOLEAN /\ reached \in BOOLEAN
  /\ unloaded \in {"no", "idle", "running"}
  /\ blocks \in [Block -> Nat]
  /\ \A p \in pointers : p.block \in 0 .. MaxBlocks /\ p.offset \in Nat /\ p.size \in Nat
  /\ engine \subseteq Block /\ misfreed \subseteq Block

Init ==
  /\ stack = <<>>
  /\ created = 0 /\ registry = {} /\ taken = {} /\ touched = FALSE
  /\ answer = [of |-> 0, how |-> "none"]
  /\ inner = TRUE /\ closed = FALSE /\ held = FALSE /\ unloaded = "no" /\ reached = FALSE
  /\ blocks = [b \in Block |-> 0] /\ engine = {} /\ pointers = {} /\ misfreed = {}

Top == stack[Len(stack)]
Pop == SubSeq(stack, 1, Len(stack) - 1)
InScript == stack # <<>> => Top # 0
InNative == stack # <<>> /\ Top = 0

-----------------------------------------------------------------------------
(* Callbacks *)

CreateCallback ==
  /\ InScript
  /\ created < MaxCallbacks
  /\ created' = created + 1
  /\ registry' = registry \cup {created'}
  /\ UNCHANGED <<stack, taken, touched, answer, libraryVars, blockVars>>

(* Mistake: a function that is taken stays so. *)
FreeCallbackKeepingTaken(c) ==
  /\ InScript
  /\ c \in registry
  /\ registry' = registry \ {c}
  /\ UNCHANGED <<stack, created, taken, touched, answer, libraryVars, blockVars>>

(* freeCallback: also while the callback runs.  Its function, taken or     *)
(* not, goes with its data.                                                *)
FreeCallback(c) ==
  /\ InScript
  /\ c \in registry
  /\ registry' = registry \ {c}
  /\ taken' = taken \ {c}
  /\ UNCHANGED <<stack, created, touched, answer, libraryVars, blockVars>>

(* A native function calls a callback that is registered; the sandbox      *)
(* refuses, and the result is zero,                                        *)
TrampolineRefused(c) ==
  /\ InNative /\ c \in registry
  /\ answer' = [of |-> c, how |-> "zero"]
  /\ UNCHANGED <<stack, created, registry, taken, touched, libraryVars, blockVars>>

(* or the function is taken: the result stays what it was,                 *)
TrampolineReentered(c) ==
  /\ InNative /\ c \in registry
  /\ c \in taken
  /\ answer' = [of |-> c, how |-> "unwritten"]
  /\ UNCHANGED <<stack, created, registry, taken, touched, libraryVars, blockVars>>

(* or it is taken for the time of the call.                                *)
TrampolineCalls(c) ==
  /\ InNative /\ c \in registry
  /\ c \notin taken
  /\ Len(stack) < MaxDepth
  /\ taken' = taken \cup {c}
  /\ stack' = Append(stack, c)
  /\ UNCHANGED <<created, registry, touched, answer, libraryVars, blockVars>>

(* Mistake: a function that throws is not put back. *)
CallbackReturnsKeepingTaken ==
  /\ stack # <<>> /\ Top # 0
  /\ stack' = Pop
  /\ touched' = (touched \/ Top \notin registry)
  /\ answer' = [of |-> Top, how |-> "value"]
  /\ UNCHANGED <<created, registry, taken, libraryVars, blockVars>>

(* The function returns or throws: it is put back into the data, which may *)
(* be gone, and the result written.                                        *)
CallbackReturns ==
  /\ stack # <<>> /\ Top # 0
  /\ stack' = Pop
  /\ taken' = taken \ {Top}
  /\ touched' = (touched \/ Top \notin registry)
  /\ answer' = [of |-> Top, how |-> "value"]
  /\ UNCHANGED <<created, registry, libraryVars, blockVars>>

-----------------------------------------------------------------------------
(* The library *)

(* func and funcAsync are refused once the library is closed. *)
Func ==
  /\ InScript
  /\ ~closed /\ inner
  /\ held' = TRUE
  /\ UNCHANGED <<stack, inner, closed, unloaded, reached, callbackVars, blockVars>>

(* A function goes on working when the library is closed: it has the       *)
(* address of the code, whether the code is there or not.                  *)
CallFunction ==
  /\ InScript
  /\ held /\ ~reached
  /\ Len(stack) < MaxDepth
  /\ stack' = Append(stack, 0)
  /\ reached' = ~inner
  /\ UNCHANGED <<inner, closed, held, unloaded, callbackVars, blockVars>>

FunctionReturns ==
  /\ InNative
  /\ stack' = Pop
  /\ UNCHANGED <<callbackVars, libraryVars, blockVars>>

(* close unloads the library, whatever runs in it. *)
Close ==
  /\ InScript
  /\ closed' = TRUE
  /\ inner' = FALSE
  /\ unloaded' = CASE ~inner -> unloaded
                    [] inner /\ stack = <<>> -> "idle"
                    [] OTHER -> "running"
  /\ UNCHANGED <<stack, held, reached, callbackVars, blockVars>>

(* Mistake: closeAsync unloads it too. *)
CloseAsyncUnloads ==
  /\ InScript
  /\ closed' = TRUE
  /\ inner' = FALSE
  /\ UNCHANGED <<stack, held, unloaded, reached, callbackVars, blockVars>>

(* closeAsync, in an instance with an event loop, never unloads it (what   *)
(* it waits for is in EventLoop).                                          *)
CloseAsync ==
  /\ InScript
  /\ closed' = TRUE
  /\ UNCHANGED <<stack, inner, held, unloaded, reached, callbackVars, blockVars>>

-----------------------------------------------------------------------------
(* Blocks *)

Live == {b \in Block : blocks[b] # 0}
Fresh == {b \in Block : b \notin Live /\ \A p \in pointers : p.block # b}
Null == [block |-> 0, offset |-> 0, size |-> 0]

(* A new block of n bytes, and a pointer to it that says it has `size`.    *)
NewBlock(n, size) ==
  IF n = 0
  THEN /\ pointers' = pointers \cup {Null}
       /\ UNCHANGED blocks
  ELSE \E b \in Fresh :
       /\ \A x \in Fresh : b <= x
       /\ blocks' = [blocks EXCEPT ![b] = n]
       /\ pointers' = pointers \cup {[block |-> b, offset |-> 0, size |-> size]}

(* Mistake: the pointer has the size of one element. *)
AllocOfOne(n, count) ==
  /\ InScript
  /\ NewBlock(n * count, n)
  /\ UNCHANGED <<stack, engine, misfreed, callbackVars, libraryVars>>

(* alloc(n) is allocType of n one-byte elements; of no bytes: null. *)
Alloc(n, count) ==
  /\ InScript
  /\ NewBlock(n * count, n * count)
  /\ UNCHANGED <<stack, engine, misfreed, callbackVars, libraryVars>>

(* addressOf an array buffer, or toPointer of a structure: a pointer of    *)
(* the whole size to memory that is the engine's.  One of no bytes is to   *)
(* nothing.                                                                *)
AddressOf(n) ==
  /\ InScript
  /\ NewBlock(n, n)
  /\ engine' = engine \cup {b \in Block : blocks'[b] # blocks[b]}
  /\ UNCHANGED <<stack, misfreed, callbackVars, libraryVars>>

(* The engine collects a buffer or a structure; pointers to it stay.       *)
Collect(b) ==
  /\ b \in engine \cap Live
  /\ blocks' = [blocks EXCEPT ![b] = 0]
  /\ UNCHANGED <<stack, engine, pointers, misfreed, callbackVars, libraryVars>>

(* Pointer.add: the result has no size of its own. *)
Add(p, n) ==
  /\ InScript
  /\ p \in pointers /\ p.block # 0 /\ p.offset + n < blocks[p.block]
  /\ pointers' = pointers \cup {[block |-> p.block, offset |-> p.offset + n, size |-> 0]}
  /\ UNCHANGED <<stack, blocks, engine, misfreed, callbackVars, libraryVars>>

(* free: null and a pointer of add free nothing; any other is given back,  *)
(* with the size the pointer has, whosever the memory is.  Scripts are     *)
(* taken to free a block of alloc once.                                    *)
Free(p) ==
  /\ InScript
  /\ p \in pointers
  /\ p.block \in {0} \cup Live \cup engine
  /\ IF p.block = 0 \/ p.size = 0
     THEN UNCHANGED <<blocks, misfreed>>
     ELSE /\ misfreed' = IF p.block \in engine \/ p.offset # 0 \/ p.size # blocks[p.block]
                         THEN misfreed \cup {p.block}
                         ELSE misfreed
          /\ blocks' = [blocks EXCEPT ![p.block] = 0]
  /\ UNCHANGED <<stack, engine, pointers, callbackVars, libraryVars>>

-----------------------------------------------------------------------------
Next ==
  \/ CreateCallback \/ CallbackReturns
  \/ \E c \in Callback :
       FreeCallback(c) \/ TrampolineRefused(c) \/ TrampolineReentered(c) \/ TrampolineCalls(c)
  \/ Func \/ CallFunction \/ FunctionReturns \/ Close \/ CloseAsync
  \/ \E n \in Sizes, count \in 0 .. 2 : Alloc(n, count)
  \/ \E n \in Sizes : AddressOf(n)
  \/ \E b \in Block : Collect(b)
  \/ \E p \in pointers : Free(p) \/ \E n \in Sizes \ {0} : Add(p, n)

Spec == Init /\ [][Next]_vars

-----------------------------------------------------------------------------
(* Properties *)

Running(c) == {i \in 1 .. Len(stack) : stack[i] = c}

(***************************************************************************)
(* The function of a registered callback is away exactly while it runs, so *)
(* a callback runs at most once at a time, at any depth of calls, and a    *)
(* callback that is idle answers: only one called from within itself, or   *)
(* refused, is left without its result.                                    *)
(***************************************************************************)
CallbacksKeepTheirFunction ==
  /\ \A c \in registry :
       /\ c \in taken <=> Running(c) # {}
       /\ Cardinality(Running(c)) <= 1
  /\ answer.how = "unwritten" => Running(answer.of) # {}

(***************************************************************************)
(* Only close() takes native code away from the functions a script holds;  *)
(* closing with closeAsync leaves them working.  Code that runs is there,  *)
(* unless it was called after close(), or close() was called from within   *)
(* it: by a callback.                                                      *)
(***************************************************************************)
NativeCodeStaysUntilClose ==
  /\ reached => unloaded # "no"
  /\ ~inner <=> unloaded # "no"
  /\ stack # <<>> /\ ~inner => reached \/ unloaded = "running"

(***************************************************************************)
(* The allocator gets back what it gave, with its size, through whichever  *)
(* pointer a block of alloc is freed; a pointer into the middle of a block *)
(* frees nothing.  Only memory that is the engine's is ever given back     *)
(* wrongly: free() does not ask whose it is.                               *)
(***************************************************************************)
BlocksAreReturnedWhole ==
  /\ misfreed \subseteq engine
  /\ \A p \in pointers :
       p.size # 0 => /\ p.offset = 0
                     /\ p.block \in Live => p.size = blocks[p.block]

(***************************************************************************)
(* What the comments of the registry say: the trampoline never touches     *)
(* freed data.                                                             *)
(***************************************************************************)
FreedDataIsNotTouched == ~touched
=============================================================================
