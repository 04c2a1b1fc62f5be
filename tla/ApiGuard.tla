------------------------------- MODULE ApiGuard -------------------------------
(***************************************************************************)
(* The guard every function of the C ABI takes on the instance it is given *)
(* (src/src/runtime.rs: API_INSTANCES, enter_api, ApiGuard::drop,          *)
(* create_instance_internal, koss_destroy).                                *)
(*                                                                         *)
(* A KossInstance is a boxed value the host holds as a raw pointer.  A     *)
(* process-wide registry maps the address of every live instance to the    *)
(* thread that created it and to a busy flag.  The host calls from any     *)
(* thread, with pointers that may be stale, and calls back into the API    *)
(* from callbacks that run inside a call; the allocator may give the       *)
(* address of a destroyed instance to the next one.  The lock of the       *)
(* registry makes each of its operations atomic, but creating (allocate,   *)
(* then register) and destroying (enter, unregister, free) take several.   *)
(***************************************************************************)
EXTENDS Naturals, Sequences

CONSTANTS
  Thread,       \* the host's threads
  Addr,         \* the addresses the allocator can return
  Nobody,       \* stands for "no thread"
  MaxInstances  \* bound: number of instances ever allocated at one address

ASSUME NobodyAssumption == Nobody \notin Thread
ASSUME BoundAssumption == MaxInstances \in Nat

VARIABLES
  registered,   \* the keys of API_INSTANCES
  owner,        \* ApiInstanceState.owner, meaningful for registered keys
  busy,         \* ApiInstanceState.busy, meaningful for registered keys
  allocated,    \* the addresses that hold a live Box<KossInstance>
  creator,      \* the thread that allocated what is, or was last, at an address
  generation,   \* how many instances an address has held
  stack,        \* per thread, its calls that have not returned, innermost last
  answer        \* per thread, the result of its last enter_api

registryVars == <<registered, owner, busy>>
heapVars == <<allocated, creator, generation>>
vars == <<registered, owner, busy, allocated, creator, generation, stack, answer>>

(***************************************************************************)
(* A frame of a thread's stack.  "creating": allocated and initialising,   *)
(* not registered; "running": an API function under the guard;             *)
(* "destroying": koss_destroy under the guard; "freeing": koss_destroy     *)
(* after unregister_api_instance; "freed": after the Box was dropped, about *)
(* to return.                                                              *)
(***************************************************************************)
Phase == {"creating", "running", "destroying", "freeing", "freed"}
Frame == [addr : Addr, gen : Nat, phase : Phase]
Answer == {"none", "ok", "invalid", "non_owner", "busy"}

Top(t) == stack[t][Len(stack[t])]
Push(t, frame) == stack' = [stack EXCEPT ![t] = Append(@, frame)]
Pop(t) == stack' = [stack EXCEPT ![t] = SubSeq(@, 1, Len(@) - 1)]

(* The thread runs the host's own code: it is outside every call, or in a  *)
(* callback (audit, native function, loader) made by its innermost call.   *)
HostCode(t) == stack[t] # <<>> => Top(t).phase = "running"

(* The innermost frame of t is in the given phase, for address a. *)
Doing(t, phase, a) ==
  /\ stack[t] # <<>>
  /\ Top(t).phase = phase
  /\ Top(t).addr = a

NewFrame(a, phase) == [addr |-> a, gen |-> generation[a], phase |-> phase]

TypeOK ==
  /\ registered \subseteq Addr
  /\ owner \in [Addr -> Thread \cup {Nobody}]
  /\ busy \in [Addr -> BOOLEAN]
  /\ allocated \subseteq Addr
  /\ creator \in [Addr -> Thread \cup {Nobody}]
  /\ generation \in [Addr -> Nat]
  /\ stack \in [Thread -> Seq(Frame)]
  /\ answer \in [Thread -> Answer]

Init ==
  /\ registered = {}
  /\ owner = [a \in Addr |-> Nobody]
  /\ busy = [a \in Addr |-> FALSE]
  /\ allocated = {}
  /\ creator = [a \in Addr |-> Nobody]
  /\ generation = [a \in Addr |-> 0]
  /\ stack = [t \in Thread |-> <<>>]
  /\ answer = [t \in Thread |-> "none"]

-----------------------------------------------------------------------------
(* Creation *)

(* koss_create_*: the Box is allocated and the instance initialised. *)
Allocate(t, a) ==
  /\ HostCode(t)
  /\ a \notin allocated
  /\ generation[a] < MaxInstances
  /\ allocated' = allocated \cup {a}
  /\ creator' = [creator EXCEPT ![a] = t]
  /\ generation' = [generation EXCEPT ![a] = @ + 1]
  /\ Push(t, [addr |-> a, gen |-> generation[a] + 1, phase |-> "creating"])
  /\ UNCHANGED <<registryVars, answer>>

(* register_api_instance, then the pointer is returned to the host. *)
Register(t, a) ==
  /\ Doing(t, "creating", a)
  /\ registered' = registered \cup {a}
  /\ owner' = [owner EXCEPT ![a] = t]
  /\ busy' = [busy EXCEPT ![a] = FALSE]
  /\ Pop(t)
  /\ UNCHANGED <<heapVars, answer>>

-----------------------------------------------------------------------------
(* Entering and leaving a call *)

(* Mistakes: a test of enter_api is missing. *)
EnterResultNoBusyTest(t, a) ==
  IF a \notin registered THEN "invalid"
  ELSE IF owner[a] # t THEN "non_owner"
  ELSE "ok"

EnterResultNoOwnerTest(t, a) ==
  IF a \notin registered THEN "invalid"
  ELSE IF busy[a] THEN "busy"
  ELSE "ok"

(* What enter_api answers to t for address a, in the order it tests. *)
EnterResult(t, a) ==
  IF a \notin registered THEN "invalid"
  ELSE IF owner[a] # t THEN "non_owner"
  ELSE IF busy[a] THEN "busy"
  ELSE "ok"

(* The function runs with the guard (phase says which function it is). *)
Enter(t, a, phase) ==
  /\ HostCode(t)
  /\ EnterResult(t, a) = "ok"
  /\ busy' = [busy EXCEPT ![a] = TRUE]
  /\ answer' = [answer EXCEPT ![t] = "ok"]
  /\ Push(t, NewFrame(a, phase))
  /\ UNCHANGED <<registered, owner, heapVars>>

(* Mistake: `let _ = api_guard_result!(ptr)` drops the guard at once. *)
CallWithoutHolding(t, a) ==
  /\ HostCode(t)
  /\ EnterResult(t, a) = "ok"
  /\ answer' = [answer EXCEPT ![t] = "ok"]
  /\ Push(t, NewFrame(a, "running"))
  /\ UNCHANGED <<registryVars, heapVars>>

Call(t, a) == Enter(t, a, "running")
Destroy(t, a) == Enter(t, a, "destroying")

(* The function returns its error (koss_destroy: returns) at once. *)
Reject(t, a) ==
  /\ HostCode(t)
  /\ EnterResult(t, a) # "ok"
  /\ answer' = [answer EXCEPT ![t] = EnterResult(t, a)]
  /\ UNCHANGED <<registryVars, heapVars, stack>>

(* ApiGuard::drop: the flag is cleared if the key is still registered. *)
DropGuard(a) ==
  busy' = [busy EXCEPT ![a] = IF a \in registered THEN FALSE ELSE @]

Return(t, a) ==
  /\ Doing(t, "running", a)
  /\ DropGuard(a)
  /\ Pop(t)
  /\ UNCHANGED <<registered, owner, heapVars, answer>>

-----------------------------------------------------------------------------
(* koss_destroy, once it has the guard *)

Unregister(t, a) ==
  /\ Doing(t, "destroying", a)
  /\ registered' = registered \ {a}
  /\ stack' = [stack EXCEPT ![t][Len(stack[t])].phase = "freeing"]
  /\ UNCHANGED <<owner, busy, heapVars, answer>>

FreeBox(t, a) ==
  /\ Doing(t, "freeing", a)
  /\ allocated' = allocated \ {a}
  /\ stack' = [stack EXCEPT ![t][Len(stack[t])].phase = "freed"]
  /\ UNCHANGED <<registryVars, creator, generation, answer>>

(* Mistakes: the guard is not forgotten; the entry is removed at the end. *)
DestroyReturnDropsGuard(t, a) ==
  /\ Doing(t, "freed", a)
  /\ DropGuard(a)
  /\ Pop(t)
  /\ UNCHANGED <<registered, owner, heapVars, answer>>

DestroyReturnUnregisters(t, a) ==
  /\ Doing(t, "freed", a)
  /\ registered' = registered \ {a}
  /\ Pop(t)
  /\ UNCHANGED <<owner, busy, heapVars, answer>>

(* mem::forget(guard): leaving koss_destroy runs no ApiGuard::drop.  By now *)
(* the address may belong to another instance.                             *)
DestroyReturn(t, a) ==
  /\ Doing(t, "freed", a)
  /\ Pop(t)
  /\ UNCHANGED <<registryVars, heapVars, answer>>

Next ==
  \E t \in Thread, a \in Addr :
    \/ Allocate(t, a)
    \/ Register(t, a)
    \/ Call(t, a)
    \/ Destroy(t, a)
    \/ Reject(t, a)
    \/ Return(t, a)
    \/ Unregister(t, a)
    \/ FreeBox(t, a)
    \/ DestroyReturn(t, a)

Spec == Init /\ [][Next]_vars

-----------------------------------------------------------------------------
(* Properties *)

(* The positions of the frames that hold the instance they name. *)
Using(t) == {i \in 1 .. Len(stack[t]) : stack[t][i].phase # "freed"}
At(t, i) == stack[t][i]

(* The phases in which a function of the API has the guard. *)
Guarded == {"running", "destroying"}

(* t executes a function of the API in the instance at a ... *)
Inside(t, a) ==
  \E i \in Using(t) : At(t, i).addr = a /\ At(t, i).phase \in Guarded

(* ... or creates or destroys it, outside the guard. *)
Moving(t, a) ==
  \E i \in Using(t) : At(t, i).addr = a /\ At(t, i).phase \notin Guarded

(***************************************************************************)
(* No two calls in progress, of one thread or of two, hold a reference to  *)
(* the same instance: every function makes a `&mut *ptr` that lives until  *)
(* it returns, so a nested or concurrent entry would alias it.             *)
(***************************************************************************)
NoAliasing ==
  \A t, u \in Thread : \A i \in Using(t), j \in Using(u) :
    At(t, i).addr = At(u, j).addr => t = u /\ i = j

(***************************************************************************)
(* A call in progress runs in the very instance it entered, not freed, not *)
(* replaced by another at the same address, and on the thread that created *)
(* it (the Boa context is full of Rc and RefCell and must stay there).     *)
(***************************************************************************)
NoUseAfterFree ==
  \A t \in Thread : \A i \in Using(t) :
    /\ At(t, i).addr \in allocated
    /\ At(t, i).gen = generation[At(t, i).addr]
    /\ creator[At(t, i).addr] = t

(***************************************************************************)
(* The busy flag of a registered instance is up exactly while a call is in *)
(* it: a flag left up would lock the owner out for ever, a flag cleared    *)
(* early (by the guard of a destroyed instance that had the same address)  *)
(* would let a nested call in.                                             *)
(***************************************************************************)
BusyExact ==
  \A a \in registered : busy[a] <=> \E t \in Thread : Inside(t, a)

(***************************************************************************)
(* An instance the host was given, and has not begun to destroy, is in the *)
(* registry under its creator: no destruction of an earlier instance at    *)
(* the same address removes its entry.                                     *)
(***************************************************************************)
InTransit(a) == \E t \in Thread : Moving(t, a)

LiveIsRegistered ==
  \A a \in allocated : InTransit(a) \/ (a \in registered /\ owner[a] = creator[a])

-----------------------------------------------------------------------------
(***************************************************************************)
(* The inductive invariant behind the properties.  The properties do not   *)
(* say what a frame's phase implies for the registry, and without that a   *)
(* step of koss_destroy could meet a registry of any shape.                *)
(***************************************************************************)
FrameAgrees(t, frame) ==
  /\ frame.addr \in allocated
  /\ frame.gen = generation[frame.addr]
  /\ creator[frame.addr] = t
  /\ frame.phase \in Guarded => frame.addr \in registered /\ busy[frame.addr]
  /\ frame.phase \notin Guarded => frame.addr \notin registered

FramesAgree == \A t \in Thread : \A i \in Using(t) : FrameAgrees(t, At(t, i))

EntryAgrees(a) ==
  /\ a \in allocated
  /\ owner[a] = creator[a]
  /\ busy[a] => \E t \in Thread : Inside(t, a)

RegistryAgrees == \A a \in registered : EntryAgrees(a)

IInv ==
  /\ TypeOK
  /\ NoAliasing
  /\ FramesAgree
  /\ RegistryAgrees
  /\ LiveIsRegistered

-----------------------------------------------------------------------------
(***************************************************************************)
(* The refinement: who owns and who is inside is read off the heap and the *)
(* stacks, not off the registry, so that the mapping says the registry     *)
(* tells the truth.                                                        *)
(***************************************************************************)
Published(a) == a \in allocated /\ ~InTransit(a)

absOwner == [a \in Addr |-> IF Published(a) THEN creator[a] ELSE Nobody]
absInside ==
  [a \in Addr |-> IF \E t \in Thread : Inside(t, a)
                   THEN CHOOSE t \in Thread : Inside(t, a)
                   ELSE Nobody]
absVerdict ==
  [t \in Thread |-> IF answer[t] = "none" THEN "none"
                    ELSE IF answer[t] = "ok" THEN "admitted" ELSE "refused"]

Exclusive ==
  INSTANCE ExclusiveAccess
    WITH owner <- absOwner, inside <- absInside, verdict <- absVerdict

(* The registry implements exclusive access by the owner: every step is a  *)
(* step of ExclusiveAccess or changes nothing it can see; in particular a  *)
(* call is refused only when its instance is gone, foreign or in use.      *)
ImplementsExclusiveAccess == Exclusive!Spec

=============================================================================
