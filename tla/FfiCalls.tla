------------------------------ MODULE FfiCalls ------------------------------
(***************************************************************************)
(* The way of a script's arguments to a native function, with the          *)
(* functions _senri_ffi's libraries make: func (library.rs, call.rs) and   *)
(* funcAsync (mod.rs).  Which calls run when is the subject of EventLoop.  *)
(***************************************************************************)
EXTENDS FfiTypes, SequencesExt

CONSTANTS
  Declarations, \* the parameter lists tried
  Arguments     \* the arguments tried

VARIABLES
  declared, \* the parameters given to func and to funcAsync
  passed,   \* the arguments of the last call
  plain,    \* what became of it through func
  async     \* ... and through funcAsync

vars == <<declared, passed, plain, async>>

Outcome == {"none", "called", "throws", "panics"}

TypeOK ==
  /\ declared \in Declarations
  /\ passed \in Seq(Arguments)
  /\ plain.outcome \in Outcome /\ async.outcome \in Outcome

Nothing == [outcome |-> "none", bytes |-> <<>>]

Init ==
  /\ declared \in Declarations
  /\ passed = <<>>
  /\ plain = Nothing /\ async = Nothing

-----------------------------------------------------------------------------
(* The declaration *)

(* Parameters before the last "..." are fixed; -1 if there is none. *)
Dots(parameters) == {i \in DOMAIN parameters : parameters[i] = "..."}
IsVariadic(parameters) == Dots(parameters) # {}
Fixed(parameters) == Max(Dots(parameters)) - 1

(* What is no type is left out. *)
Known(parameters) ==
  FoldLeft(LAMBDA known, t : IF t \in TypeName THEN Append(known, t) ELSE known, <<>>, parameters)

(* Mistake: one parameter too few is kept. *)
TypesCutShort(parameters) ==
  IF Len(Known(parameters)) > 1
  THEN SubSeq(Known(parameters), 1, Len(Known(parameters)) - 1) ELSE Known(parameters)

(* What follows the fixed parameters is cut off. *)
Types(parameters) ==
  IF IsVariadic(parameters) /\ Len(Known(parameters)) > Fixed(parameters)
  THEN SubSeq(Known(parameters), 1, Fixed(parameters))
  ELSE Known(parameters)

-----------------------------------------------------------------------------
(* The call *)

(* Before any argument is looked at: a plain function wants exactly its    *)
(* parameters, a variadic one at least the fixed.                          *)
ArityRefused(args) ==
  IF IsVariadic(declared) THEN Len(args) < Fixed(declared)
                          ELSE Len(args) # Len(Types(declared))

(* One argument of a plain call: its outcome and its bytes. *)
Converted(args, i) ==
  LET types == Types(declared)
      variable == IsVariadic(declared) /\ i > Fixed(declared)
  IN IF variable THEN [outcome |-> "called", bytes |-> VariadicBytes(args[i])]
     ELSE IF i > Len(types) THEN [outcome |-> "panics", bytes |-> <<>>]
     ELSE LET r == ArgumentBytes(types[i], args[i])
          IN IF Ok(r) THEN [outcome |-> "called", bytes |-> r[2]]
                      ELSE [outcome |-> "throws", bytes |-> <<>>]

(***************************************************************************)
(* invoke_ffi_call: the first argument that cannot be converted decides.   *)
(* libffi (external) takes exactly as many arguments as it was given types *)
(* and panics on others: the variable part of a call never arrives.        *)
(***************************************************************************)
InvokePlain(args) ==
  LET bad == {i \in DOMAIN args : Converted(args, i).outcome # "called"}
  IN IF ArityRefused(args) THEN [outcome |-> "throws", bytes |-> <<>>]
     ELSE IF bad # {} THEN Converted(args, Min(bad))
     ELSE IF Len(args) # Len(Types(declared)) THEN [outcome |-> "panics", bytes |-> <<>>]
     ELSE [outcome |-> "called", bytes |-> [i \in DOMAIN args |-> Converted(args, i).bytes]]

(* funcAsync's function: any number of arguments, missing ones undefined,  *)
(* those beyond the types left out.                                        *)
InvokeAsync(args) ==
  LET types == Types(declared)
      results == [i \in DOMAIN types |->
        AsyncArgumentBytes(types[i], IF i \in DOMAIN args THEN args[i] ELSE Undefined)]
  IN IF \E i \in DOMAIN types : ~Ok(results[i])
     THEN [outcome |-> "throws", bytes |-> <<>>]
     ELSE [outcome |-> "called", bytes |-> [i \in DOMAIN types |-> results[i][2]]]

(* One call is enough: a function keeps nothing from one to the next. *)
Call(args) ==
  /\ plain = Nothing
  /\ passed' = args
  /\ plain' = InvokePlain(args)
  /\ async' = InvokeAsync(args)
  /\ UNCHANGED declared

MaxArguments == 3
Next == \E n \in 0 .. MaxArguments : \E args \in [1 .. n -> Arguments] : Call(args)

Spec == Init /\ [][Next]_vars

-----------------------------------------------------------------------------
(* Properties *)

(***************************************************************************)
(* Two encoders for the same arguments: whatever call a function of func   *)
(* accepts, the function of funcAsync passes the same bytes to native      *)
(* code.  (Not the other way round: it accepts any number of arguments,    *)
(* and zeros for what is no number.)                                       *)
(***************************************************************************)
AsyncPassesTheSame ==
  plain.outcome = "called" => async = plain

(***************************************************************************)
(* A call that is made passes every argument, none of them moved, as the   *)
(* nearest value of the type declared for its place, if only types were    *)
(* declared: a native function that returns it gives it back.              *)
(***************************************************************************)
EveryArgumentArrives ==
  (plain.outcome = "called" /\ \A i \in DOMAIN declared : declared[i] \in TypeName) =>
    /\ Len(plain.bytes) = Len(declared)
    /\ \A i \in DOMAIN declared :
         CallResult(declared[i], plain.bytes[i]) = Represented(declared[i], passed[i])

(***************************************************************************)
(* And the value comes back the same when the native function hands it to  *)
(* a callback that returns it.                                             *)
(***************************************************************************)
CallbacksReturnWhatTheyGet ==
  (plain.outcome = "called" /\ Len(plain.bytes) = Len(Types(declared))) =>
    \A i \in DOMAIN plain.bytes :
      LET t == Types(declared)[i]
          argument == CallbackArgument(t, plain.bytes[i])
      IN Magnitude(Decode(t, plain.bytes[i])) <= Exact =>
           ResultBytes(t, argument) = plain.bytes[i]
=============================================================================
