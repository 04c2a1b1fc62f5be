------------------------------ MODULE FfiTypes ------------------------------
(***************************************************************************)
(* The primitive types of src/src/_senri_ffi and what becomes of a script's *)
(* value on its way into native memory and back.  The code has this five   *)
(* times: for the arguments of a call (call.rs), for those of an           *)
(* asynchronous call (mod.rs), for the fields of a structure               *)
(* (struct_def.rs), for pointers (pointer.rs) and for the result of a      *)
(* callback (callback.rs).  Each has an operator of its own here.          *)
(*                                                                         *)
(* Floating point types are left out.  Widths are those of the code, in    *)
(* bytes; a byte has ByteValues values instead of 256, which keeps 64-bit  *)
(* integers within the arithmetic of the checker.                          *)
(***************************************************************************)
EXTENDS Integers, FiniteSetsExt

CONSTANTS
  ByteValues, \* 256 in the code
  Exact       \* integers a script's number holds exactly: 2^53 in the code

Signed == {"int8", "int16", "int32", "int64"}
Unsigned == {"uint8", "uint16", "uint32", "uint64"}
Address == {"pointer", "cstring"}
TypeName == Signed \cup Unsigned \cup Address

(* sizeof; alignment() has the same table. *)
Size == [t \in TypeName |->
  IF t \in {"int8", "uint8"} THEN 1
  ELSE IF t \in {"int16", "uint16"} THEN 2
  ELSE IF t \in {"int32", "uint32"} THEN 4
  ELSE 8]
Alignment == Size

Limit(t) == ByteValues ^ Size[t]
Low(t) == IF t \in Signed THEN -(Limit(t) \div 2) ELSE 0
High(t) == IF t \in Signed THEN Limit(t) \div 2 - 1 ELSE Limit(t) - 1

-----------------------------------------------------------------------------
(* Script values: a number, NaN, undefined, null, a string, another object, *)
(* or a Pointer.  n is the number, the address, or which string it is; a   *)
(* string may have a NUL inside.                                           *)
Is(v, kind) == v.is = kind
Number(n) == [is |-> "number", n |-> n]
Nan == [is |-> "nan", n |-> 0]
Undefined == [is |-> "undefined", n |-> 0]
Null == [is |-> "null", n |-> 0]
Object == [is |-> "object", n |-> 0]
Pointer(a) == [is |-> "pointer", n |-> a]
String(s) == [is |-> "string", n |-> s]
NulString == [is |-> "nulstring", n |-> 0]

IsNumber(v) == Is(v, "number") \/ Is(v, "nan")
IsEmpty(v) == Is(v, "undefined") \/ Is(v, "null")
IsString(v) == Is(v, "string") \/ Is(v, "nulstring")

(* `n as i8` and its like: the nearest value of the type, 0 for NaN. *)
Cast(t, v) ==
  IF Is(v, "nan") THEN 0
  ELSE IF v.n < Low(t) THEN Low(t)
  ELSE IF v.n > High(t) THEN High(t)
  ELSE v.n

(* Mistake: the cast of C, which keeps the low bits. *)
CastWraps(t, v) == IF Is(v, "nan") THEN 0 ELSE v.n % Limit(t)

(* to_le_bytes and from_le_bytes, with two's complement. *)
Encode(t, n) == [i \in 0 .. Size[t] - 1 |-> ((n % Limit(t)) \div ByteValues ^ i) % ByteValues]

(* Mistake: the sign is not taken from the highest bit. *)
DecodeUnsigned(t, bytes) ==
  MapThenSumSet(LAMBDA i : bytes[i] * ByteValues ^ i, 0 .. Size[t] - 1)

Decode(t, bytes) ==
  LET u == MapThenSumSet(LAMBDA i : bytes[i] * ByteValues ^ i, 0 .. Size[t] - 1)
  IN IF u > High(t) THEN u - Limit(t) ELSE u

(* `as f64`: beyond Exact, rounded to a multiple of 2, then of 4, halves   *)
(* to the even multiple.                                                   *)
Magnitude(n) == IF n < 0 THEN -n ELSE n
AsF64(n) ==
  LET spacing == CHOOSE s \in {2 ^ k : k \in 0 .. 16} :
        /\ Magnitude(n) <= s * Exact
        /\ s = 1 \/ 2 * Magnitude(n) > s * Exact
      below == Magnitude(n) \div spacing
      rest == Magnitude(n) % spacing
      m == IF 2 * rest > spacing \/ (2 * rest = spacing /\ below % 2 = 1) THEN below + 1 ELSE below
  IN IF n < 0 THEN -(m * spacing) ELSE m * spacing

-----------------------------------------------------------------------------
(* The bytes of a value, <<FALSE>> if the operation throws.  A C string is *)
(* kept somewhere else and its address passed: string s is at address s.   *)

Bytes(b) == <<TRUE, b>>
Throws == <<FALSE>>
Ok(r) == r[1]

CString(v) ==
  IF IsEmpty(v) THEN Bytes(Encode("cstring", 0))
  ELSE IF Is(v, "string") THEN Bytes(Encode("cstring", v.n))
  ELSE Throws

(* js_to_buffer, with the C strings invoke_ffi_call keeps for the call. *)
ArgumentBytes(t, v) ==
  IF t = "cstring" THEN CString(v)
  ELSE IF IsNumber(v) THEN Bytes(Encode(t, Cast(t, v)))
  ELSE IF t = "pointer" /\ Is(v, "pointer") THEN Bytes(Encode(t, v.n))
  ELSE Throws

(* js_to_buffer of what follows the "..." of a variadic function. *)
VariadicBytes(v) ==
  IF IsNumber(v) THEN Encode("pointer", Cast("pointer", v))
  ELSE IF Is(v, "pointer") THEN Encode("pointer", v.n)
  ELSE Encode("pointer", 0)

(* serialize_owned_arg: what is no number passes as zero. *)
AsyncArgumentBytes(t, v) ==
  IF t = "cstring" THEN CString(v)
  ELSE IF IsNumber(v) THEN Bytes(Encode(t, Cast(t, v)))
  ELSE IF t = "pointer" /\ Is(v, "pointer") THEN Bytes(Encode(t, v.n))
  ELSE Bytes(Encode(t, 0))

(* Mistake: an error where the synchronous call has none. *)
AsyncArgumentBytesNumbersOnly(t, v) ==
  IF t = "cstring" THEN CString(v)
  ELSE IF IsNumber(v) THEN Bytes(Encode(t, Cast(t, v)))
  ELSE Bytes(Encode(t, 0))

(* write_to_buffer: strict with numbers, lenient with addresses. *)
FieldBytes(t, v) ==
  IF t = "cstring" THEN CString(v)
  ELSE IF IsNumber(v) THEN Bytes(Encode(t, Cast(t, v)))
  ELSE IF t = "pointer" THEN Bytes(Encode(t, IF Is(v, "pointer") THEN v.n ELSE 0))
  ELSE Throws

(* writeInt8 ... writeUint64, writePointer. *)
StoreBytes(t, v) ==
  IF IsNumber(v) THEN Bytes(Encode(t, Cast(t, v)))
  ELSE IF t = "pointer" /\ Is(v, "pointer") THEN Bytes(Encode(t, v.n))
  ELSE Throws

(* js_result_to_bytes: nothing a callback returns is an error. *)
ResultBytes(t, v) ==
  IF t = "cstring" THEN IF Is(v, "string") THEN Encode(t, v.n) ELSE Encode(t, 0)
  ELSE IF IsNumber(v) THEN Encode(t, Cast(t, v))
  ELSE IF t = "pointer" /\ Is(v, "pointer") THEN Encode(t, v.n)
  ELSE Encode(t, 0)

(* Integers and addresses become numbers, a C string the string, or null.  *)
Value(t, bytes) ==
  IF t = "cstring"
  THEN IF Decode(t, bytes) = 0 THEN Null ELSE String(Decode(t, bytes))
  ELSE Number(AsF64(Decode(t, bytes)))

(* There are four decoders too: of read_from_buffer, c_ptr_to_js, the      *)
(* results of calls, and readInt8 ... readPointer.                         *)
FieldValue(t, bytes) == Value(t, bytes)
CallbackArgument(t, bytes) == Value(t, bytes)
CallResult(t, bytes) == Value(t, bytes)
Peek(t, bytes) == Number(AsF64(Decode(t, bytes)))

-----------------------------------------------------------------------------
(* What a script should read of a value it wrote, by the definition of the *)
(* types: the nearest value there is, as a number.                         *)
Nearest(t, n) ==
  CHOOSE m \in Low(t) .. High(t) : \A x \in {n, Low(t), High(t)} :
    x \in Low(t) .. High(t) => Magnitude(n - m) <= Magnitude(n - x)
Represented(t, v) ==
  IF t = "cstring" THEN IF Is(v, "string") THEN v ELSE Null
  ELSE IF Is(v, "number") \/ Is(v, "pointer") THEN Number(AsF64(Nearest(t, v.n)))
  ELSE Number(0)
=============================================================================
