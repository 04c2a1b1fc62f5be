----------------------------- MODULE FfiStructs -----------------------------
(***************************************************************************)
(* Structures of src/src/_senri_ffi/struct_def.rs: compute_struct_layout   *)
(* places the fields one after the other, and an instance keeps them in a  *)
(* buffer that its accessors, and the Pointer of toPointer, read and write. *)
(***************************************************************************)
EXTENDS FfiTypes, SequencesExt

CONSTANTS
  FieldLists, \* the declarations tried: sequences of type names
  Packings,   \* the values of the option `packed` tried
  NoPacking,  \* ... and its absence
  Inputs,     \* the values written
  MaxKept     \* bound: C strings one instance keeps

VARIABLES
  fields,   \* the declaration
  packing,  \* packed
  stage,    \* "layout" while fields are placed, then "ready", or "panicked"
  offsets,  \* where the fields placed so far begin
  cursor,   \* current_offset
  align,    \* max_align
  size,     \* total_size
  made,     \* there is an instance
  buffer,   \* its buffer
  kept,     \* its cstrings, oldest first
  written   \* written[k]: what was last written to field k; Undefined at first

layoutVars == <<fields, packing, stage, offsets, cursor, align, size>>
instanceVars == <<made, buffer, kept, written>>
vars == <<layoutVars, instanceVars>>

Field == DOMAIN fields
Byte == 0 .. ByteValues - 1

TypeOK ==
  /\ fields \in FieldLists
  /\ packing \in Packings \cup {NoPacking}
  /\ stage \in {"layout", "ready", "panicked"}
  /\ offsets \in Seq(Nat) /\ Len(offsets) <= Len(fields)
  /\ cursor \in Nat /\ align \in Nat /\ size \in Nat
  /\ made \in BOOLEAN
  /\ buffer \in [0 .. size - 1 -> Byte]
  /\ kept \in Seq(Inputs)
  /\ DOMAIN written = Field

Init ==
  /\ fields \in FieldLists
  /\ packing \in Packings \cup {NoPacking}
  /\ stage = "layout"
  /\ offsets = <<>> /\ cursor = 0 /\ align = 1 /\ size = 0
  /\ made = FALSE /\ buffer = [i \in 0 .. -1 |-> 0] /\ kept = <<>>
  /\ written = [k \in Field |-> Undefined]

-----------------------------------------------------------------------------
(* ffi.struct *)

RoundUp(n, a) == IF n % a = 0 THEN n ELSE ((n + a - 1) \div a) * a

(* Mistake: rounded down. *)
RoundUpDown(n, a) == (n \div a) * a

FieldAlign(t) ==
  IF packing = NoPacking \/ Alignment[t] < packing THEN Alignment[t] ELSE packing

(* The next field: packed structures have no padding at all. *)
Place ==
  /\ stage = "layout" /\ Len(offsets) < Len(fields)
  /\ LET t == fields[Len(offsets) + 1]
         at == IF packing = NoPacking THEN RoundUp(cursor, FieldAlign(t)) ELSE cursor
     IN /\ FieldAlign(t) # 0
        /\ offsets' = Append(offsets, at)
        /\ cursor' = at + Size[t]
        /\ align' = IF align < FieldAlign(t) THEN FieldAlign(t) ELSE align
  /\ UNCHANGED <<fields, packing, stage, size, instanceVars>>

(* packed: 0 divides by zero at the first field. *)
Panic ==
  /\ stage = "layout" /\ Len(offsets) < Len(fields)
  /\ FieldAlign(fields[Len(offsets) + 1]) = 0
  /\ stage' = "panicked"
  /\ UNCHANGED <<fields, packing, offsets, cursor, align, size, instanceVars>>

Finish ==
  /\ stage = "layout" /\ Len(offsets) = Len(fields)
  /\ stage' = "ready"
  /\ size' = IF packing = NoPacking THEN RoundUp(cursor, align) ELSE cursor
  /\ buffer' = [i \in 0 .. size' - 1 |-> 0]
  /\ UNCHANGED <<fields, packing, offsets, cursor, align, made, kept, written>>

-----------------------------------------------------------------------------
(* Instances *)

(* A copy of bytes into the buffer. *)
Overlay(buf, at, bytes) ==
  [i \in DOMAIN buf |-> IF i - at \in DOMAIN bytes THEN bytes[i - at] ELSE buf[i]]

(* Mistake: a C string is dropped at the end of the write. *)
KeepNone(strings, t, v) == strings

Keep(strings, t, v) == IF t = "cstring" /\ Is(v, "string") THEN Append(strings, v) ELSE strings

(* The constructor writes the fields its argument has, in the order of the *)
(* declaration; one that throws leaves no instance.                        *)
Construct(init) ==
  /\ stage = "ready" /\ ~made
  /\ \A k \in DOMAIN init : Ok(FieldBytes(fields[k], init[k]))
  /\ made' = TRUE
  /\ LET write(buf, k) ==
           IF k \in DOMAIN init THEN Overlay(buf, offsets[k], FieldBytes(fields[k], init[k])[2]) ELSE buf
         keep(strings, k) ==
           IF k \in DOMAIN init THEN Keep(strings, fields[k], init[k]) ELSE strings
     IN /\ buffer' = FoldLeft(write, [i \in 0 .. size - 1 |-> 0], [k \in Field |-> k])
        /\ kept' = FoldLeft(keep, <<>>, [k \in Field |-> k])
  /\ written' = [k \in Field |-> IF k \in DOMAIN init THEN init[k] ELSE Undefined]
  /\ UNCHANGED layoutVars

(* A setter; one that throws changes nothing. *)
Set(k, v) ==
  /\ made /\ k \in Field
  /\ Ok(FieldBytes(fields[k], v))
  /\ Len(Keep(kept, fields[k], v)) <= MaxKept
  /\ buffer' = Overlay(buffer, offsets[k], FieldBytes(fields[k], v)[2])
  /\ kept' = Keep(kept, fields[k], v)
  /\ written' = [written EXCEPT ![k] = v]
  /\ UNCHANGED <<layoutVars, made>>

(* toPointer().writeX(offset, v) with the type and the offset of a field. *)
Store(k, v) ==
  /\ made /\ k \in Field
  /\ fields[k] # "cstring"
  /\ Ok(StoreBytes(fields[k], v))
  /\ buffer' = Overlay(buffer, offsets[k], StoreBytes(fields[k], v)[2])
  /\ written' = [written EXCEPT ![k] = v]
  /\ UNCHANGED <<layoutVars, made, kept>>

(* The getter of a field, and toPointer().readX(offset) of its type. *)
BytesOf(k) == [i \in 0 .. Size[fields[k]] - 1 |-> buffer[offsets[k] + i]]
Get(k) == FieldValue(fields[k], BytesOf(k))
Load(k) == Peek(fields[k], BytesOf(k))

Next ==
  \/ Place \/ Panic \/ Finish
  \/ \E ks \in SUBSET Field : \E init \in [ks -> Inputs] : Construct(init)
  \/ \E k \in Field, v \in Inputs : Set(k, v) \/ Store(k, v)

Spec == Init /\ [][Next]_vars

-----------------------------------------------------------------------------
(* Properties *)

(* The offsets of the C compiler, by their definition. *)
IsNaturalOffset(k) ==
  LET end == IF k = 1 THEN 0 ELSE offsets[k - 1] + Size[fields[k - 1]]
      a == Alignment[fields[k]]
  IN offsets[k] % a = 0 /\ offsets[k] >= end /\ offsets[k] < end + a

(***************************************************************************)
(* The code and libffi, which has only the types of the fields and places  *)
(* them by the rules of C, agree on every structure that is not packed:    *)
(* the padding of each field and the end is the least the alignments ask   *)
(* for.                                                                    *)
(***************************************************************************)
LayoutIsNatural ==
  packing = NoPacking =>
    /\ \A k \in DOMAIN offsets : IsNaturalOffset(k)
    /\ stage = "ready" => size % align = 0 /\ size >= cursor /\ size < cursor + align

(***************************************************************************)
(* The fields placed so far lie one after the other before the cursor, and *)
(* the whole structure holds them: no write to a field reaches another     *)
(* field or leaves the buffer.                                             *)
(***************************************************************************)
FieldsDoNotOverlap ==
  /\ \A j, k \in DOMAIN offsets : j < k => offsets[j] + Size[fields[j]] <= offsets[k]
  /\ \A k \in DOMAIN offsets : offsets[k] + Size[fields[k]] <= cursor
  /\ stage = "ready" => cursor <= size

(***************************************************************************)
(* Every field reads as what was last written to it, through its accessor  *)
(* or through a pointer, whatever was written to the others; and a string  *)
(* it points to is kept by the instance.                                   *)
(***************************************************************************)
FieldsKeepTheirValues ==
  made => \A k \in Field :
    /\ Get(k) = Represented(fields[k], written[k])
    /\ fields[k] # "cstring" => Load(k) = Get(k)
    /\ Is(Get(k), "string") => Get(k) \in ToSet(kept)
=============================================================================
