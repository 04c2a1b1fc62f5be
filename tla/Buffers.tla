------------------------------- MODULE Buffers -------------------------------
(***************************************************************************)
(* The Buffer of koss:buffer (src/src/js_shims/koss_shim/buffer.js): an    *)
(* array of bytes and a length kept beside it, numbers of one, two, four   *)
(* and eight bytes in both orders, the operations that edit and search,    *)
(* and Blob, a list of parts.                                              *)
(*                                                                         *)
(* A byte is 0 .. Base - 1 (256 in the code), so that eight of them stay   *)
(* within the integers of the checker.  An index that is left out equals   *)
(* the one the code puts in its place.                                     *)
(***************************************************************************)
EXTENDS Integers, Sequences, SequencesExt

CONSTANTS
  Base,     \* the values of a byte; even
  Samples,  \* the byte sequences buffers are made of
  Width,    \* the widths of numbers
  Number,   \* the numbers written
  Index,    \* the indices and offsets given, some negative, some too large
  MaxOps    \* bound: operations on the buffer

VARIABLES
  data,     \* its bytes
  length,   \* its length
  other,    \* another buffer, the source or target of some operations
  last,     \* history: the last operation, with its arguments and answer
  ops

vars == <<data, length, other, last, ops>>

Byte == 0 .. Base - 1
Order == {"LE", "BE"}
Answer(name, args, given, before) ==
  [name |-> name, args |-> args, given |-> given, before |-> before]

TypeOK ==
  /\ data \in Seq(Byte) /\ other \in Seq(Byte)
  /\ length \in Nat
  /\ ops \in 0 .. MaxOps

(* A buffer made of bytes copies them.                                     *)
Start(bytes, others) ==
  /\ data = bytes /\ other = others
  /\ length = Len(bytes)
  /\ last = Answer("new", <<>>, 0, bytes)
  /\ ops = 0

Init == \E bytes, others \in Samples : Start(bytes, others)

-----------------------------------------------------------------------------
Least(m, n) == IF m < n THEN m ELSE n
Most(m, n) == IF m > n THEN m ELSE n

(* A negative index counts from the end.                                   *)
FromEnd(i, len) == IF i < 0 THEN Most(0, len + i) ELSE i

(* Typed arrays: subarray clamps its bounds and counts negative ones from  *)
(* the end; set throws when the source does not fit; a write outside is    *)
(* ignored and a byte outside is undefined, 0 to the bit operations.       *)
Subarray(d, s, e) == SubSeq(d, FromEnd(s, Len(d)) + 1, Least(FromEnd(e, Len(d)), Len(d)))
Fits(d, src, at) == at >= 0 /\ at + Len(src) <= Len(d)
SetAt(d, src, at) ==
  [i \in DOMAIN d |-> IF i - at \in DOMAIN src THEN src[i - at] ELSE d[i]]
Zeros(n) == [i \in 1 .. n |-> 0]
ByteAt(d, at) == IF at + 1 \in DOMAIN d THEN d[at + 1] ELSE 0

-----------------------------------------------------------------------------
(* Mistake: the order of four bytes and more is that of the machine.       *)
DigitsOfMachine(order, n, v) ==
  LET u == v % Base ^ n
      lowFirst == [i \in 1 .. n |-> (u \div Base ^ (i - 1)) % Base]
  IN IF order = "LE" \/ n > 2 THEN lowFirst ELSE Reverse(lowFirst)

(* A number of n bytes, negative ones as their complement.                 *)
Digits(order, n, v) ==
  LET u == v % Base ^ n
      lowFirst == [i \in 1 .. n |-> (u \div Base ^ (i - 1)) % Base]
  IN IF order = "LE" THEN lowFirst ELSE Reverse(lowFirst)

ReadUInt(d, order, n, at) ==
  LET digit(i) == ByteAt(d, IF order = "LE" THEN at + i ELSE at + n - 1 - i)
  IN FoldLeft(LAMBDA sum, i : sum + digit(i - 1) * Base ^ (i - 1), 0, [i \in 1 .. n |-> i])

ReadInt(d, order, n, at) ==
  LET u == ReadUInt(d, order, n, at)
  IN IF u >= Base ^ n \div 2 THEN u - Base ^ n ELSE u

InRange(n, at) == at >= 0 /\ at + n <= length

Did(name, args, given) ==
  /\ ops < MaxOps
  /\ ops' = ops + 1
  /\ last' = Answer(name, args, given, data)

(* writeUInt8 to writeBigInt64BE, and the floating numbers, whose bits are *)
(* the number here; with noAssert nothing is checked.                      *)
WriteNumber(order, n, v, at, noAssert) ==
  /\ noAssert \/ InRange(n, at)
  /\ data' = SetAt(data, Digits(order, n, v), at)
  /\ Did("number", <<order, n, v, at>>, at + n)
  /\ UNCHANGED <<length, other>>

(* It throws, and nothing is written.                                      *)
RefuseNumber(n, at) ==
  /\ ~InRange(n, at)
  /\ Did("refused", <<n, at>>, 0)
  /\ UNCHANGED <<data, length, other>>

-----------------------------------------------------------------------------
(* slice, and subarray alike: a copy, zeros past the end included.         *)
Sliced(d, len, start, end) ==
  LET s == FromEnd(start, len)
      n == Most(0, FromEnd(end, len) - s)
  IN IF s >= len THEN <<>> ELSE SetAt(Zeros(n), Subarray(d, s, s + n), 0)

Slice(s, e) ==
  /\ other' = Sliced(data, length, s, e)
  /\ Did("slice", <<s, e>>, 0)
  /\ UNCHANGED <<data, length>>

(* copy from the other buffer: what fits; an answer of 0 copies nothing.   *)
Copy(to, start, end) ==
  LET t == FromEnd(to, length)
      s == FromEnd(start, Len(other))
      n == Least(FromEnd(end, Len(other)) - s, length - t)
      src == Subarray(other, s, s + n)
  IN /\ n > 0 => Fits(data, src, t)
     /\ data' = IF n <= 0 THEN data ELSE SetAt(data, src, t)
     /\ Did("copy", <<to, start, end>>, Most(0, n))
     /\ UNCHANGED <<length, other>>

(* fill with the bytes of a number, a string or another buffer, over and   *)
(* over.                                                                   *)
Fill(src, start, end) ==
  LET s == FromEnd(start, length)
      e == FromEnd(end, length)
  IN /\ data' = IF s >= length THEN data
                ELSE [i \in DOMAIN data |->
                        IF i - 1 \in s .. e - 1 /\ src # <<>>
                        THEN src[((i - 1 - s) % Len(src)) + 1]
                        ELSE IF i - 1 \in s .. e - 1 THEN 0 ELSE data[i]]
     /\ Did("fill", <<src, start, end>>, 0)
     /\ UNCHANGED <<length, other>>

(* write: as much as the length given allows, all or nothing.              *)
Write(src, offset, len) ==
  LET at == Most(0, offset)
      written == Subarray(src, 0, Least(Len(src), len))
  IN /\ at < length => Fits(data, written, at)
     /\ data' = IF at >= length THEN data ELSE SetAt(data, written, at)
     /\ Did("write", <<src, offset, len>>, IF at >= length THEN 0 ELSE Len(written))
     /\ UNCHANGED <<length, other>>

(* copyWithin goes through a temporary array of the length asked for, of   *)
(* zeros where the source ended.                                           *)
CopyWithin(target, start, end) ==
  LET t == FromEnd(target, length)
      s == FromEnd(start, length)
      n == FromEnd(end, length) - s
      temp == SetAt(Zeros(n), Subarray(data, s, s + n), 0)
      src == Subarray(temp, 0, Least(n, length - t))
  IN /\ n >= 0 /\ Fits(data, src, t)
     /\ data' = SetAt(data, src, t)
     /\ Did("copyWithin", <<target, start, end>>, 0)
     /\ UNCHANGED <<length, other>>

ReverseBytes ==
  /\ data' = [i \in DOMAIN data |-> IF i <= length THEN ByteAt(data, length - i) ELSE data[i]]
  /\ Did("reverse", <<>>, 0)
  /\ UNCHANGED <<length, other>>

(* swap16, swap32 and swap64: what is left over stays.                     *)
Swap(n) ==
  LET whole == (length \div n) * n
  IN /\ data' = [i \in DOMAIN data |->
                   IF i <= whole
                   THEN ByteAt(data, ((i - 1) \div n) * n + n - 1 - ((i - 1) % n)) ELSE data[i]]
     /\ Did("swap", <<n>>, 0)
     /\ UNCHANGED <<length, other>>

(* Mistake: the bytes of an item are not cut to what is left.              *)
ConcatUncut(list, total) ==
  LET all == FlattenSeq(list)
  IN [data |-> all \o Zeros(total - Len(all)), length |-> Len(all)]

(* concat into a new buffer: items are cut to what is left of the total,   *)
(* and the length is the sum of the items that were reached, cut or not.   *)
Concat(list, total) ==
  LET all == FlattenSeq(list)
      upTo(k) == Len(FlattenSeq(SubSeq(list, 1, k)))
      reached == {k \in 1 .. Len(list) : \A m \in 1 .. k - 1 : upTo(m) < total}
  IN [data |-> Subarray(all, 0, total) \o Zeros(total - Len(all)),
      length |-> upTo(CHOOSE k \in reached : \A m \in reached : m <= k)]

ConcatBoth(total) ==
  /\ data' = Concat(<<data, other>>, total).data
  /\ length' = Concat(<<data, other>>, total).length
  /\ Did("concat", <<total>>, 0)
  /\ UNCHANGED other

Next ==
  \/ \E n \in Width, at \in Index :
       \/ RefuseNumber(n, at)
       \/ \E order \in Order, v \in Number, noAssert \in BOOLEAN :
            WriteNumber(order, n, v, at, noAssert)
  \/ \E s, e \in Index :
       \/ Slice(s, e) \/ Fill(other, s, e) \/ Write(other, s, e)
       \/ \E t \in Index : Copy(t, s, e) \/ CopyWithin(t, s, e)
  \/ ReverseBytes
  \/ \E n \in Width \ {1} : Swap(n)
  \/ \E total \in Index \cup {length + Len(other)} : total >= 0 /\ ConcatBoth(total)

Spec == Init /\ [][Next]_vars

-----------------------------------------------------------------------------
(* Searching: the first place at or after an offset, the last one at or    *)
(* before it; an empty needle is found where the search begins.  Offsets   *)
(* are counted by the length kept beside the bytes, which after a concat   *)
(* need not be theirs; the search itself goes over the bytes.              *)
MatchesAt(hay, needle, at) == \A j \in 1 .. Len(needle) : hay[at + j] = needle[j]

IndexOf(hay, len, needle, offset) ==
  LET off == FromEnd(offset, len)
      Scan[i \in off .. Len(hay) + 1] ==
        IF i > Len(hay) - Len(needle) THEN -1
        ELSE IF MatchesAt(hay, needle, i) THEN i ELSE Scan[i + 1]
  IN IF needle = <<>> THEN off ELSE IF off > Len(hay) THEN -1 ELSE Scan[off]

LastIndexOf(hay, len, needle, offset) ==
  LET off == Least(FromEnd(offset, len), len - 1)
      Scan[i \in -1 .. Len(hay)] ==
        IF i < 0 THEN -1 ELSE IF MatchesAt(hay, needle, i) THEN i ELSE Scan[i - 1]
  IN IF needle = <<>> THEN off ELSE Scan[Most(-1, Least(off, Len(hay) - Len(needle)))]

(* compare: the first byte that differs, then the lengths.                 *)
Compare(x, y) ==
  LET both == Least(Len(x), Len(y))
      differ == {i \in 1 .. both : x[i] # y[i]}
      first == CHOOSE i \in differ : \A j \in differ : i <= j
  IN IF differ # {} THEN (IF x[first] < y[first] THEN -1 ELSE 1)
     ELSE IF Len(x) < Len(y) THEN -1 ELSE IF Len(x) > Len(y) THEN 1 ELSE 0

(* Mistake: the bytes of both are compared, whatever the length.           *)
EqualsOfArrays(x, len, y) == Len(x) = Len(y) /\ \A i \in DOMAIN x : x[i] = y[i]

(* equals: the length kept beside this buffer against the bytes of the     *)
(* other, then the bytes up to it; a byte outside equals none.             *)
Equals(x, len, y) ==
  /\ len = Len(y)
  /\ \A i \in 1 .. len : i \in DOMAIN x /\ x[i] = y[i]

(* Blob.slice: of every part what lies between the bounds.                 *)
BlobSlice(parts, start, end) ==
  LET size == Len(FlattenSeq(parts))
      s == FromEnd(start, size)
      e == FromEnd(end, size)
      offset(i) == Len(FlattenSeq(SubSeq(parts, 1, i - 1)))
      piece(i) == IF s < offset(i) + Len(parts[i]) /\ e > offset(i)
                  THEN Subarray(parts[i], Most(0, s - offset(i)),
                                Least(Len(parts[i]), e - offset(i)))
                  ELSE <<>>
  IN SelectSeq([i \in DOMAIN parts |-> piece(i)], LAMBDA p : p # <<>>)

-----------------------------------------------------------------------------
(***************************************************************************)
(* A number is read back as it was written, modulo its width, whichever    *)
(* order; the other order reads its bytes reversed; the bytes beside it    *)
(* stay; and one that does not fit leaves every byte alone.                *)
(***************************************************************************)
NumbersReadBack ==
  /\ last.name = "number" =>
       LET order == last.args[1]
           n == last.args[2]
           v == last.args[3]
           at == last.args[4]
           opposite == IF order = "LE" THEN "BE" ELSE "LE"
       IN /\ Fits(data, Zeros(n), at) =>
               /\ ReadUInt(data, order, n, at) = v % Base ^ n
               /\ ReadInt(data, order, n, at) \in {v, (v % Base ^ n) - Base ^ n, v % Base ^ n}
               /\ v \in -(Base ^ n \div 2) .. Base ^ n \div 2 - 1 => ReadInt(data, order, n, at) = v
               /\ ReadUInt(data, opposite, n, at)
                    = ReadUInt(Reverse(data), order, n, Len(data) - at - n)
          /\ \A i \in DOMAIN data : i \notin at + 1 .. at + n => data[i] = last.before[i]
  /\ last.name = "refused" => data = last.before

(***************************************************************************)
(* The length is that of the bytes, unless concat was given a total that   *)
(* is not the sum; and no operation but concat changes how many there are. *)
(***************************************************************************)
LengthsAgree ==
  /\ last.name # "concat" => Len(data) = Len(last.before)
  /\ last.name = "concat" =>
       /\ Len(data) = last.args[1]
       /\ last.args[1] = Len(last.before) + Len(other) => length = Len(data)

(***************************************************************************)
(* A search agrees with its definition, though it counts its offset by one *)
(* length and looks at bytes of another: it finds a match, and there is    *)
(* none between it and the offset.  compare is antisymmetric; equals takes *)
(* the length for granted, so it follows compare while the two lengths     *)
(* agree, and otherwise says of the beginning what it should of the whole. *)
(***************************************************************************)
Matches(at) == Fits(data, other, at) /\ Subarray(data, at, at + Len(other)) = other

SearchesAgree ==
  /\ other # <<>> => \A off \in Index :
       LET after == {i \in FromEnd(off, length) .. Len(data) : Matches(i)}
           before == {i \in 0 .. Least(FromEnd(off, length), length - 1) : Matches(i)}
           first == IndexOf(data, length, other, off)
           latest == LastIndexOf(data, length, other, off)
       IN /\ first \in after \cup {-1} /\ (first = -1 => after = {})
          /\ \A i \in after : first <= i
          /\ latest \in before \cup {-1} /\ \A i \in before : latest >= i
  /\ Compare(data, other) = -Compare(other, data)
  /\ Equals(data, length, other) => length = Len(other) /\ Compare(data, other) >= 0
  /\ length = Len(data) => (Compare(data, other) = 0 <=> Equals(data, length, other))

(***************************************************************************)
(* A slice of a blob holds the bytes the slice of its bytes would, and so  *)
(* does a slice of a buffer that ends within its bounds.                   *)
(***************************************************************************)
SlicesAgree ==
  /\ \A s, e \in Index :
       LET all == data \o other
       IN FlattenSeq(BlobSlice(<<data, other>>, s, e)) = Subarray(all, s, e)
  /\ last.name = "slice" =>
       LET s == FromEnd(last.args[1], length)
           e == FromEnd(last.args[2], length)
       IN e <= length /\ e <= Len(data) => other = SubSeq(data, s + 1, e)
=============================================================================
