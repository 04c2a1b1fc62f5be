------------------------------- MODULE Codecs -------------------------------
(***************************************************************************)
(* The encodings of koss:buffer and koss:string_decoder                    *)
(* (src/src/js_shims/koss_shim/buffer.js, string_decoder.js): a string is  *)
(* a sequence of 16-bit code units, bytes are a sequence of 0 .. 255, and  *)
(* base64 and hex texts are sequences of digits, 64 for the padding.       *)
(*                                                                         *)
(* A byte read past the end is undefined, which the bit operations of the  *)
(* script take for 0.                                                      *)
(***************************************************************************)
EXTENDS Integers, Sequences, SequencesExt

At(s, i) == IF i \in DOMAIN s THEN s[i] ELSE 0

HighSurrogate(u) == u \in 55296 .. 56319

-----------------------------------------------------------------------------
(* A code unit, or a high surrogate and what follows it, as UTF-8.  A      *)
(* surrogate without its other half makes bytes that are no character.     *)
Utf8Of(cc, next) ==
  IF cc < 128 THEN <<cc>>
  ELSE IF cc < 2048 THEN <<192 + cc \div 64, 128 + (cc % 64)>>
  ELSE IF HighSurrogate(cc)
    THEN LET point == (cc - 55296) * 1024 + (next - 56320) + 65536
         IN <<240 + point \div 262144, 128 + ((point \div 4096) % 64),
              128 + ((point \div 64) % 64), 128 + (point % 64)>>
  ELSE <<224 + cc \div 4096, 128 + ((cc \div 64) % 64), 128 + (cc % 64)>>

Utf8Encode(units) ==
  LET From[i \in 1 .. Len(units) + 2] ==
        IF i > Len(units) THEN <<>>
        ELSE Utf8Of(units[i], At(units, i + 1))
               \o From[i + IF HighSurrogate(units[i]) THEN 2 ELSE 1]
  IN From[1]

(* How many bytes the decoder takes for a first byte (a continuation byte  *)
(* counts as one of two, a byte over 247 is skipped), and what they give.  *)
Taken(b) == CASE b < 128 -> 1 [] b \in 128 .. 223 -> 2 [] b \in 224 .. 239 -> 3
              [] b \in 240 .. 247 -> 4 [] OTHER -> 1

UnitsAt(bytes, i) ==
  LET first == bytes[i]
      rest(k) == At(bytes, i + k) % 64
      point == (first % 8) * 262144 + rest(1) * 4096 + rest(2) * 64 + rest(3)
  IN CASE first < 128 -> <<first>>
       [] first \in 128 .. 223 -> <<(first % 32) * 64 + rest(1)>>
       [] first \in 224 .. 239 -> <<(first % 16) * 4096 + rest(1) * 64 + rest(2)>>
       [] first \in 240 .. 247 ->
            IF point > 65535
            THEN <<55296 + (point - 65536) \div 1024, 56320 + ((point - 65536) % 1024)>>
            ELSE <<point>>
       [] OTHER -> <<>>

Utf8Decode(bytes) ==
  LET From[i \in 1 .. Len(bytes) + 4] ==
        IF i > Len(bytes) THEN <<>> ELSE UnitsAt(bytes, i) \o From[i + Taken(bytes[i])]
  IN From[1]

(* TextDecoder leaves out a byte order mark.                               *)
WithoutMark(bytes) ==
  IF IsPrefix(<<239, 187, 191>>, bytes) THEN SubSeq(bytes, 4, Len(bytes)) ELSE bytes

-----------------------------------------------------------------------------
Utf16leEncode(units) ==
  [i \in 1 .. 2 * Len(units) |->
     IF i % 2 = 1 THEN units[(i + 1) \div 2] % 256 ELSE units[i \div 2] \div 256]

(* An odd byte at the end is dropped.                                      *)
Utf16leDecode(bytes) ==
  [i \in 1 .. Len(bytes) \div 2 |-> bytes[2 * i - 1] + 256 * bytes[2 * i]]

(* A string of latin1 loses what is above its byte, one of ascii its high  *)
(* bit; decoding either leaves the byte alone.                             *)
Latin1Encode(units) == [i \in DOMAIN units |-> units[i] % 256]
AsciiEncode(units) == [i \in DOMAIN units |-> units[i] % 128]
BytesAsUnits(bytes) == bytes

-----------------------------------------------------------------------------
ToHex(bytes) ==
  [i \in 1 .. 2 * Len(bytes) |->
     IF i % 2 = 1 THEN bytes[(i + 1) \div 2] \div 16 ELSE bytes[i \div 2] % 16]

(* Half a byte at the end is dropped.                                      *)
FromHex(digits) == [i \in 1 .. Len(digits) \div 2 |-> 16 * digits[2 * i - 1] + digits[2 * i]]

Pad == 64

(* Three bytes, or what is left of them, as four digits.                   *)
FourOf(bytes, i) ==
  LET triple == bytes[i] * 65536 + At(bytes, i + 1) * 256 + At(bytes, i + 2)
  IN <<triple \div 262144, (triple \div 4096) % 64,
       IF i + 1 <= Len(bytes) THEN (triple \div 64) % 64 ELSE Pad,
       IF i + 2 <= Len(bytes) THEN triple % 64 ELSE Pad>>

ToBase64(bytes) ==
  FlattenSeq([k \in 1 .. (Len(bytes) + 2) \div 3 |-> FourOf(bytes, 3 * k - 2)])

(* base64url leaves the padding out.                                       *)
ToBase64Url(bytes) == SelectSeq(ToBase64(bytes), LAMBDA d : d # Pad)

(* Mistake: the first byte is always whole.                                *)
ThreeOfShifted(digits, i) ==
  LET d(k) == At(digits, i + k) % 64
      given(k) == i + k \notin DOMAIN digits \/ digits[i + k] # Pad
      triple == d(0) * 262144 + d(1) * 4096 + d(2) * 64 + d(3)
  IN <<triple \div 65536>> \o (IF given(2) THEN <<triple % 256>> ELSE <<>>)
       \o (IF given(3) THEN <<(triple \div 256) % 256>> ELSE <<>>)

(* Four digits give a byte each but the first, unless it is padding; one   *)
(* that is not there is none.                                              *)
ThreeOf(digits, i) ==
  LET d(k) == At(digits, i + k) % 64
      given(k) == i + k \notin DOMAIN digits \/ digits[i + k] # Pad
      triple == d(0) * 262144 + d(1) * 4096 + d(2) * 64 + d(3)
  IN <<triple \div 65536>> \o (IF given(2) THEN <<(triple \div 256) % 256>> ELSE <<>>)
       \o (IF given(3) THEN <<triple % 256>> ELSE <<>>)

(* The array has room for three bytes of four digits, and ignores more.    *)
FromBase64(digits) ==
  LET bytes == FlattenSeq([k \in 1 .. (Len(digits) + 3) \div 4 |-> ThreeOf(digits, 4 * k - 3)])
      room == (Len(digits) * 3) \div 4
  IN SubSeq(bytes, 1, IF Len(bytes) < room THEN Len(bytes) ELSE room)

-----------------------------------------------------------------------------
(* Buffer.byteLength: the length in UTF-8 but for base64, whose padding    *)
(* counts, and hex.                                                        *)
ByteLength(encoding, s) ==
  CASE encoding = "base64" -> (Len(s) * 3) \div 4
    [] encoding = "hex" -> Len(s) \div 2
    [] OTHER -> Len(Utf8Encode(s))

(* A string as bytes, and bytes as a string.                               *)
Encode(encoding, s) ==
  CASE encoding = "utf8" -> Utf8Encode(s)
    [] encoding = "utf16le" -> Utf16leEncode(s)
    [] encoding = "latin1" -> Latin1Encode(s)
    [] encoding = "ascii" -> AsciiEncode(s)
    [] encoding \in {"base64", "base64url"} -> FromBase64(s)
    [] encoding = "hex" -> FromHex(s)

ToText(encoding, bytes) ==
  CASE encoding = "utf8" -> Utf8Decode(bytes)
    [] encoding = "utf16le" -> Utf16leDecode(bytes)
    [] encoding \in {"latin1", "ascii"} -> BytesAsUnits(bytes)
    [] encoding = "base64" -> ToBase64(bytes)
    [] encoding = "base64url" -> ToBase64Url(bytes)
    [] encoding = "hex" -> ToHex(bytes)
=============================================================================
