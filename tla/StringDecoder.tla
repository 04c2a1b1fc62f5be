---------------------------- MODULE StringDecoder ----------------------------
(***************************************************************************)
(* The decoder of koss:string_decoder: bytes arrive in chunks that end     *)
(* anywhere, and the strings written out must join to the text of all.     *)
(***************************************************************************)
EXTENDS Codecs

CONSTANTS
  Text   \* the strings that arrive, as sequences of code units

VARIABLES
  encoding,   \* of the decoder
  input,      \* the bytes that have not arrived yet
  arrived,    \* history: the bytes written
  kept,       \* _bufferBytes: the beginning of a character, or <<>>
  lastNeed,   \* the bytes missing of it
  digits,     \* _buffer: digits of base64url that make no byte yet
  output,     \* the strings returned, joined
  inStep,     \* history: every chunk was of whole triples
  ended       \* end() was called

vars == <<encoding, input, arrived, kept, lastNeed, digits, output, inStep, ended>>

Encodings == {"utf8", "utf16le", "latin1", "base64", "base64url", "hex"}
Wide == {"utf8", "utf16le"}

TypeOK ==
  /\ encoding \in Encodings
  /\ Len(kept) < 4 /\ lastNeed \in 0 .. 3
  /\ Len(digits) < 4
  /\ inStep \in BOOLEAN /\ ended \in BOOLEAN

Start(enc, bytes) ==
  /\ encoding = enc
  /\ input = bytes
  /\ arrived = <<>> /\ kept = <<>> /\ digits = <<>> /\ output = <<>>
  /\ lastNeed = 0
  /\ inStep = TRUE
  /\ ended = FALSE

(* A text may break off in the middle of a character.                      *)
Init ==
  \E enc \in Encodings, t \in Text :
    LET bytes == Encode(IF enc \in Wide THEN enc ELSE "latin1", t)
    IN \E n \in 0 .. Len(bytes) : Start(enc, SubSeq(bytes, 1, n))

-----------------------------------------------------------------------------
Rest(s, n) == SubSeq(s, n + 1, Len(s))
Least(m, n) == IF m < n THEN m ELSE n

(* What a write leaves behind and gives out.                               *)
Outcome(out, keep, need, keepDigits) ==
  [out |-> out, kept |-> keep, need |-> need, digits |-> keepDigits]

(* The length a first byte announces.                                      *)
Announced(b) == CASE b < 192 -> 1 [] b \in 192 .. 223 -> 2 [] b \in 224 .. 239 -> 3
                  [] OTHER -> 4

Continues(b) == b \in 128 .. 191

(* Mistake: a character cut short is kept only if it is cut by one byte.   *)
CompleteIfTwoMissing(buf) ==
  LET starts == {i \in 1 .. Len(buf) : ~Continues(buf[i])}
      i == CHOOSE m \in starts : \A k \in starts : k <= m
  IN IF starts # {} /\ Len(buf) - i + 2 = Announced(buf[i]) THEN i - 1 ELSE Len(buf)

(* How much of buf is whole: all of it, or all before the last byte that   *)
(* begins a character, if that character is cut short.                     *)
Complete(buf) ==
  LET starts == {i \in 1 .. Len(buf) : ~Continues(buf[i])}
      i == CHOOSE m \in starts : \A k \in starts : k <= m
  IN IF starts # {} /\ Len(buf) - i + 1 < Announced(buf[i]) THEN i - 1 ELSE Len(buf)

WriteUtf8(chunk) ==
  LET take == IF kept = <<>> THEN 0 ELSE Least(lastNeed, Len(chunk))
      partial == kept \o SubSeq(chunk, 1, take)
      buf == Rest(chunk, take)
      split == Complete(buf)
      tail == Rest(buf, split)
  IN IF lastNeed > take
     THEN Outcome(<<>>, partial, lastNeed - take, <<>>)
     ELSE Outcome(Utf8Decode(partial) \o Utf8Decode(SubSeq(buf, 1, split)), tail,
                  IF tail = <<>> THEN 0 ELSE Announced(tail[1]) - Len(tail), <<>>)

(* One byte of a pair is kept.                                             *)
WriteUtf16le(chunk) ==
  LET needed == Least(lastNeed, Len(chunk))
      buf == Rest(chunk, needed)
      even == Len(buf) - (Len(buf) % 2)
  IN Outcome(Utf16leDecode(IF needed = 0 THEN <<>> ELSE kept \o SubSeq(chunk, 1, needed))
               \o Utf16leDecode(SubSeq(buf, 1, even)),
             Rest(buf, even), Len(buf) % 2, <<>>)

(* ascii and latin1 alike lose the high bit.                               *)
WriteAscii(chunk) == Outcome([i \in DOMAIN chunk |-> chunk[i] % 128], <<>>, 0, <<>>)

(* base64 and hex go to digits and back, so that the string has a          *)
(* character for every byte; with its padding a chunk of base64 is always  *)
(* whole, without it digits stay for the next chunk and are joined to it.  *)
WriteBase64(chunk) == Outcome(FromBase64(ToBase64(chunk)), <<>>, 0, <<>>)
WriteHex(chunk) == Outcome(FromHex(ToHex(chunk)), <<>>, 0, <<>>)
WriteBase64Url(chunk) ==
  LET all == digits \o ToBase64Url(chunk)
      whole == (Len(all) \div 4) * 4
  IN Outcome(FromBase64(SubSeq(all, 1, whole)), <<>>, 0, Rest(all, whole))

Written(chunk) ==
  CASE chunk = <<>> -> Outcome(<<>>, kept, lastNeed, digits)
    [] chunk # <<>> /\ encoding = "utf8" -> WriteUtf8(chunk)
    [] chunk # <<>> /\ encoding = "utf16le" -> WriteUtf16le(chunk)
    [] chunk # <<>> /\ encoding = "latin1" -> WriteAscii(chunk)
    [] chunk # <<>> /\ encoding = "base64" -> WriteBase64(chunk)
    [] chunk # <<>> /\ encoding = "base64url" -> WriteBase64Url(chunk)
    [] chunk # <<>> /\ encoding = "hex" -> WriteHex(chunk)

Arrive(n) ==
  /\ arrived' = arrived \o SubSeq(input, 1, n)
  /\ input' = Rest(input, n)
  /\ inStep' = (inStep /\ n % 3 = 0)
  /\ UNCHANGED encoding

Write(n) ==
  /\ ~ended
  /\ LET w == Written(SubSeq(input, 1, n))
     IN /\ output' = output \o w.out
        /\ kept' = w.kept /\ lastNeed' = w.need /\ digits' = w.digits
  /\ Arrive(n)
  /\ UNCHANGED ended

(* end, with a last chunk or an empty one: what is kept is decoded as far  *)
(* as it goes, the digits of base64url are dropped.                        *)
End(n) ==
  /\ ~ended
  /\ LET w == Written(SubSeq(input, 1, n))
         last == CASE encoding = "utf8" -> Utf8Decode(w.kept)
                   [] encoding = "utf16le" -> Utf16leDecode(w.kept)
                   [] OTHER -> BytesAsUnits(w.kept)
     IN output' = output \o w.out \o last
  /\ kept' = <<>> /\ lastNeed' = 0 /\ digits' = <<>>
  /\ Arrive(n)
  /\ ended' = TRUE

Next == \E n \in 0 .. Len(input) : Write(n) \/ End(n)

Spec == Init /\ [][Next]_vars

-----------------------------------------------------------------------------
(* _decodeSingle: the bytes as one string.                                 *)
DecodeSingle(bytes) ==
  CASE encoding = "utf8" -> Utf8Decode(bytes)
    [] encoding = "utf16le" -> Utf16leDecode(bytes)
    [] encoding = "latin1" -> BytesAsUnits(bytes)
    [] encoding = "base64" -> FromBase64(ToBase64(bytes))
    [] encoding = "base64url" -> FromBase64(ToBase64Url(bytes))
    [] encoding = "hex" -> FromHex(ToHex(bytes))

Sync == encoding = "base64url" => inStep

(***************************************************************************)
(* However the bytes are cut into chunks, the strings join to the text of  *)
(* all bytes that are no longer kept, and after end to the text of all.    *)
(* (base64url goes out of step by a chunk that is not of whole triples;    *)
(* the high bit of latin1 is lost in chunks, and only there.)              *)
(***************************************************************************)
ChunksDoNotMatter ==
  LET text == DecodeSingle(SubSeq(arrived, 1, Len(arrived) - Len(kept)))
  IN Sync => output = IF encoding = "latin1" THEN AsciiEncode(text) ELSE text

(***************************************************************************)
(* What is kept is the beginning of one character: its first byte          *)
(* announces exactly the bytes there and the bytes missing.                *)
(***************************************************************************)
KeepsOneCharacter ==
  /\ IsSuffix(kept, arrived) \/ ended
  /\ (kept = <<>>) <=> (lastNeed = 0)
  /\ encoding = "utf8" /\ kept # <<>> => Announced(kept[1]) = Len(kept) + lastNeed

(***************************************************************************)
(* A text comes back from its bytes, and bytes come back from their        *)
(* digits, with the padding or without it.                                 *)
(***************************************************************************)
CodecsRoundTrip ==
  /\ input = <<>> => \A e \in Wide, t \in Text : ToText(e, Encode(e, t)) = t
  /\ \A e \in {"base64", "base64url", "hex"} : Encode(e, ToText(e, arrived)) = arrived
  /\ ByteLength("base64", ToBase64(arrived)) >= Len(arrived)
=============================================================================
