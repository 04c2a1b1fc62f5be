---------------------------- MODULE MCLibraries ----------------------------
(***************************************************************************)
(* The libraries that run inside a script, side by side: those of          *)
(* ScriptLibraries, and the ones that only handle data.                    *)
(***************************************************************************)
EXTENDS ScriptLibraries

CONSTANTS
  a, b, c,
  Base, Width, Number, Index, MaxOps,
  Name, Drive, MaxLen

VARIABLES
  encoding, input, decoded, kept, lastNeed, digits, text, inStep, decoderEnded,
  data, size, another, last, ops,
  p, q

(* Texts with characters of one to four bytes; buffers too short for most  *)
(* numbers, and one that just holds the longest.                           *)
Characters == {<<65>>, <<233>>, <<8364>>, <<55357, 56832>>}
MCText == {<<>>} \cup Characters \cup {x \o y : x, y \in Characters}
MCSamples == {<<1>>, <<3, 0, 1>>, <<2, 1, 0, 3, 3, 0, 1, 2>>}
MCIndex == {-1, 0, 2}
MCNumber == {-2, 6}

D == INSTANCE StringDecoder WITH Text <- MCText, arrived <- decoded, output <- text,
                                 ended <- decoderEnded
B == INSTANCE Buffers WITH Samples <- MCSamples, length <- size, other <- another

P == INSTANCE Paths

decoderVars == <<encoding, input, decoded, kept, lastNeed, digits, text, inStep,
                 decoderEnded>>
bufferVars == <<data, size, another, last, ops>>
pathVars == <<p, q>>
dataVars == <<decoderVars, bufferVars, pathVars>>

MCPath == {a, b, c}
MCSource == {a, b}

SumInit ==
  /\ ScriptInit
  /\ IF library = "decoder" THEN D!Init ELSE D!Start("utf8", <<>>)
  /\ IF library = "buffers" THEN B!Init ELSE B!Start(<<1>>, <<1>>)
  /\ P!Init

SumNext ==
  \/ ScriptNext /\ UNCHANGED dataVars
  \/ /\ UNCHANGED libraryVars
     /\ \/ library = "decoder" /\ D!Next /\ UNCHANGED <<bufferVars, pathVars>>
        \/ library = "buffers" /\ B!Next /\ UNCHANGED <<decoderVars, pathVars>>
        \/ library = "paths" /\ P!Next /\ UNCHANGED <<decoderVars, bufferVars>>

SumSpec == SumInit /\ [][SumNext]_<<libraryVars, dataVars>>

-----------------------------------------------------------------------------
(* The state of the library that moves has its type.                      *)
TypesOK ==
  CASE library = "commonjs" -> TypeOK
    [] library = "streams" -> S!TypeOK
    [] library = "events" -> E!TypeOK
    [] library = "timers" -> T!TypeOK
    [] library = "decoder" -> D!TypeOK
    [] library = "buffers" -> B!TypeOK
    [] library = "paths" -> P!TypeOK

(* Data: the chunks in which bytes arrive do not change the text, what is  *)
(* encoded is decoded, numbers and slices read back, searches agree, and a  *)
(* path leads where it led after it was normalised, joined or resolved.     *)
DataSurvives ==
  /\ library = "decoder" => D!ChunksDoNotMatter /\ D!KeepsOneCharacter /\ D!CodecsRoundTrip
  /\ library = "buffers" =>
       B!NumbersReadBack /\ B!LengthsAgree /\ B!SearchesAgree /\ B!SlicesAgree
  /\ library = "paths" => P!NormalLeadsTheSame /\ P!RelativeLeadsThere /\ P!DriveIsKept
=============================================================================
