------------------------------- MODULE Builtins -------------------------------
(***************************************************************************)
(* The modules that are compiled in (the table of src/src/builtins.rs, the *)
(* files of src/src/embedded_stdlib.rs), the two that load them (require,  *)
(* through __koss_load_module in src/src/runtime.rs, and import, through   *)
(* KossModuleLoader in src/src/module_loader.rs), and what their files     *)
(* require in turn when they run (the top of the files of                  *)
(* src/src/js_shims), each of which is looked up under the same flags.     *)
(*                                                                         *)
(* The layers are switched on by flags when an instance is made; the       *)
(* modules of koss:internal belong to none.  A require inside a function   *)
(* of a file is not part of its loading, and what web_api asks for, where  *)
(* a global is missing, is left out.                                       *)
(***************************************************************************)
EXTENDS Naturals, Sequences

CONSTANT Unknown  \* a name nobody has

VARIABLES
  flags,   \* the layers that are on
  loads,   \* MODULE_LOAD is granted: there is a __koss_load_module
  asked,   \* the name asked for last: how, its layer and the rest
  loading, \* the files that run, each inside the require of the one before
           \*   it, and the place of what it requires next
  thrown,  \* the require of the file that runs throws
  ran,     \* Module._cache: the koss: modules whose file ran to its end
  names,   \*   and the bare names and paths that a file was answered to
  answer   \* the file that was loaded, or how the load ended

vars == <<flags, loads, asked, loading, thrown, ran, names, answer>>

-----------------------------------------------------------------------------
(* BUILTIN_MODULES: the layers and the names.                              *)
Layer == {"node", "bun", "deno", "koss"}

NodeNames ==
  {"fs", "path", "events", "buffer", "assert", "util", "url", "querystring", "os", "timers",
   "stream", "crypto", "zlib", "net", "http", "https", "dns", "tls", "dgram",
   "string_decoder", "constants", "process", "perf_hooks", "trace_events",
   "diagnostics_channel", "timers/promises", "stream/promises", "stream/consumers", "console"}
KossNames ==
  {"io", "crypto", "system", "data", "ffi", "assert", "buffer", "constants",
   "diagnostics_channel", "events", "http", "net", "os", "path", "process", "stream",
   "string_decoder", "timers", "trace_events", "url", "util", "querystring", "zlib"}
InternalNames == {"fs", "net", "crypto", "stream"}

Names(layer) ==
  CASE layer = "node" -> NodeNames
    [] layer = "koss" -> KossNames
    [] layer = "internal" -> InternalNames
    [] layer \in {"bun", "deno"} -> {"index"}

(* The files that are compiled in, by directory; promises of a module are  *)
(* in a file of their own.                                                 *)
FileOf(layer, name) ==
  CASE name = "timers/promises" -> <<"node", "timers_promises">>
    [] name = "stream/promises" -> <<"node", "stream_promises">>
    [] name = "stream/consumers" -> <<"node", "stream_consumers">>
    [] OTHER -> <<layer, name>>

Embedded ==
  (({"node"} \X ((NodeNames \ {"timers/promises", "stream/promises", "stream/consumers"})
                 \cup {"timers_promises", "stream_promises", "stream_consumers"}))
   \cup ({"koss"} \X KossNames) \cup ({"internal"} \X InternalNames)
   \cup ({"bun", "deno", "web_api"} \X {"index"}))

None == <<"none", "none">>
Error == <<"error", "error">>
Elsewhere == <<"elsewhere", "elsewhere">>

(* resolve_builtin_specifier, with find_builtin: the file, or an error for *)
(* an unknown name or a layer that is off.                                 *)
Builtin(layer, name) ==
  IF /\ layer \in Layer \cup {"internal"}
     /\ name \in Names(layer)
     /\ layer \in Layer => layer \in flags
     /\ FileOf(layer, name) \in Embedded
  THEN FileOf(layer, name)
  ELSE Error

-----------------------------------------------------------------------------
Koss(name) == <<"koss", name>>
Internal(name) == <<"internal", name>>

(* Files of the Node layer that hand out the module of the same name.      *)
Renamed ==
  {"util", "querystring", "assert", "path", "constants", "trace_events", "events", "url",
   "stream", "timers", "http", "diagnostics_channel", "zlib", "buffer", "os",
   "string_decoder", "process", "net"}

(* What the files of a layer require at their top, in order.               *)
NodeNeeds(name) ==
  CASE name \in Renamed -> <<Koss(name)>>
    [] name \in {"fs", "dns"} -> <<Koss("io")>>
    [] name = "timers_promises" -> <<Koss("timers")>>
    [] name = "stream_promises" -> <<Koss("stream")>>
    [] name = "crypto" -> <<Koss("crypto"), Koss("buffer")>>
    [] name = "dgram" -> <<Koss("events"), Koss("buffer")>>
    [] OTHER -> <<>>

KossNeeds(name) ==
  CASE name = "util" -> <<Koss("buffer")>>
    [] name = "querystring" -> <<Koss("util")>>
    [] name = "stream" -> <<Koss("buffer"), Koss("events")>>
    [] name = "crypto" -> <<Internal("crypto")>>
    [] name = "os" -> <<Koss("system")>>
    [] name = "process" -> <<Koss("system"), Koss("events")>>
    [] name = "io" ->
         <<Internal("fs"), Internal("net"), Internal("stream"), Koss("data"), Koss("buffer")>>
    [] name = "net" -> <<Koss("io"), Koss("events")>>
    [] name = "http" -> <<Koss("events"), Koss("net"), Koss("buffer")>>
    [] name = "zlib" -> <<Koss("io"), Koss("events"), Koss("buffer")>>
    [] OTHER -> <<>>

Needs(file) ==
  CASE file[1] = "node" -> NodeNeeds(file[2])
    [] file[1] = "koss" -> KossNeeds(file[2])
    [] file = Internal("stream") -> <<Koss("buffer")>>
    [] file[1] = "deno" -> <<Koss("io"), Koss("crypto"), Koss("system"), Koss("buffer")>>
    [] file[1] = "bun" ->
         <<Koss("io"), Koss("crypto"), Koss("system"), Koss("buffer"), Koss("zlib")>>
    [] OTHER -> <<>>

(* It is in a try: the file goes on without.                               *)
Spared(file, need) ==
  \/ file \in {Koss("util"), Koss("zlib")}
  \/ file = Koss("process") /\ need = Koss("system")
  \/ file = <<"bun", "index">> /\ need = Koss("zlib")

(* Files that take globalThis.Buffer if it is there.                       *)
TakesGlobal ==
  {Koss("stream"), Koss("http"), Koss("io"), Internal("stream"), <<"node", "dgram">>,
   <<"bun", "index">>, <<"deno", "index">>}

-----------------------------------------------------------------------------
(* What is asked for: koss:<layer>/<name> by require or import, a bare     *)
(* name, node: taken off, or the path of a file of the library.            *)
Asked ==
  {<<how, layer, name>> : how \in {"koss", "import"}, layer \in Layer \cup {"internal"},
                          name \in NodeNames \cup KossNames \cup {"index", Unknown}}
    \cup {<<"bare", "node", name>> : name \in NodeNames \cup {Unknown}}
    \cup {<<"path", file[1], file[2]>> : file \in Embedded}

TypeOK ==
  /\ flags \subseteq Layer /\ loads \in BOOLEAN
  /\ asked \in Asked \cup {None}
  /\ loading \in Seq([file : Embedded, at : 1 .. 6])
  /\ thrown \in BOOLEAN
  /\ ran \subseteq Embedded /\ names \subseteq Asked
  /\ answer \in Embedded \cup {None, Error, Elsewhere}

Init ==
  /\ flags \in SUBSET Layer /\ loads \in BOOLEAN
  /\ asked = None /\ answer = None
  /\ loading = <<>> /\ thrown = FALSE /\ ran = {} /\ names = {}

-----------------------------------------------------------------------------
(* Mistake: the Node layer is looked up whatever the flags say.            *)
FoundInAnyLayer(a) ==
  IF a[1] # "import" /\ ~loads THEN Elsewhere
  ELSE CASE a[1] \in {"koss", "import"} -> Builtin(a[2], a[3])
         [] a[1] = "path" -> <<a[2], a[3]>>
         [] a[1] = "bare" -> IF a[3] \in NodeNames THEN FileOf("node", a[3]) ELSE Elsewhere

(* The file of a name.  Without __koss_load_module require answers {} to   *)
(* every name.  A bare name is first the path of a file of the library,    *)
(* whatever the flags, then a module of the Node layer, and then it is for *)
(* the loader of the host, if there is one that has it, or {}.             *)
Found(a) ==
  IF a[1] # "import" /\ ~loads THEN Elsewhere
  ELSE CASE a[1] \in {"koss", "import"} -> Builtin(a[2], a[3])
         [] a[1] = "path" -> <<a[2], a[3]>>
         [] a[1] = "bare" ->
              IF Builtin("node", a[3]) # Error THEN Builtin("node", a[3]) ELSE Elsewhere

(* The host or its script asks for a name; what was required before comes  *)
(* from the cache, an import runs its file again.                          *)
Cached(a) == a \in names \/ (a[1] = "koss" /\ Found(a) \in ran)

Ask(a) ==
  LET f == Found(a) IN
  /\ loading = <<>>
  /\ asked' = a
  /\ IF f \in Embedded /\ ~Cached(a)
     THEN loading' = <<[file |-> f, at |-> 1]>> /\ answer' = None
     ELSE answer' = f /\ UNCHANGED loading
  /\ UNCHANGED <<flags, loads, thrown, ran, names>>

Top == loading[Len(loading)]
Begun == {loading[i].file : i \in 1 .. Len(loading)}
Forth == [loading EXCEPT ![Len(loading)].at = @ + 1]

(* Asked for nothing: require has deleted the global, import has not.      *)
HasGlobal(need) ==
  asked[1] = "import" /\ Len(loading) = 1 /\ need = Koss("buffer") /\ Top.file \in TakesGlobal

(* The file that runs comes to its next require.                           *)
Require ==
  /\ loading # <<>> /\ ~thrown /\ Top.at <= Len(Needs(Top.file))
  /\ LET need == Needs(Top.file)[Top.at]
         f == Builtin(need[1], need[2])
     IN  IF ~loads \/ HasGlobal(need) \/ f \in ran \cup Begun
         THEN loading' = Forth /\ UNCHANGED thrown
         ELSE IF f # Error THEN loading' = Append(loading, [file |-> f, at |-> 1]) /\ UNCHANGED thrown
         ELSE IF Spared(Top.file, need) THEN loading' = Forth /\ UNCHANGED thrown
         ELSE thrown' = TRUE /\ UNCHANGED loading
  /\ UNCHANGED <<flags, loads, asked, ran, names, answer>>

(* What runs when the file on top is done, and who asked for it goes on.   *)
Back == IF Len(loading) = 1 THEN <<>>
        ELSE [SubSeq(loading, 1, Len(loading) - 1) EXCEPT ![Len(loading) - 1].at = @ + 1]

(* The file has run to its end.                                            *)
Finish ==
  /\ loading # <<>> /\ ~thrown /\ Top.at > Len(Needs(Top.file))
  /\ loading' = Back
  /\ ran' = IF Len(loading) > 1 \/ asked[1] = "koss" THEN ran \cup {Top.file} ELSE ran
  /\ names' = IF Len(loading) = 1 /\ asked[1] \in {"bare", "path"} THEN names \cup {asked} ELSE names
  /\ answer' = IF Len(loading) = 1 THEN Top.file ELSE answer
  /\ UNCHANGED <<flags, loads, asked, thrown>>

(* Mistake: the entry of a file that throws stays in the cache.            *)
FailKept ==
  /\ thrown /\ loading # <<>>
  /\ thrown' = (Len(loading) > 1)
  /\ loading' = SubSeq(loading, 1, Len(loading) - 1)
  /\ ran' = ran \cup {Top.file}
  /\ answer' = IF Len(loading) = 1 THEN Error ELSE answer
  /\ UNCHANGED <<flags, loads, asked, names>>

(* The error leaves the file, whose entry is deleted, and the require that *)
(* brought it in; a try ends it there.                                     *)
Fail ==
  /\ thrown /\ loading # <<>>
  /\ LET under == loading[Len(loading) - 1]
         caught == Len(loading) > 1 /\ Spared(under.file, Needs(under.file)[under.at])
     IN  /\ thrown' = (Len(loading) > 1 /\ ~caught)
         /\ loading' = IF caught THEN Back ELSE SubSeq(loading, 1, Len(loading) - 1)
  /\ answer' = IF Len(loading) = 1 THEN Error ELSE answer
  /\ UNCHANGED <<flags, loads, asked, ran, names>>

Next == (\E a \in Asked : Ask(a)) \/ Require \/ Finish \/ Fail

Spec == Init /\ [][Next]_vars

-----------------------------------------------------------------------------
(* The layers a name asked for like this may come from.                    *)
On == flags \cup {"internal"}

(* What a file cannot do without.                                          *)
HardNeeds(file) ==
  {Needs(file)[i] : i \in {i \in 1 .. Len(Needs(file)) : ~Spared(file, Needs(file)[i])}}

(***************************************************************************)
(* No module is half loaded and no flag is got round on the way.  What     *)
(* runs inside a load belongs to a layer that is on or to koss:internal,   *)
(* so does what a koss: or a bare name is answered with, and has all it    *)
(* cannot do without.  With the koss layer on nothing fails but a name     *)
(* that is unknown or of a layer that is off; without it the files of      *)
(* other layers that need it fail, though their own layer is on.           *)
(* (koss:internal and the paths of files are answered to everybody; what   *)
(* an import makes of requires that are not granted is not asked.)         *)
(***************************************************************************)
LibraryIsWhole ==
  /\ \A f \in ran : f[1] \in On /\ HardNeeds(f) \subseteq ran
  /\ answer \in Embedded /\ loads =>
       /\ asked[1] # "path" => answer[1] \in On
       /\ HardNeeds(answer)
            \ (IF asked[1] = "import" /\ answer \in TakesGlobal THEN {Koss("buffer")} ELSE {})
            \subseteq ran
  /\ "koss" \in flags =>
       /\ ~thrown
       /\ answer = Error => asked[1] \in {"koss", "import"}
                            /\ ~(asked[2] \in On /\ asked[3] \in Names(asked[2]))
=============================================================================
