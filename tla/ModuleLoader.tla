---------------------------- MODULE ModuleLoader ----------------------------
(***************************************************************************)
(* ES modules: the resolver with its caches (src/src/resolver.rs) and the  *)
(* loader on top of it (src/src/module_loader.rs), on a file system that   *)
(* changes under them.                                                     *)
(*                                                                         *)
(* A path is the sequence of its components from the root of the file      *)
(* system, a component the sequence of its parts between dots, so that     *)
(* <<"a", "js">> is a.js and replacing an extension can be said.           *)
(***************************************************************************)
EXTENDS Naturals, Sequences, FiniteSets, SequencesExt, TLC

CONSTANTS
  Root,        \* the directory of the loader
  Entry,       \* the file koss_run_module runs
  Fixed,       \* the files that stay, by their canonical paths
  File,        \* the files that may come and go
  Main,        \* Main[d]: the main field of the package.json of directory d
  Link,        \* Link[p]: where the symbolic link p leads
  Extensions,  \* FILE_EXTENSIONS, in order
  Embedded,    \* the specifiers of the embedded standard library
  Stdlib,      \* its directory
  Specifier,   \* the specifiers that modules import
  CacheCap,    \* entries per cache (256 in the code)
  None         \* no path

Up == <<"..">>
PackageJson == <<"package", "json">>
NodeModules == <<"node_modules">>
Part == STRING
Path == Seq(Seq(Part))

(* The provers do not know that what is written in quotes is a string.     *)
ASSUME NamesAssumption ==
  {"..", "", "index", "package", "json", "node_modules"} \subseteq Part
ASSUME CapAssumption == CacheCap \in Nat \ {0}
ASSUME FilesAssumption == Fixed \cap File = {}
ASSUME PathsAssumption ==
  /\ Root \in Path /\ Entry \in Path /\ Stdlib \in Path /\ None \notin Path
  /\ \A dir \in DOMAIN Main : Main[dir] \in Path
  /\ Extensions \in Seq(Part \ {".."})
  /\ \A spec \in Specifier : /\ spec.kind \in {"relative", "absolute", "node", "bare"}
                              /\ spec.package \in Seq(Part) /\ spec.parts \in Path

VARIABLES
  files,      \* the files on disk
  cache,      \* resolve_cache, exists_cache (found or absent) and pkg_cache
  instances,  \* the keys of module_map
  removed     \* history: a file has been removed

vars == <<files, cache, instances, removed>>

NoCache == [resolved |-> <<>>, found |-> {}, absent |-> {}, mains |-> <<>>]

Init ==
  /\ \E some \in SUBSET File : files = Fixed \cup some
  /\ cache = NoCache
  /\ instances = {}
  /\ removed = FALSE

-----------------------------------------------------------------------------
(* Paths *)

(* Mistake: ".." is kept as a component. *)
NormalizeKeepsUp(path) == path

(* normalize_path: None for a path above the root. *)
Normalize(path) ==
  FoldLeft(LAMBDA p, name : IF p = None \/ (name = Up /\ p = <<>>) THEN None
                            ELSE IF name = Up THEN Front(p) ELSE Append(p, name),
           <<>>, path)

(* The root has no name, and what is before the only dot of a name that    *)
(* begins with it is no stem.                                              *)
WithExtension(path, ext) ==
  LET name == Last(path)
      stem == IF Len(name) = 1 \/ Front(name) = <<"">> THEN name ELSE Front(name)
  IN  IF path = <<>> THEN path ELSE Append(Front(path), Append(stem, ext))

AppendExtension(path, ext) ==
  IF path = <<>> THEN <<<<"", ext>>>> ELSE Append(Front(path), Append(Last(path), ext))

(* Each extension in the place of the one there is, then after it.         *)
Extended(path) ==
  [n \in 1 .. 2 * Len(Extensions) |->
     LET ext == Extensions[(n + 1) \div 2]
     IN  IF n % 2 = 1 THEN WithExtension(path, ext) ELSE AppendExtension(path, ext)]

Indexes(dir) == [n \in 1 .. Len(Extensions) |-> Append(dir, <<"index", Extensions[n]>>)]

(* The canonical path of a file: ".." and symbolic links followed. *)
Real(path) ==
  FoldLeft(LAMBDA p, name : LET q == Append(p, name)
                            IN  IF name = Up THEN (IF p = <<>> THEN p ELSE Front(p))
                                ELSE IF q \in DOMAIN Link THEN Link[q] ELSE q,
           <<>>, path)

IsFile(path) == Real(path) \in files
DirExists(path) == \E f \in files : IsStrictPrefix(Real(path), f)

(* The files resolve_path probes, in order. *)
Candidates(path) ==
  <<path>> \o Extended(path) \o (IF DirExists(path) THEN Indexes(path) ELSE <<>>)

-----------------------------------------------------------------------------
(* The caches: a full one is cleared before it takes one more entry. *)

(* Mistake: an entry is taken for a file that was found. *)
ExistsIfKnown(c, path) == path \in c.found \cup c.absent \/ IsFile(path)

(* Mistake: what was absent once is absent for good. *)
ExistsTrustsAbsent(c, path) == path \in c.found \/ (IsFile(path) /\ path \notin c.absent)

Exists(c, path) == path \in c.found \/ IsFile(path)

(* file_exists: a file found once is taken to be there, an absent one is   *)
(* looked for again.                                                       *)
Probe(c, path) ==
  LET known == c.found \cup c.absent
      kept == IF path \in known \/ Cardinality(known) < 4 * CacheCap
              THEN c ELSE [c EXCEPT !.found = {}, !.absent = {}]
  IN  IF Exists(c, path)
      THEN [kept EXCEPT !.found = @ \cup {path}, !.absent = @ \ {path}]
      ELSE [kept EXCEPT !.absent = @ \cup {path}]

Cached(function, key, value) ==
  LET kept == IF Cardinality(DOMAIN function) < CacheCap THEN DOMAIN function ELSE {}
  IN  [k \in kept \cup {key} |-> IF k = key THEN value ELSE function[k]]

(* Each search below is the set of its outcomes, which has one element: the *)
(* caches after it, and the path it found or None.                          *)
Outcome(c, path) == [cache |-> c, path |-> path]

FirstFile(c, paths) ==
  FoldLeft(LAMBDA tried, p :
             {IF a.path # None THEN a
              ELSE Outcome(Probe(a.cache, p), IF Exists(a.cache, p) THEN p ELSE None) : a \in tried},
           {Outcome(c, None)}, paths)

-----------------------------------------------------------------------------
(* Resolution *)

ResolvePath(c, dir, parts) ==
  LET path == Normalize(dir \o parts)
  IN  IF path = None THEN {Outcome(c, None)} ELSE FirstFile(c, Candidates(path))

(* read_package_main: a missing package.json is remembered too. *)
ReadMain(c, dir) ==
  LET json == Append(dir, PackageJson)
      main == IF Exists(c, json) /\ IsFile(json) /\ dir \in DOMAIN Main
              THEN Main[dir] ELSE None
  IN  IF dir \in DOMAIN c.mains THEN Outcome(c, c.mains[dir])
      ELSE Outcome([Probe(c, json) EXCEPT !.mains = Cached(@, dir, main)], main)

(* The main file of a package, then its index files. *)
ResolveMain(c, dir) ==
  UNION {IF a.path # None THEN {a} ELSE FirstFile(a.cache, Indexes(dir)) :
         a \in UNION {IF m.path = None THEN {m} ELSE ResolvePath(m.cache, dir, m.path) :
                      m \in {ReadMain(c, dir)}}}

(* resolve_node_modules: from the directory up to the root. *)
ResolveNodeModules(c, spec, dir) ==
  LET Package(up) == SubSeq(dir, 1, Len(dir) - up) \o <<NodeModules, spec.package>>
      Within(c1, package) == IF spec.parts = <<>> THEN ResolveMain(c1, package)
                             ELSE ResolvePath(c1, package, spec.parts)
  IN  FoldLeft(LAMBDA tried, up :
                 UNION {IF a.path # None \/ ~DirExists(Package(up)) THEN {a}
                        ELSE Within(a.cache, Package(up)) : a \in tried},
               {Outcome(c, None)}, [n \in 1 .. Len(dir) + 1 |-> n - 1])

(* A specifier is a path or a name; with node: before it, a name is of the *)
(* library or nothing, without it of the library or a package.             *)
Search(c, spec, dir) ==
  CASE spec.kind = "relative" -> ResolvePath(c, dir, spec.parts)
    [] spec.kind = "absolute" -> ResolvePath(c, <<>>, spec.parts)
    [] spec.kind \in {"node", "bare"} /\ spec \in Embedded ->
         {Outcome(c, Stdlib \o <<spec.package>> \o spec.parts)}
    [] spec.kind = "node" /\ spec \notin Embedded -> {Outcome(c, None)}
    [] spec.kind = "bare" /\ spec \notin Embedded -> ResolveNodeModules(c, spec, dir)

(* Only what was found is remembered. *)
Resolve(c, spec, dir) ==
  LET key == <<spec, dir>>
  IN  IF key \in DOMAIN c.resolved THEN {Outcome(c, c.resolved[key])}
      ELSE {IF a.path = None THEN a
            ELSE Outcome([a.cache EXCEPT !.resolved = Cached(@, key, a.path)], a.path) :
            a \in Search(c, spec, dir)}

-----------------------------------------------------------------------------
(* Loading *)

Parent(path) == Front(path)

(* The directory imports are relative to.  Modules are parsed from bytes,  *)
(* and have no path: only the entry does.                                  *)
ReferrerDir(module) == IF module = Entry THEN Parent(Entry) ELSE Root

(* Mistake: the root is compared with the path as it is written. *)
VerifiedAsWritten(path) == IsFile(path) /\ IsPrefix(Root, path)

(* verify_module_path, and the read that follows. *)
Verified(path) == IsFile(path) /\ IsPrefix(Real(Root), Real(path))

Loadable(path) == IsPrefix(Stdlib, path) \/ Verified(path)

(* load_imported_module, for a module whose imports start from dir.  What  *)
(* does not parse is not kept.                                             *)
Import(dir, spec) ==
  \E a \in Resolve(cache, spec, dir) :
    /\ cache' = a.cache
    /\ \/ UNCHANGED instances
       \/ /\ a.path \notin instances \cup {None} /\ Loadable(a.path)
          /\ instances' = instances \cup {a.path}
    /\ UNCHANGED <<files, removed>>

(* Other programs work on the files. *)
FileAppears(f) ==
  /\ f \notin files
  /\ files' = files \cup {f}
  /\ UNCHANGED <<cache, instances, removed>>

FileGoes(f) ==
  /\ f \in files
  /\ files' = files \ {f}
  /\ removed' = TRUE
  /\ UNCHANGED <<cache, instances>>

Importers == {Entry} \cup {p \in instances : ~IsPrefix(Stdlib, p)}
Dirs == {ReferrerDir(module) : module \in Importers}

Next ==
  \/ \E dir \in Dirs, spec \in Specifier : Import(dir, spec)
  \/ \E f \in File : FileAppears(f) \/ FileGoes(f)

Spec == Init /\ [][Next]_vars

-----------------------------------------------------------------------------
TypeOK ==
  /\ files \in SUBSET (Fixed \cup File) /\ Fixed \subseteq files
  /\ cache.found \cap cache.absent = {}
  /\ Cardinality(cache.found \cup cache.absent) <= 4 * CacheCap
  /\ Cardinality(DOMAIN cache.resolved) <= CacheCap
  /\ Cardinality(DOMAIN cache.mains) <= CacheCap
  /\ removed \in BOOLEAN

(* As long as no file is removed, what an import resolves to is a file on  *)
(* disk or a module of the library, whatever the caches remember.          *)
AnswersExist ==
  ~removed => \A spec \in Specifier, dir \in Dirs : \A a \in Resolve(cache, spec, dir) :
    a.path = None \/ IsPrefix(Stdlib, a.path) \/ IsFile(a.path)

(* A package.json that was absent when its directory was first looked at   *)
(* and is there now: the cache of main fields is never checked again.      *)
StaleMain == \E d \in DOMAIN cache.mains :
               cache.mains[d] = None /\ IsFile(Append(d, PackageJson))

(* An import that finds nothing would find nothing with empty caches: a    *)
(* file created since the last look is seen, except behind a stale main.   *)
NothingIsMissed ==
  \A spec \in Specifier, dir \in Dirs : \A a \in Resolve(cache, spec, dir) :
    a.path = None /\ ~StaleMain => \A b \in Search(NoCache, spec, dir) : b.path = None

(* Without symbolic links between modules a file has one instance, however *)
(* it is spelled by the modules that import it.                            *)
OneInstancePerFile ==
  \A p, q \in instances : Real(p) = Real(q) => p = q

(* A module is a file under the root, links followed, or of the library.   *)
InstancesInsideRoot ==
  \A p \in instances : IsPrefix(Stdlib, p) \/ IsPrefix(Real(Root), Real(p))

(* What a relative import resolves to is among the candidates next to the  *)
(* module that imports it.                                                 *)
RelativeToImporter ==
  \A module \in Importers, spec \in {s \in Specifier : s.kind = "relative"} :
    \A a \in Resolve(cache, spec, ReferrerDir(module)) :
      LET path == Normalize(Parent(module) \o spec.parts)
      IN  a.path # None => path # None /\ a.path \in ToSet(Candidates(path))
=============================================================================
