--------------------------- MODULE MCModuleLoader ---------------------------
(***************************************************************************)
(* A root /r with modules a and lib/b, a package p whose package.json      *)
(* names m.js, and a link /r/out to a directory /e outside the root.  A    *)
(* path outside is also asked for by its name, and one that leaves "/".    *)
(***************************************************************************)
EXTENDS ModuleLoader

Dir(name) == <<name>>
Js(name) == <<name, "js">>

MCRoot == <<Dir("r")>>
MCEntry == Append(MCRoot, Js("main"))
MCStdlib == <<Dir("stdlib")>>
MCExtensions == <<"js">>
PackageP == MCRoot \o <<NodeModules, Dir("p")>>
MCFixed == {MCRoot \o <<Dir("lib"), Js("b")>>, <<Dir("e"), Js("x")>>}
MCFile == {Append(MCRoot, Js("a")), Append(PackageP, PackageJson), Append(PackageP, Js("m"))}
MCMain == PackageP :> <<Dir("m")>>
MCLink == Append(MCRoot, Dir("out")) :> <<Dir("e")>>

Relative(parts) == [kind |-> "relative", package |-> <<>>, parts |-> parts]
Absolute(parts) == [kind |-> "absolute", package |-> <<>>, parts |-> parts]
Bare(name) == [kind |-> "bare", package |-> Dir(name), parts |-> <<>>]
Node(name) == [kind |-> "node", package |-> Dir(name), parts |-> <<>>]
MCEmbedded == {Bare("fs"), Node("fs")}
MCSpecifier == {Relative(<<Dir("a")>>),
                Relative(<<Dir("lib"), Up, Dir("a")>>),
                Relative(<<Dir("lib"), Js("b")>>),
                Relative(<<Dir("out"), Dir("x")>>),
                Absolute(<<Dir("e"), Dir("x")>>),
                Absolute(<<Dir("r"), Up, Up, Dir("r"), Dir("a")>>),
                Bare("p"), Bare("fs"), Node("p")}

(* What is found exists, and the caches keep to their capacity.            *)
AnswersFit == TypeOK /\ AnswersExist
=============================================================================
