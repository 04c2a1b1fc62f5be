------------------------------ MODULE HostCalls ------------------------------
(***************************************************************************)
(* The calls that run code (koss_eval, koss_run_string, koss_run_file,     *)
(* koss_run_async, koss_run_module, koss_run_module_string and koss_tick   *)
(* in src/src/runtime.rs): what each of them runs before it answers, what  *)
(* its answer says of the code that is left, and the directory its code is *)
(* audited under: current_module_dir, one field set when a call begins and *)
(* left as it is when the call ends.                                       *)
(*                                                                         *)
(* Code leaves pieces: jobs that are queued (the reactions of promises,    *)
(* timers that poll) and pieces that wait for the answer of a thread       *)
(* (KossEventLoop.pending).  The first three calls run no job at all.  The *)
(* value of a call is written as a string when all the rest is done, and a *)
(* toString of the code's own may leave pieces once more.  The instance    *)
(* has an event loop (KossEventLoop::new did not fail).                    *)
(***************************************************************************)
EXTENDS Naturals

CONSTANTS
  Dir,      \* directories, as the host writes them
  NoDir,    \* NULL
  RealDir,  \* RealDir[d]: the directory after links are resolved
  MaxLeft   \* bound: pieces of code that are left at a time

VARIABLES
  dir,      \* current_module_dir
  code,     \* the pieces that are left, each with what was run to bring it
            \*   in, and whether that call has ended
  call,     \* the call under way
  audited,  \* the operation audited last in it: the directory given, what
            \*   was run to bring its code in, and whether that call has ended
  answer    \* what the last call answered

vars == <<dir, code, call, audited, answer>>

Script == {"eval", "run_string", "run_file"}
Module == {"run_module", "run_module_string"}
File == {"run_file", "run_module"}
Name == Script \cup Module \cup {"run_async", "tick"}

(* What may be wrong with the arguments, or with the file.                 *)
Fault == {"null", "utf8", "unresolved", "no_file", "unreadable", "syntax"}

(* How a piece ends: "stuck" waits for a promise that nobody settles.      *)
End == {"value", "throws", "stuck"}
Still == {"queued", "waits"}

Place == 1 .. MaxLeft
Gone == [is |-> "none", home |-> NoDir, late |-> FALSE]
Queued == {i \in Place : code[i].is = "queued"}
Waiting == {i \in Place : code[i].is = "waits"}

NoCall == [name |-> "none", phase |-> "none", own |-> 0, ends |-> "value", idle |-> FALSE]
NoAudit == [given |-> NoDir, home |-> NoDir, late |-> FALSE]
NoAnswer == [of |-> "none", code |-> 0, left |-> 0, idle |-> FALSE, written |-> 0]

TypeOK ==
  /\ dir \in Dir \cup {NoDir}
  /\ code \in [Place -> [is : Still \cup {"none"}, home : Dir \cup {NoDir}, late : BOOLEAN]]
  /\ call \in [name : Name, phase : {"io", "jobs", "again", "done"}, own : Place \cup {0},
               ends : End, idle : BOOLEAN] \cup {NoCall}
  /\ audited \in [given : Dir \cup {NoDir}, home : Dir \cup {NoDir}, late : BOOLEAN]
  /\ answer \in [of : Name \cup {"none"}, code : 0 .. 2, left : Place \cup {0}, idle : BOOLEAN,
                written : Place \cup {0}]

Init ==
  /\ dir = NoDir
  /\ code = [i \in Place |-> Gone]
  /\ call = NoCall /\ audited = NoAudit /\ answer = NoAnswer

-----------------------------------------------------------------------------
(* What is run: a string, or a file in a directory.                        *)
Home(name, d) == IF name \in File THEN d ELSE NoDir

(* Mistake: a string leaves the directory of the file that ran before.     *)
DirKept(name, d) == IF name \in File THEN d ELSE dir

(* The directory the call sets before it reads the source: koss_run_file   *)
(* resolves the path, koss_run_module takes it as the host wrote it.       *)
DirOf(name, d) == IF name = "run_file" THEN RealDir[d] ELSE Home(name, d)

(* Faults seen before the directory is set: arguments, and for run_file a  *)
(* path that does not resolve or is no file.                               *)
Early(name) ==
  {"null", "utf8"} \cup (IF name = "run_file" THEN {"unresolved", "no_file"} ELSE {})

(* Faults a call can meet at all.                                          *)
Meets(name) ==
  CASE name = "tick" -> {"null"}
    [] name \in File -> Fault
    [] OTHER -> {"null", "utf8", "syntax"}

(* The call is refused, or the source does not parse: nothing is run.      *)
Refuse(name, d, fault) ==
  /\ call = NoCall /\ fault \in Meets(name)
  /\ dir' = IF name = "tick" \/ fault \in Early(name) THEN dir ELSE DirOf(name, d)
  /\ answer' = [NoAnswer EXCEPT !.code = IF fault = "syntax" THEN 1 ELSE 2]
  /\ UNCHANGED <<code, call, audited>>

(* A call begins with this code to run and the pieces there are.           *)
Begin(name, phase, own, ends) ==
  /\ call = NoCall
  /\ call' = [name |-> name, phase |-> phase, own |-> own, ends |-> ends, idle |-> FALSE]
  /\ answer' = NoAnswer

(* The pieces with one more at a place that is free; none at 0.            *)
With(pieces, i, is, home, late) ==
  IF i = 0 THEN pieces
  ELSE [pieces EXCEPT ![i] = [is |-> is, home |-> home, late |-> late]]

Free == {i \in Place : code[i].is = "none"}

(* koss_eval and its like: the code runs to its end, attempts something    *)
(* that is audited and may leave a piece.  The value of koss_run_async may *)
(* be the promise of that piece, or one that nobody settles.               *)
RunScript(name, d, ends, i, is) ==
  /\ name \in Script \cup {"run_async"} /\ i \in Free \cup {0}
  /\ ends = "stuck" => name = "run_async"
  /\ dir' = DirOf(name, d)
  /\ audited' = [given |-> dir', home |-> Home(name, d), late |-> FALSE]
  /\ code' = With(code, i, is, Home(name, d), FALSE)
  /\ \E own \in {0, i} :
       /\ own # 0 => name = "run_async" /\ ends = "value"
       /\ Begin(name, IF name = "run_async" /\ ends # "throws" THEN "io" ELSE "done", own, ends)

(* A module is loaded, linked and evaluated by jobs.                       *)
RunModule(name, d, i) ==
  /\ name \in Module /\ i \in Free
  /\ dir' = DirOf(name, d)
  /\ code' = With(code, i, "queued", Home(name, d), FALSE)
  /\ Begin(name, "jobs", i, "value")
  /\ UNCHANGED audited

(* koss_tick runs what was left by the calls before it, under their last   *)
(* directory.                                                              *)
Tick == Begin("tick", "io", 0, "value") /\ UNCHANGED <<dir, code, audited>>

-----------------------------------------------------------------------------
(* process_io_results: some answers are there.                             *)
Io(there) ==
  /\ call.phase = "io" /\ there \subseteq Waiting
  /\ code' = [i \in Place |-> IF i \in there THEN [code[i] EXCEPT !.is = "queued"] ELSE code[i]]
  /\ call' = [call EXCEPT !.phase = "jobs"]
  /\ UNCHANGED <<dir, audited, answer>>

(* run_jobs: a queued piece runs, attempts something that is audited, ends *)
(* or goes on later, and may leave another one.  (The callbacks that       *)
(* process_io_results runs for threads come through a channel that stays   *)
(* empty: no parameter can be declared as one, see FfiCalls.)              *)
Job(i, fate, j, is) ==
  /\ call.phase \in {"jobs", "again"} /\ i \in Queued /\ j \in Free \cup {0}
  /\ audited' = [given |-> dir, home |-> code[i].home, late |-> code[i].late]
  /\ code' = With([code EXCEPT ![i] = IF fate \in Still THEN [@ EXCEPT !.is = fate] ELSE Gone],
                  j, is, code[i].home, code[i].late)
  /\ call' = IF i = call.own /\ fate \in End THEN [call EXCEPT !.own = 0, !.ends = fate] ELSE call
  /\ UNCHANGED <<dir, answer>>

(* Mistake: what is pending is asked before the jobs have run.             *)
LookTooEarly ==
  /\ call.name \in {"tick", "run_async"} /\ call.phase = "jobs"
  /\ call.name = "run_async" => Waiting = {}
  /\ call' = [call EXCEPT !.phase = "again", !.idle = Waiting = {}]
  /\ UNCHANGED <<dir, code, audited, answer>>

(* No job is left: koss_tick notes whether anything is pending, and the    *)
(* loop of koss_run_async ends if nothing is.  Both run the jobs again.    *)
Look ==
  /\ call.name \in {"tick", "run_async"} /\ call.phase = "jobs" /\ Queued = {}
  /\ call.name = "run_async" => Waiting = {}
  /\ call' = [call EXCEPT !.phase = "again", !.idle = Waiting = {}]
  /\ UNCHANGED <<dir, code, audited, answer>>

(* Something is pending: koss_run_async sleeps and goes round, or its time *)
(* or its rounds are over.                                                 *)
Round(over) ==
  /\ call.name = "run_async" /\ call.phase = "jobs" /\ Queued = {} /\ Waiting # {}
  /\ call' = IF over THEN [call EXCEPT !.phase = "done", !.own = 0, !.ends = "stuck"]
             ELSE [call EXCEPT !.phase = "io"]
  /\ UNCHANGED <<dir, code, audited, answer>>

(* Mistake: a module that goes on is answered like one that has finished.  *)
CodeOfOptimist == IF call.ends = "throws" THEN 1 ELSE 0

(* The promise of a module must be fulfilled; that of koss_run_async may   *)
(* be pending as well, unless its time is over.                            *)
CodeOf ==
  IF \/ call.own = 0 /\ call.ends = "throws"
     \/ call.name \in Module /\ (call.own # 0 \/ call.ends = "stuck")
     \/ call.phase = "done" /\ call.ends = "stuck"
  THEN 1 ELSE 0

(* A value or an error of the code's is written: not the "undefined" of a  *)
(* module, and no message of the host's.                                   *)
Writes ==
  /\ call.name # "tick"
  /\ call.name \in Module => call.own = 0 /\ call.ends = "throws"
  /\ call.phase = "done" => call.ends # "stuck"

(* The call answers; what it leaves is of a call that has ended.  Writing  *)
(* the value may attempt something that is audited, and leave a piece.     *)
Return(d, own, i, is) ==
  /\ \/ call.phase = "done"
     \/ call.phase = "again" /\ Queued = {}
     \/ call.name \in Module /\ call.phase = "jobs" /\ Queued = {}
  /\ own => Writes /\ dir = DirOf(call.name, d)
  /\ i \in Free \cup {0} /\ (i # 0 => own)
  /\ answer' = [of |-> call.name, code |-> CodeOf, left |-> call.own, idle |-> call.idle,
                written |-> i]
  /\ code' = With([k \in Place |-> [code[k] EXCEPT !.late = code[k].is # "none"]],
                  i, is, Home(call.name, d), TRUE)
  /\ audited' = IF own THEN [given |-> dir, home |-> Home(call.name, d), late |-> FALSE]
                ELSE NoAudit
  /\ call' = NoCall
  /\ UNCHANGED dir

Next ==
  \/ \E name \in Name, d \in Dir :
       \/ \E fault \in Fault : Refuse(name, d, fault)
       \/ \E ends \in End, i \in Place \cup {0}, is \in Still : RunScript(name, d, ends, i, is)
       \/ \E i \in Place : RunModule(name, d, i)
  \/ Tick
  \/ \E there \in SUBSET Place : Io(there)
  \/ \E i \in Place, fate \in End \cup Still, j \in Place \cup {0}, is \in Still :
       Job(i, fate, j, is)
  \/ Look
  \/ \E d \in Dir, own \in BOOLEAN, i \in Place \cup {0}, is \in Still : Return(d, own, i, is)
  \/ \E over \in BOOLEAN : Round(over)

Spec == Init /\ [][Next]_vars

-----------------------------------------------------------------------------
(***************************************************************************)
(* Between calls: a module or a tick leaves no job in the queue, a tick    *)
(* that answers idle and a koss_run_async that answers 0 leave nothing at  *)
(* all, and a module that answers 0 has no part of its body left; but for  *)
(* what writing the value as a string has left after that.  (An answer of  *)
(* 0 to koss_eval, koss_run_string and koss_run_file says nothing of what  *)
(* is left: they run no job, and a tick has to follow.)                    *)
(***************************************************************************)
AnswersAreKept ==
  call = NoCall =>
    /\ answer.of \in Module \cup {"tick"} => Queued \subseteq {answer.written}
    /\ \/ answer.of = "tick" /\ answer.idle
       \/ answer.of = "run_async" /\ answer.code = 0
       => Queued \cup Waiting \subseteq {answer.written}
    /\ answer.of \in Module /\ answer.code = 0 => answer.left = 0

(***************************************************************************)
(* Code is audited under the directory of what was run to bring it in,     *)
(* links resolved or not, and under NULL if that was a string, in every    *)
(* job of that call.  What is left when the call has ended is audited      *)
(* under the directory of whatever runs later.                             *)
(***************************************************************************)
PwdIsOfTheCall ==
  \/ audited.late
  \/ audited.given = audited.home
  \/ audited.home \in Dir /\ audited.given = RealDir[audited.home]
=============================================================================
