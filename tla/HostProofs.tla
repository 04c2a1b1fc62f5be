----------------------------- MODULE HostProofs -----------------------------
(***************************************************************************)
(* Proofs about what lies between the host and an instance: the gates of   *)
(* the sandbox (Sandbox, for any capabilities, operations, requirements    *)
(* and depth of nesting), the globals, the calls, the built-in modules and *)
(* what they require, and the web interfaces, each with its inductive      *)
(* invariant, and then MCHost, where they stand side by side.              *)
(***************************************************************************)
EXTENDS MCHost, DataFacts

(* The decisions enclosing the innermost one keep their places. *)
LEMMA OuterDecisions ==
  ASSUME TypeOK, deciding # <<>>
  PROVE  /\ Len(deciding) \in Nat \ {0}
         /\ Innermost \in Decision
         /\ Outer \in Seq(Decision)
         /\ Len(Outer) = Len(deciding) - 1
         /\ \A i \in 1 .. Len(Outer) : Outer[i] = deciding[i]
         /\ AuditsIn(Outer) = AuditsIn(deciding) \ {Len(deciding)}
<1>1. Len(deciding) \in Nat \ {0} /\ Innermost \in Decision
  BY EmptySeq DEF TypeOK, Innermost
<1>2. /\ Outer \in Seq(Decision)
      /\ Len(Outer) = Len(deciding) - 1
      /\ \A i \in 1 .. Len(Outer) : Outer[i] = deciding[i]
  <2>1. PICK n \in Nat : n = Len(deciding) - 1
    BY <1>1
  <2>2. \A i \in 1 .. n : deciding[i] \in Decision
    BY <1>1, <2>1 DEF TypeOK
  <2>3. /\ SubSeq(deciding, 1, n) \in Seq(Decision)
        /\ Len(SubSeq(deciding, 1, n)) = IF 1 <= n THEN n - 1 + 1 ELSE 0
        /\ \A i \in 1 .. n - 1 + 1 : SubSeq(deciding, 1, n)[i] = deciding[1 + i - 1]
    BY <2>2, SubSeqProperties
  <2> QED BY <2>1, <2>3 DEF Outer
<1>3. AuditsIn(Outer) = AuditsIn(deciding) \ {Len(deciding)}
  BY <1>1, <1>2 DEF AuditsIn
<1> QED BY <1>1, <1>2, <1>3

(* An outcome recorded by Ends is an outcome. *)
LEMMA EndsType ==
  ASSUME NEW op \in Op, NEW result \in Result, NEW host \in HostAnswer,
         NEW js \in JsAnswer \cup {"none"}, NEW enclosing,
         Ends(op, result, host, js)
  PROVE  /\ last' \in Outcome
         /\ last'.op = op /\ last'.result = result /\ last'.host = host
  BY DEF Ends, Outcome

(* What every decision in progress has passed. *)
Passed ==
  /\ \A i \in 1 .. Len(deciding) : Permitted(deciding[i].op)
  /\ \A i \in AuditsIn(deciding) : deciding[i].host = "allow"

(* Leaving a decision: those around it are as they were, and the audits in *)
(* progress too if it was not one of them.                                 *)
LEMMA Leave ==
  ASSUME IInv, deciding # <<>>, deciding' = Outer
  PROVE  /\ Passed'
         /\ Innermost.stage = "args" => AuditsIn(deciding') = AuditsIn(deciding)
<1>1. Innermost.stage = "args" => Len(deciding) \notin AuditsIn(deciding)
  BY DEF AuditsIn, Innermost
<1>2. AuditsIn(deciding') \subseteq 1 .. Len(deciding')
  BY DEF AuditsIn
<1>3. \A i \in 1 .. Len(deciding') : i \in 1 .. Len(deciding) /\ deciding'[i] = deciding[i]
  BY OuterDecisions DEF IInv
<1>4. \A i \in 1 .. Len(deciding') : Permitted(deciding'[i].op)
  BY <1>3 DEF IInv, Permitted
<1>5. \A i \in AuditsIn(deciding') : deciding'[i].host = "allow"
  BY <1>2, <1>3, OuterDecisions DEF IInv
<1> QED BY <1>1, <1>4, <1>5, OuterDecisions DEF IInv, Passed, Permitted

(* Entering the script's function: it becomes the only audit in progress. *)
LEMMA EnterJs ==
  ASSUME IInv, BeginJsAudit
  PROVE  /\ deciding' \in Seq(Decision)
         /\ Len(deciding') = Len(deciding)
         /\ \A i \in 1 .. Len(deciding) : deciding'[i].op = deciding[i].op
         /\ AuditsIn(deciding') = {Len(deciding)}
         /\ deciding'[Len(deciding)].host = "allow"
<1> DEFINE put == [op |-> Innermost.op, stage |-> "js", host |-> "allow"]
<1> USE DEF IInv, BeginJsAudit
<1>1. Len(deciding) \in Nat \ {0} /\ Innermost \in Decision /\ deciding \in Seq(Decision)
  BY OuterDecisions DEF TypeOK
<1>2. PICK d : d = put /\ deciding' = [deciding EXCEPT ![Len(deciding)] = d]
  BY DEF AsksScript
<1>3. d \in Decision /\ d.op = Innermost.op /\ d.stage = "js" /\ d.host = "allow"
  BY <1>1, <1>2 DEF Decision, Stage, HostAnswer
<1>4. deciding' \in Seq(Decision) /\ Len(deciding') = Len(deciding)
  BY <1>1, <1>2, <1>3, ExceptSeq
<1>5. \A i \in 1 .. Len(deciding) :
        deciding'[i] = IF i = Len(deciding) THEN d ELSE deciding[i]
  BY <1>1, <1>2, <1>3, ExceptSeq
<1>6. \A i \in 1 .. Len(deciding) : deciding'[i].op = deciding[i].op
  BY <1>1, <1>3, <1>5 DEF Innermost
<1>7. AuditsIn(deciding) = {}
  BY DEF AuditFlagExact
<1>8. AuditsIn(deciding') = {Len(deciding)}
  <2>1. \A i \in 1 .. Len(deciding) : deciding[i].stage # "js"
    BY <1>7 DEF AuditsIn
  <2> QED BY <1>1, <1>3, <1>4, <1>5, <2>1 DEF AuditsIn
<1> QED BY <1>1, <1>3, <1>4, <1>5, <1>6, <1>8

LEMMA GatesInit == Init => IInv
<1> SUFFICES ASSUME Init PROVE IInv
  OBVIOUS
<1>1. last.result = "none" /\ Len(deciding) = 0
  BY DEF Init, NoOutcome
<1>2. TypeOK
  <2>1. deciding \in Seq(Decision)
    BY EmptySeq DEF Init
  <2>2. last \in Outcome
    BY OpAssumption DEF Init, NoOutcome, Outcome, Result, HostAnswer
  <2> QED BY <2>1, <2>2 DEF Init, TypeOK
<1>3. AuditsIn(deciding) = {} /\ AuditFlagExact
  BY <1>1 DEF Init, AuditFlagExact, AuditsIn
<1> QED BY <1>1, <1>2, <1>3 DEF Init, IInv, ScriptOnlyRestricts

LEMMA GatesStep == IInv /\ [Next]_vars => IInv'
<1> SUFFICES ASSUME IInv, [Next]_vars PROVE IInv'
  OBVIOUS
<1> USE DEF IInv
<1>1. ASSUME NEW bits \in SUBSET Cap, SetAuditMask(bits) PROVE IInv'
  BY <1>1 DEF SetAuditMask, TypeOK, AuditFlagExact, ScriptOnlyRestricts, AuditsIn, Permitted
<1>2. ASSUME NEW registered \in BOOLEAN,
             SetHostAudit(registered) \/ SetJsAudit(registered) \/ ClearJsAudit
      PROVE  IInv'
  <2>1. /\ hostAudit' \in BOOLEAN /\ jsAudit' \in BOOLEAN
        /\ UNCHANGED <<mask, inProgress, running, deciding, last>>
    BY <1>2, Zenon DEF SetHostAudit, SetJsAudit, ClearJsAudit, policyVars, TypeOK
  <2>2. TypeOK'
    BY <2>1 DEF TypeOK
  <2> QED BY <2>1, <2>2 DEF AuditFlagExact, ScriptOnlyRestricts, AuditsIn, Permitted, NeedAudit
<1>3. CASE BeginScript
  BY <1>3 DEF BeginScript, policyVars, TypeOK, AuditFlagExact, ScriptOnlyRestricts,
              AuditsIn, Permitted, NeedAudit
<1>4. CASE EndScript
  <2>1. NoOutcome \in Outcome /\ NoOutcome.result = "none"
    BY OpAssumption DEF NoOutcome, Outcome, Result, HostAnswer
  <2>2. /\ UNCHANGED <<mask, hostAudit, jsAudit, inProgress, deciding>>
        /\ deciding = <<>> /\ running' = FALSE /\ last' = NoOutcome
    BY <1>4 DEF EndScript, policyVars
  <2>3. TypeOK'
    BY <2>1, <2>2 DEF TypeOK
  <2>4. AuditFlagExact'
    BY <2>2 DEF AuditFlagExact, AuditsIn
  <2>5. ScriptOnlyRestricts' /\ last'.result = "none"
    BY <2>1, <2>2 DEF ScriptOnlyRestricts
  <2> QED BY <2>2, <2>3, <2>4, <2>5 DEF Permitted
<1>5. ASSUME NEW op \in Op, DecideWithoutAudit(op) PROVE IInv'
  <2> DEFINE result == IF ~Permitted(op) THEN "capability_error"
                       ELSE IF ~NeedAudit(op) THEN "performed" ELSE "config_error"
  <2>1. Ends(op, result, "none", "none")
    BY <1>5 DEF DecideWithoutAudit
  <2>2. result \in Result /\ "none" \in HostAnswer
    BY DEF Result, HostAnswer
  <2>3. result = "performed" => Permitted(op) /\ ~NeedAudit(op)
    OBVIOUS
  <2> HIDE DEF result
  <2>4. last' \in Outcome /\ last'.op = op /\ last'.result = result
    BY <2>1, <2>2, EndsType
  <2>5. ScriptOnlyRestricts'
    BY <1>5, <2>3, <2>4 DEF DecideWithoutAudit, policyVars, ScriptOnlyRestricts,
                             Permitted, NeedAudit
  <2> QED BY <1>5, <2>4, <2>5 DEF DecideWithoutAudit, policyVars, TypeOK, AuditFlagExact,
                                   AuditsIn, Permitted
<1>6. ASSUME NEW op \in Op, BeginAudit(op) PROVE IInv'
  <2>1. deciding' = Append(deciding, [op |-> op, stage |-> "args", host |-> "none"])
        /\ [op |-> op, stage |-> "args", host |-> "none"] \in Decision
    BY <1>6 DEF BeginAudit, Decision, Stage, HostAnswer
  <2>2. /\ deciding' \in Seq(Decision)
        /\ Len(deciding) \in Nat
        /\ Len(deciding') = Len(deciding) + 1
        /\ \A i \in 1 .. Len(deciding) : deciding'[i] = deciding[i]
        /\ deciding'[Len(deciding) + 1] = [op |-> op, stage |-> "args", host |-> "none"]
    BY <2>1, AppendProperties DEF TypeOK
  <2>3. AuditsIn(deciding') = AuditsIn(deciding)
    BY <2>2 DEF AuditsIn
  <2>4. \A i \in 1 .. Len(deciding') : Permitted(deciding'[i].op)
    BY <1>6, <2>2 DEF BeginAudit
  <2>5. \A i \in AuditsIn(deciding') : deciding'[i].host = "allow"
    BY <2>2, <2>3 DEF AuditsIn
  <2> QED BY <1>6, <2>2, <2>3, <2>4, <2>5 DEF BeginAudit, policyVars, TypeOK, AuditFlagExact,
                                       ScriptOnlyRestricts, Permitted, NeedAudit
<1>7. CASE HostBlocks
  <2>1. Innermost.op \in Op /\ "denied" \in Result /\ "block" \in HostAnswer
    BY <1>7, OuterDecisions DEF HostBlocks, Decision, Result, HostAnswer
  <2>2. last' \in Outcome /\ last'.result = "denied"
    BY <1>7, <2>1, EndsType DEF HostBlocks
  <2> QED BY <1>7, <2>2, Leave, OuterDecisions
          DEF Passed, HostBlocks, policyVars, TypeOK, AuditFlagExact, ScriptOnlyRestricts, Permitted
<1>8. CASE HostAllowsAndDecides
  <2> DEFINE result == IF ~jsAudit THEN "performed" ELSE "denied"
  <2>1. /\ Innermost.op \in Op /\ result \in Result /\ "allow" \in HostAnswer
        /\ Permitted(Innermost.op)
    BY <1>8, OuterDecisions DEF HostAllowsAndDecides, Decision, Result, HostAnswer, Innermost
  <2> HIDE DEF result
  <2>2. Ends(Innermost.op, result, "allow", "none")
    BY <1>8 DEF HostAllowsAndDecides, result
  <2>3. last' \in Outcome /\ last'.op = Innermost.op /\ last'.host = "allow"
    BY <2>1, <2>2, EndsType
  <2> QED BY <1>8, <2>1, <2>3, Leave, OuterDecisions
          DEF Passed, HostAllowsAndDecides, policyVars, TypeOK, AuditFlagExact,
              ScriptOnlyRestricts, Permitted
<1>9. CASE BeginJsAudit
  <2>1. Len(deciding) \in Nat
    BY <1>9, OuterDecisions DEF BeginJsAudit
  <2> QED BY <1>9, <2>1, EnterJs DEF BeginJsAudit, policyVars, TypeOK, AuditFlagExact,
                       ScriptOnlyRestricts, Permitted, NeedAudit
<1>10. ASSUME NEW said \in JsAnswer, EndJsAudit(said) PROVE IInv'
  <2> DEFINE result == IF said \in {"true", "promise"} THEN "performed" ELSE "denied"
  <2>1. /\ Innermost.op \in Op /\ result \in Result /\ Innermost.host \in HostAnswer
        /\ Permitted(Innermost.op)
    BY <1>10, OuterDecisions DEF EndJsAudit, Decision, Result, Innermost
  <2> HIDE DEF result
  <2>2. Ends(Innermost.op, result, Innermost.host, said)
    BY <1>10 DEF EndJsAudit, result
  <2>4. Len(deciding) \in AuditsIn(deciding) /\ Innermost.host = "allow"
    BY <1>10, OuterDecisions DEF EndJsAudit, AuditsIn, Innermost
  <2>3. last' \in Outcome /\ last'.op = Innermost.op /\ last'.host = "allow"
    BY <2>1, <2>2, <2>4, EndsType
  <2>5. AuditsIn(deciding') = {}
    BY <1>10, <2>4, OuterDecisions DEF EndJsAudit, AuditFlagExact
  <2>6. /\ UNCHANGED <<mask, hostAudit, jsAudit, running>>
        /\ inProgress' = FALSE /\ deciding' = Outer
        /\ deciding # <<>> /\ running
    BY <1>10 DEF EndJsAudit, policyVars
  <2>7. TypeOK'
    BY <2>3, <2>6, OuterDecisions DEF TypeOK
  <2>8. AuditFlagExact'
    BY <2>5, <2>6 DEF AuditFlagExact
  <2>9. ScriptOnlyRestricts'
    BY <2>1, <2>3, <2>6 DEF ScriptOnlyRestricts, Permitted
  <2> QED BY <2>5, <2>6, <2>7, <2>8, <2>9, Leave, OuterDecisions DEF Passed, Permitted
<1>11. CASE UNCHANGED vars
  BY <1>11 DEF vars, TypeOK, AuditFlagExact, ScriptOnlyRestricts, AuditsIn,
               Permitted, NeedAudit
<1> QED BY <1>1, <1>2, <1>3, <1>4, <1>5, <1>6, <1>7, <1>8, <1>9, <1>10, <1>11 DEF Next

(* IInv is an invariant: what each decision in progress has passed, and    *)
(* that the host changes its policy only when nothing is being decided.    *)
THEOREM Inductive == Spec => []IInv
  BY GatesInit, GatesStep, PTL DEF Spec

(* The variables keep their types: the mask never exceeds the grant. *)
THEOREM TypeCorrect == Spec => []TypeOK
  BY Inductive, PTL DEF IInv

(* The re-entry flag is up exactly while the audit function runs. *)
THEOREM AuditFlagIsExact == Spec => []AuditFlagExact
  BY Inductive, PTL DEF IInv

(* The script's audit function only ever restricts what the host decided. *)
THEOREM ScriptNeverWidens == Spec => []ScriptOnlyRestricts
  BY Inductive, PTL DEF IInv

-----------------------------------------------------------------------------
(* The globals: which places lie under which. *)
LEMMA PrefixMeans ==
  ASSUME NEW S, NEW p \in Seq(S), NEW q \in Seq(S)
  PROVE  /\ G!IsPrefix(p, q) <=> Len(p) <= Len(q) /\ \A i \in 1 .. Len(p) : p[i] = q[i]
         /\ G!IsStrictPrefix(p, q) <=> Len(p) < Len(q) /\ \A i \in 1 .. Len(p) : p[i] = q[i]
<1>0. Len(p) \in Nat /\ Len(q) \in Nat
  OBVIOUS
<1>1. /\ SubSeq(p, 1, Len(p)) \in Seq(S) /\ Len(SubSeq(p, 1, Len(p))) = Len(p)
      /\ \A i \in 1 .. Len(p) : SubSeq(p, 1, Len(p))[i] = p[i]
  BY <1>0
<1>2. Len(p) <= Len(q) =>
        /\ SubSeq(q, 1, Len(p)) \in Seq(S) /\ Len(SubSeq(q, 1, Len(p))) = Len(p)
        /\ \A i \in 1 .. Len(p) : SubSeq(q, 1, Len(p))[i] = q[i]
  BY <1>0
<1>3. G!IsPrefix(p, q) <=> Len(p) <= Len(q) /\ \A i \in 1 .. Len(p) : p[i] = q[i]
  <2>1. ASSUME Len(p) <= Len(q), \A i \in 1 .. Len(p) : p[i] = q[i] 
        PROVE  SubSeq(p, 1, Len(p)) = SubSeq(q, 1, Len(p))
    <3> DEFINE a == SubSeq(p, 1, Len(p))
               b == SubSeq(q, 1, Len(p))
    <3>1. /\ a \in Seq(S) /\ b \in Seq(S) /\ Len(a) = Len(b)
          /\ \A i \in 1 .. Len(a) : a[i] = b[i]
      BY <1>0, <1>1, <1>2, <2>1
    <3> HIDE DEF a, b
    <3>2. a = b
      BY <3>1, SeqEqual
    <3> QED BY <3>2 DEF a, b
  <2> QED BY <1>1, <1>2, <2>1 DEF G!IsPrefix
<1>4. Len(p) = Len(q) /\ (\A i \in 1 .. Len(p) : p[i] = q[i]) => p = q
  BY SeqEqual
<1>5. p = q => Len(p) = Len(q)
  OBVIOUS
<1> QED BY <1>0, <1>3, <1>4, <1>5 DEF G!IsStrictPrefix

LEMMA FrontMeans ==
  ASSUME NEW S, NEW p \in Seq(S), Len(p) > 1
  PROVE  /\ G!Front(p) = SubSeq(p, 1, Len(p) - 1) /\ G!Front(p) \in Seq(S)
         /\ Len(G!Front(p)) = Len(p) - 1
         /\ \A i \in 1 .. Len(p) - 1 : G!Front(p)[i] = p[i]
BY DEF G!Front

(* Every part of a path is a path.                                         *)
LEMMA PathsHold ==
  ASSUME NEW p \in Path
  PROVE  /\ p \in Seq(STRING) /\ Len(p) \in Nat \ {0}
         /\ Len(p) > 1 => G!Front(p) \in Path
         /\ \A n \in 1 .. Len(p) - 1 :
              /\ SubSeq(p, 1, n) \in Path /\ Len(SubSeq(p, 1, n)) = n
              /\ \A i \in 1 .. n : SubSeq(p, 1, n)[i] = p[i]
<1>1. PICK S : S = STRING
  OBVIOUS
<1>2. p \in Seq(S) /\ p # <<>>
  BY <1>1, GlobalsAssumption
<1>3. Len(p) \in Nat \ {0}
  BY <1>2
<1>4. ASSUME NEW n \in 1 .. Len(p) - 1
      PROVE  Len(SubSeq(p, 1, n)) = n /\ \A i \in 1 .. n : SubSeq(p, 1, n)[i] = p[i]
  BY <1>2, <1>3
<1>5. Len(p) > 1 => G!Front(p) \in Path
  BY <1>3, GlobalsAssumption DEF G!Front
<1> QED BY <1>1, <1>2, <1>3, <1>4, <1>5, GlobalsAssumption

-----------------------------------------------------------------------------
(* What a tree must keep, whoever writes to it.                            *)
Tree == [Path -> G!GlobalValue]
Solid == G!Containers \cup {"function", "class"}
Held(t) == \A p \in Path : t[p].is # "absent" => G!Holder(t, p).is \in Solid
KossKept(t) == \A p \in Path : G!IsPrefix(KossJS, p) =>
                 t[p] = G!Is(IF p = KossJS THEN "frozen" ELSE "absent")
NoneFrozen(t) == \A p \in Path : t[p].is = "frozen" => p = KossJS

LEMMA PutAt ==
  ASSUME NEW t \in Tree, NEW p \in Path, NEW v \in G!GlobalValue
  PROVE  /\ G!Put(t, p, v) \in Tree
         /\ ~G!Takes(t, p) => G!Put(t, p, v) = t
         /\ \A q \in Path : G!Takes(t, p) =>
              G!Put(t, p, v)[q] = IF q = p THEN v
                                  ELSE IF G!IsStrictPrefix(p, q) THEN G!Is("absent") ELSE t[q]
<1>1. G!Is("absent") \in G!GlobalValue
  BY DEF G!Is, G!GlobalValue
<1> QED BY <1>1 DEF G!Put, Tree

(* Below KossJS nothing takes a value. *)
LEMMA KossTakesNothing ==
  ASSUME NEW t \in Tree, KossKept(t), KossJS \in fixed,
         NEW p \in Path, G!IsPrefix(KossJS, p)
  PROVE  ~G!Takes(t, p)
<1>1. PICK S : Path \subseteq Seq(S)
  BY GlobalsAssumption
<1>2. /\ p \in Seq(S) /\ Len(p) \in Nat \ {0} /\ KossJS \in Seq(S) /\ Len(KossJS) = 1
      /\ KossJS[1] = p[1]
  BY <1>1, GlobalsAssumption, PathsHold, PrefixMeans
<1>3. CASE Len(p) = 1
  <2>1. p = KossJS
    BY <1>2, <1>3, SeqEqual
  <2> QED BY <2>1 DEF G!Takes
<1>4. CASE Len(p) > 1
  <2>1. G!Front(p) \in Path /\ G!IsPrefix(KossJS, G!Front(p))
    BY <1>2, <1>4, PathsHold, FrontMeans, PrefixMeans
  <2>2. t[G!Front(p)].is \in {"frozen", "absent"}
    <3>1. t[G!Front(p)] = G!Is("frozen") \/ t[G!Front(p)] = G!Is("absent")
      BY <2>1 DEF KossKept
    <3> QED BY <3>1 DEF G!Is
  <2> QED BY <1>2, <1>4, <2>2 DEF G!Takes, G!Holder
<1> QED BY <1>2, <1>3, <1>4

LEMMA PutKeeps ==
  ASSUME NEW t \in Tree, Held(t), KossKept(t), KossJS \in fixed, NEW p \in Path,
         NEW v \in G!GlobalValue, v.is # "frozen"
  PROVE  LET u == G!Put(t, p, v) IN
         u \in Tree /\ Held(u) /\ KossKept(u) /\ (NoneFrozen(t) => NoneFrozen(u))
<1> DEFINE u == G!Put(t, p, v)
<1>1. CASE ~G!Takes(t, p)
  BY <1>1, PutAt
<1>2. CASE G!Takes(t, p)
  <2>1. /\ u \in Tree
        /\ \A q \in Path : u[q] = IF q = p THEN v
                                  ELSE IF G!IsStrictPrefix(p, q) THEN G!Is("absent") ELSE t[q]
    BY <1>2, PutAt
  <2> HIDE DEF u
  <2>2. PICK S : Path \subseteq Seq(S)
    BY GlobalsAssumption
  <2>3. \A q \in Path : Len(q) \in Nat \ {0} /\ (Len(q) > 1 => G!Front(q) \in Path)
    BY PathsHold
  <2>4. ~G!IsPrefix(KossJS, p)
    BY <1>2, KossTakesNothing
  <2>5. KossKept(u)
    <3>1. ASSUME NEW q \in Path, G!IsPrefix(KossJS, q)
          PROVE  q # p /\ ~G!IsStrictPrefix(p, q)
      BY <2>2, <2>3, <2>4, <3>1, GlobalsAssumption, PrefixMeans
    <3> QED BY <2>1, <3>1 DEF KossKept
  <2>6. NoneFrozen(t) => NoneFrozen(u)
    BY <2>1 DEF NoneFrozen, G!Is
  <2>7. ASSUME NEW q \in Path, u[q].is # "absent"
        PROVE  G!Holder(u, q).is \in Solid
    <3>1. CASE Len(q) = 1
      BY <3>1 DEF G!Holder, G!Is, Solid, G!Containers
    <3>2. CASE Len(q) > 1
      <4>1. G!Front(q) \in Path /\ Len(G!Front(q)) = Len(q) - 1
            /\ \A i \in 1 .. Len(q) - 1 : G!Front(q)[i] = q[i]
        BY <2>2, <2>3, <3>2, FrontMeans
      <4>2. ~G!IsStrictPrefix(p, q)
        BY <2>1, <2>7, <2>2, <2>3, PrefixMeans DEF G!Is
      <4>3. G!Front(q) # p /\ ~G!IsStrictPrefix(p, G!Front(q))
        BY <2>2, <2>3, <3>2, <4>1, <4>2, PrefixMeans
      <4>4. u[G!Front(q)] = t[G!Front(q)]
        BY <2>1, <4>1, <4>3
      <4>5. CASE q = p
        BY <1>2, <3>2, <4>4, <4>5 DEF G!Takes, G!Holder, Solid, G!Containers
      <4>6. CASE q # p
        <5>1. u[q] = t[q]
          BY <2>1, <4>2, <4>6
        <5> QED BY <2>7, <3>2, <4>4, <5>1 DEF Held, G!Holder
      <4> QED BY <4>5, <4>6
    <3>3. Len(q) = 1 \/ Len(q) > 1
      BY <2>3
    <3> QED BY <3>1, <3>2, <3>3
  <2>8. Held(u)
    BY <2>7 DEF Held
  <2> QED BY <2>1, <2>5, <2>6, <2>8 DEF u
<1> QED BY <1>1, <1>2

LEMMA WithObjectKeeps ==
  ASSUME NEW t \in Tree, Held(t), KossKept(t), KossJS \in fixed, NEW p \in Path
  PROVE  LET u == G!WithObject(t, p) IN
         u \in Tree /\ Held(u) /\ KossKept(u) /\ (NoneFrozen(t) => NoneFrozen(u))
<1>1. G!Is("object") \in G!GlobalValue /\ G!Is("object").is # "frozen"
  BY DEF G!Is, G!GlobalValue
<1> QED BY <1>1, PutKeeps DEF G!WithObject

(* The code of set_nested_property runs through the prefixes in turn: what *)
(* the tree is after each.                                                 *)
WalkOf(p, w) ==
  /\ w[0] = tree
  /\ \A n \in 1 .. Len(p) - 1 : w[n] = G!WithObject(w[n - 1], SubSeq(p, 1, n))

LEMMA WalkGoesOn ==
  ASSUME tree \in Tree, NEW p \in Path
  PROVE  \E w : WalkOf(p, w) /\ G!Walked(p) = w[Len(p) - 1]
<1> DEFINE deep == Len(p) - 1
           part == G!Intermediates(p)
           D == DOMAIN part
           After(s, t) == IF s = {} THEN tree ELSE G!WithObject(t, part[G!Max(s)])
           Good(iter) == iter = [s \in SUBSET D |-> IF s = {} THEN tree
                                   ELSE G!WithObject(iter[s \ {G!Max(s)}], part[G!Max(s)])]
           walked == CHOOSE iter : Good(iter)
<1>1. deep \in Nat /\ D = 1 .. deep /\ \A n \in D : part[n] = SubSeq(p, 1, n)
  BY PathsHold DEF G!Intermediates
<1>2. G!Walked(p) = walked[D]
  BY DEF G!Walked, G!FoldLeft, G!MapThenFoldSet
<1>3. IsFiniteSet(D)
  <2>1. 1 \in Int /\ deep \in Int
    BY <1>1
  <2> QED BY <1>1, <2>1, FS_Interval
<1>4. ASSUME NEW s \in SUBSET D, s # {} PROVE G!Max(s) \in s /\ part[G!Max(s)] \in Path
  <2>1. \E m \in s : \A x \in s : m >= x
    BY <1>1, <1>4, Greatest
  <2>2. G!Max(s) \in s
    BY <2>1 DEF G!Max
  <2>3. PICK m \in 1 .. Len(p) - 1 : m = G!Max(s)
    BY <1>1, <2>2
  <2>4. SubSeq(p, 1, m) \in Path
    BY PathsHold
  <2>5. part[m] = SubSeq(p, 1, m)
    BY <1>1
  <2> QED BY <2>2, <2>3, <2>4, <2>5
<1>5. ASSUME NEW s \in SUBSET D, NEW t \in Tree PROVE After(s, t) \in Tree
  <2>1. ASSUME NEW q \in Path PROVE G!WithObject(t, q) \in Tree
    <3>1. G!Is("object") \in G!GlobalValue
      BY DEF G!Is, G!GlobalValue
    <3> QED BY <3>1, PutAt DEF G!WithObject
  <2> HIDE DEF part
  <2> QED BY <1>4, <2>1
<1>6. \E iter : Good(iter)
  <2> DEFINE step == [a \in (SUBSET D) \X Tree |-> After(a[1], a[2])]
             pick == [s \in SUBSET D |-> G!Max(s)]
  <2>1. step \in [(SUBSET D) \X Tree -> Tree]
    <3> HIDE DEF After, D
    <3> QED BY <1>5
  <2>2. Picks(pick, D)
    BY <1>4 DEF Picks
  <2>3. PICK h \in [SUBSET D -> Tree] : Unfolds(h, D, tree, pick, step)
    <3>1. tree \in Tree
      OBVIOUS
    <3> HIDE DEF D, step, pick
    <3> QED BY <1>3, <2>1, <2>2, <3>1, SubsetRecursion
  <2>4. ASSUME NEW s \in SUBSET D, s # {}
        PROVE  h[s] = G!WithObject(h[s \ {G!Max(s)}], part[G!Max(s)])
    <3>1. s \ {G!Max(s)} \in SUBSET D /\ pick[s] = G!Max(s)
      BY <2>4
    <3>2. <<s, h[s \ {G!Max(s)}]>> \in (SUBSET D) \X Tree
      BY <3>1
    <3>3. h[s] = step[<<s, h[s \ {G!Max(s)}]>>]
      BY <2>3, <2>4, <3>1 DEF Unfolds
    <3> HIDE DEF D, pick, part
    <3> QED BY <2>4, <3>2, <3>3
  <2>5. Good(h)
    <3> HIDE DEF After, step, pick, D, part
    <3> QED BY <2>3, <2>4 DEF Unfolds
  <2> QED BY <2>5
<1>7. Good(walked)
  <2> HIDE DEF Good
  <2> QED BY <1>6
<1> HIDE DEF walked
<1>8. ASSUME NEW s \in SUBSET D
      PROVE  walked[s] = IF s = {} THEN tree
                         ELSE G!WithObject(walked[s \ {G!Max(s)}], part[G!Max(s)])
  <2> HIDE DEF D, part
  <2> QED BY <1>7
<1> DEFINE w == [n \in 0 .. deep |-> walked[1 .. n]]
<1>9. w[0] = tree
  <2>1. 1 .. 0 = {} /\ 0 \in 0 .. deep
    BY <1>1
  <2> QED BY <1>8, <2>1
<1>10. ASSUME NEW n \in 1 .. deep PROVE w[n] = G!WithObject(w[n - 1], SubSeq(p, 1, n))
  <2>1. n \in D /\ (1 .. n) \in SUBSET D /\ 1 .. n # {} /\ n \in 0 .. deep /\ n - 1 \in 0 .. deep
    <3> HIDE DEF part, deep
    <3> QED BY <1>1
  <2>2. G!Max(1 .. n) = n
    <3>0. n \in Nat \ {0}
      BY <1>1
    <3>1. n \in 1 .. n /\ \A x \in 1 .. n : n >= x
      BY <3>0
    <3>2. \A m \in 1 .. n : (\A x \in 1 .. n : m >= x) => m = n
      BY <3>0
    <3> QED BY <3>1, <3>2 DEF G!Max
  <2>3. (1 .. n) \ {n} = 1 .. n - 1
    BY <1>1
  <2>4. w[n] = walked[1 .. n] /\ w[n - 1] = walked[1 .. n - 1]
    BY <2>1
  <2>5. walked[1 .. n] = G!WithObject(walked[(1 .. n) \ {n}], part[n])
    <3> HIDE DEF part, D
    <3> QED BY <1>8, <2>1, <2>2
  <2>6. part[n] = SubSeq(p, 1, n)
    BY <1>1
  <2> HIDE DEF w, part
  <2> QED BY <2>3, <2>4, <2>5, <2>6
<1>11. G!Walked(p) = w[deep]
  BY <1>1, <1>2
<1> HIDE DEF w
<1> QED BY <1>9, <1>10, <1>11 DEF WalkOf

(* What each step keeps is so at the end. *)
LEMMA WalkKeeps ==
  ASSUME tree \in Tree, Held(tree), KossKept(tree), KossJS \in fixed, NEW p \in Path, NEW w,
         WalkOf(p, w), NEW m \in 0 .. Len(p) - 1
  PROVE  w[m] \in Tree /\ Held(w[m]) /\ KossKept(w[m]) /\ (NoneFrozen(tree) => NoneFrozen(w[m]))
<1> DEFINE Fine(t) == t \in Tree /\ Held(t) /\ KossKept(t) /\ (NoneFrozen(tree) => NoneFrozen(t))
           Bad == {n \in 0 .. Len(p) - 1 : ~Fine(w[n])}
<1>1. Len(p) \in Nat
  BY PathsHold
<1>2. SUFFICES ASSUME Bad # {} PROVE FALSE
  OBVIOUS
<1>3. PICK n \in Bad : \A k \in Bad : n <= k
  <2>1. IsFiniteSet(0 .. Len(p) - 1)
    <3>1. 0 \in Int /\ Len(p) - 1 \in Int
      BY <1>1
    <3> QED BY <3>1, FS_Interval
  <2>2. IsFiniteSet(Bad) /\ Bad \subseteq Nat
    BY <1>1, <2>1, FS_Subset
  <2> HIDE DEF Bad
  <2> QED BY <1>2, <2>2, Smallest
<1>4. n # 0
  BY DEF WalkOf
<1>5. n - 1 \in 0 .. Len(p) - 1 /\ n - 1 \notin Bad /\ n \in 1 .. Len(p) - 1
  BY <1>1, <1>3, <1>4
<1>6. Fine(w[n - 1]) /\ w[n] = G!WithObject(w[n - 1], SubSeq(p, 1, n)) /\ SubSeq(p, 1, n) \in Path
  BY <1>5, PathsHold DEF WalkOf
<1>7. Fine(w[n])
  BY <1>6, WithObjectKeeps
<1> QED BY <1>7

(* Until a script fixes or freezes something, every intermediate outside   *)
(* KossJS is an object when the value is written.                          *)
LEMMA WalkMakesObjects ==
  ASSUME tree \in Tree, Held(tree), KossKept(tree), KossJS \in fixed, fixed = {KossJS},
         NoneFrozen(tree), NEW p \in Path, ~G!IsPrefix(KossJS, p), NEW w, WalkOf(p, w),
         NEW m \in 1 .. Len(p) - 1
  PROVE  w[m][SubSeq(p, 1, m)].is = "object"
<1> DEFINE Made(n) == w[n][SubSeq(p, 1, n)].is = "object"
           Bad == {n \in 1 .. Len(p) - 1 : ~Made(n)}
<1>1. Len(p) \in Nat
  BY PathsHold
<1>2. SUFFICES ASSUME Bad # {} PROVE FALSE
  OBVIOUS
<1>3. PICK n \in Bad : \A k \in Bad : n <= k
  <2>1. IsFiniteSet(1 .. Len(p) - 1)
    <3>1. 1 \in Int /\ Len(p) - 1 \in Int
      BY <1>1
    <3> QED BY <3>1, FS_Interval
  <2>2. IsFiniteSet(Bad) /\ Bad \subseteq Nat
    BY <1>1, <2>1, FS_Subset
  <2> HIDE DEF Bad
  <2> QED BY <1>2, <2>2, Smallest
<1>4. PICK q \in Path : q = SubSeq(p, 1, n)
  BY PathsHold
<1>5. /\ n \in 1 .. Len(p) - 1 /\ n - 1 \in 0 .. Len(p) - 1
      /\ w[n] = G!WithObject(w[n - 1], q)
  BY <1>1, <1>4 DEF WalkOf
<1>6. w[n - 1] \in Tree /\ NoneFrozen(w[n - 1])
  BY <1>5, WalkKeeps
<1>7. PICK S : Path \subseteq Seq(S)
  BY GlobalsAssumption
<1>8. Len(q) = n /\ \A i \in 1 .. n : q[i] = p[i]
  BY <1>4, <1>5, PathsHold
<1>9. ~G!IsPrefix(KossJS, q) /\ q # KossJS
  <2>1. KossJS \in Path /\ Len(KossJS) = 1
    BY GlobalsAssumption
  <2>2. G!IsPrefix(KossJS, q) => G!IsPrefix(KossJS, p)
    BY <1>1, <1>5, <1>7, <1>8, <2>1, PrefixMeans
  <2>3. G!IsPrefix(KossJS, KossJS)
    BY <1>7, <2>1, PrefixMeans
  <2> QED BY <2>2, <2>3
<1>10. CASE w[n - 1][q].is \in G!Containers
  <2>1. w[n - 1][q].is = "object"
    BY <1>6, <1>9, <1>10 DEF NoneFrozen, G!Containers
  <2> QED BY <1>4, <1>5, <1>10, <2>1 DEF G!WithObject
<1>11. CASE w[n - 1][q].is \notin G!Containers
  <2>1. w[n] = G!Put(w[n - 1], q, G!Is("object"))
    BY <1>5, <1>11 DEF G!WithObject
  <2>2. G!Holder(w[n - 1], q).is = "object"
    <3>1. CASE n = 1
      BY <1>8, <3>1 DEF G!Holder, G!Is
    <3>2. CASE n > 1
      <4>1. n - 1 \notin Bad /\ n - 1 \in 1 .. Len(p) - 1
        BY <1>1, <1>3, <1>5, <3>2
      <4>2. G!Front(q) = SubSeq(p, 1, n - 1)
        <5> DEFINE a == G!Front(q)
                   b == SubSeq(p, 1, n - 1)
        <5>1. /\ a \in Seq(S) /\ Len(a) = n - 1
              /\ \A i \in 1 .. n - 1 : a[i] = q[i]
          BY <1>7, <1>8, <3>2, FrontMeans
        <5>2. /\ b \in Seq(S) /\ Len(b) = n - 1
              /\ \A i \in 1 .. n - 1 : b[i] = p[i]
          BY <1>7, <4>1, PathsHold
        <5>3. \A i \in 1 .. n - 1 : a[i] = b[i]
          BY <1>5, <1>8, <5>1, <5>2
        <5> HIDE DEF a, b
        <5>4. a = b
          BY <5>1, <5>2, <5>3, SeqEqual
        <5> QED BY <5>4 DEF a, b
      <4>3. Made(n - 1)
        BY <4>1
      <4> QED BY <1>8, <3>2, <4>2, <4>3 DEF G!Holder
    <3> QED BY <1>5, <3>1, <3>2
  <2>3. G!Takes(w[n - 1], q)
    BY <1>9, <2>2 DEF G!Takes
  <2>4. w[n][q] = G!Is("object")
    <3>1. G!Is("object") \in G!GlobalValue
      BY DEF G!Is, G!GlobalValue
    <3> QED BY <1>6, <2>1, <2>3, <3>1, PutAt
  <2> QED BY <1>4, <2>4 DEF G!Is
<1> QED BY <1>10, <1>11

(* A registration that stumbles met something hardened, or KossJS. *)
LEMMA StumblesOverHardened ==
  ASSUME tree \in Tree, Held(tree), KossKept(tree), KossJS \in fixed,
         NEW p \in Path, Len(p) # 1, G!Stumbles(p)
  PROVE  fixed # {KossJS} \/ ~NoneFrozen(tree) \/ G!IsPrefix(KossJS, p)
<1> SUFFICES ASSUME fixed = {KossJS}, NoneFrozen(tree), ~G!IsPrefix(KossJS, p) PROVE FALSE
  OBVIOUS
<1>1. PICK w : WalkOf(p, w) /\ G!Walked(p) = w[Len(p) - 1]
  BY WalkGoesOn
<1>2. Len(p) - 1 \in 1 .. Len(p) - 1 /\ G!Front(p) = SubSeq(p, 1, Len(p) - 1)
  <2>1. PICK n \in Nat : n = Len(p) /\ n # 0
    BY PathsHold
  <2>2. n - 1 \in 1 .. n - 1
    BY <2>1
  <2> QED BY <2>1, <2>2 DEF G!Front
<1>3. w[Len(p) - 1][G!Front(p)].is = "object"
  BY <1>1, <1>2, WalkMakesObjects
<1> QED BY <1>1, <1>3 DEF G!Stumbles, G!Throws, G!Holder

(* What a registration writes keeps the tree. *)
LEMMA RegisteredKeeps ==
  ASSUME tree \in Tree, Held(tree), KossKept(tree), KossJS \in fixed, NEW p \in Path,
         NEW f \in Callback
  PROVE  LET u == G!Registered(p, f) IN
         u \in Tree /\ Held(u) /\ KossKept(u) /\ (NoneFrozen(tree) => NoneFrozen(u))
<1>1. PICK w : WalkOf(p, w) /\ G!Walked(p) = w[Len(p) - 1]
  BY WalkGoesOn
<1>2. PICK t : t = G!Walked(p)
  OBVIOUS
<1>3. t \in Tree /\ Held(t) /\ KossKept(t) /\ (NoneFrozen(tree) => NoneFrozen(t))
  <2>1. Len(p) - 1 \in 0 .. Len(p) - 1
    BY PathsHold
  <2> QED BY <1>1, <1>2, <2>1, WalkKeeps
<1>4. G!Function(f) \in G!GlobalValue /\ G!Function(f).is # "frozen"
  BY DEF G!Function, G!GlobalValue
<1>5. G!Registered(p, f) = G!Put(t, p, G!Function(f))
  BY <1>2 DEF G!Registered
<1> QED BY <1>3, <1>4, <1>5, PutKeeps

(* It takes away what stood at the path, and what stood where an object    *)
(* was needed.                                                             *)
Yields(p, q) == \E n \in 1 .. Len(p) - 1 :
  G!IsPrefix(SubSeq(p, 1, n), q) /\ tree[SubSeq(p, 1, n)].is \notin G!Containers

LEMMA WalkSpares ==
  ASSUME tree \in Tree, Held(tree), KossKept(tree), KossJS \in fixed, NEW p \in Path, NEW w,
         WalkOf(p, w), NEW m \in 0 .. Len(p) - 1, NEW q \in Path
  PROVE  w[m][q] = tree[q] \/ Yields(p, q)
<1> DEFINE Spared(n) == \A a \in Path : w[n][a] = tree[a] \/ Yields(p, a)
           Bad == {n \in 0 .. Len(p) - 1 : ~Spared(n)}
<1>1. Len(p) \in Nat
  BY PathsHold
<1>2. SUFFICES ASSUME Bad # {} PROVE FALSE
  OBVIOUS
<1>3. PICK n \in Bad : \A k \in Bad : n <= k
  <2>1. IsFiniteSet(0 .. Len(p) - 1)
    <3>1. 0 \in Int /\ Len(p) - 1 \in Int
      BY <1>1
    <3> QED BY <3>1, FS_Interval
  <2>2. IsFiniteSet(Bad) /\ Bad \subseteq Nat
    BY <1>1, <2>1, FS_Subset
  <2> HIDE DEF Bad
  <2> QED BY <1>2, <2>2, Smallest
<1>4. n # 0
  BY DEF WalkOf
<1>5. n - 1 \in 0 .. Len(p) - 1 /\ n - 1 \notin Bad /\ n \in 1 .. Len(p) - 1
  BY <1>1, <1>3, <1>4
<1>6. PICK b \in Path : b = SubSeq(p, 1, n)
  BY <1>5, PathsHold
<1>7. Spared(n - 1) /\ w[n] = G!WithObject(w[n - 1], b) /\ w[n - 1] \in Tree
  BY <1>5, <1>6, WalkKeeps DEF WalkOf
<1>8. PICK S : Path \subseteq Seq(S)
  BY GlobalsAssumption
<1>9. ASSUME NEW a \in Path PROVE w[n][a] = tree[a] \/ Yields(p, a)
  <2>1. CASE w[n][a] = w[n - 1][a]
    BY <1>7, <2>1
  <2>2. CASE w[n][a] # w[n - 1][a]
    <3>1. w[n - 1][b].is \notin G!Containers /\ w[n] = G!Put(w[n - 1], b, G!Is("object"))
      BY <1>7, <2>2 DEF G!WithObject
    <3>2. a = b \/ G!IsStrictPrefix(b, a)
      <4>1. G!Is("object") \in G!GlobalValue
        BY DEF G!Is, G!GlobalValue
      <4> QED BY <1>7, <2>2, <3>1, <4>1, PutAt
    <3>3. G!IsPrefix(b, a)
      BY <1>8, <3>2, PrefixMeans DEF G!IsStrictPrefix
    <3>4. CASE tree[b].is \notin G!Containers
      BY <1>5, <1>6, <3>3, <3>4 DEF Yields
    <3>5. CASE w[n - 1][b] # tree[b]
      <4>1. PICK k \in 1 .. Len(p) - 1 :
              G!IsPrefix(SubSeq(p, 1, k), b) /\ tree[SubSeq(p, 1, k)].is \notin G!Containers
        BY <1>7, <3>5 DEF Yields
      <4>2. SubSeq(p, 1, k) \in Path
        BY PathsHold
      <4>3. G!IsPrefix(SubSeq(p, 1, k), a)
        <5>1. PICK c \in Seq(S) : c = SubSeq(p, 1, k)
          BY <1>8, <4>2
        <5>2. /\ a \in Seq(S) /\ b \in Seq(S) /\ c \in Seq(S)
              /\ G!IsPrefix(c, b) /\ G!IsPrefix(b, a)
          BY <1>8, <3>3, <4>1, <5>1
        <5>3. /\ Len(c) <= Len(b) /\ \A i \in 1 .. Len(c) : c[i] = b[i]
              /\ Len(b) <= Len(a) /\ \A i \in 1 .. Len(b) : b[i] = a[i]
          BY <5>2, PrefixMeans
        <5>4. Len(c) <= Len(a) /\ \A i \in 1 .. Len(c) : c[i] = a[i]
          <6>1. Len(a) \in Nat /\ Len(b) \in Nat /\ Len(c) \in Nat
            BY <5>2
          <6> QED BY <5>3, <6>1
        <5> QED BY <5>1, <5>2, <5>4, PrefixMeans
      <4> QED BY <4>1, <4>3 DEF Yields
    <3> QED BY <3>1, <3>4, <3>5
  <2> QED BY <2>1, <2>2
<1>10. Spared(n)
  BY <1>9
<1> QED BY <1>10

LEMMA RegisteredSpares ==
  ASSUME tree \in Tree, Held(tree), KossKept(tree), KossJS \in fixed
  PROVE  G!OthersStay
<1> SUFFICES ASSUME NEW p \in Path, NEW q \in Path, NEW f \in Callback
             PROVE  G!Registered(p, f)[q] = tree[q] \/ G!IsPrefix(p, q) \/ Yields(p, q)
  BY DEF G!OthersStay, Yields
<1>1. PICK w : WalkOf(p, w) /\ G!Walked(p) = w[Len(p) - 1]
  BY WalkGoesOn
<1>2. PICK t : t = G!Walked(p)
  OBVIOUS
<1>3. Len(p) - 1 \in 0 .. Len(p) - 1
  BY PathsHold
<1>4. t \in Tree /\ (t[q] = tree[q] \/ Yields(p, q))
  BY <1>1, <1>2, <1>3, WalkKeeps, WalkSpares
<1>5. G!Function(f) \in G!GlobalValue
  BY DEF G!Function, G!GlobalValue
<1>6. G!Registered(p, f) = G!Put(t, p, G!Function(f))
  BY <1>2 DEF G!Registered
<1>7. G!Put(t, p, G!Function(f))[q] = t[q] \/ q = p \/ G!IsStrictPrefix(p, q)
  BY <1>4, <1>5, PutAt
<1>8. PICK S : Path \subseteq Seq(S)
  BY GlobalsAssumption
<1>9. q = p \/ G!IsStrictPrefix(p, q) => G!IsPrefix(p, q)
  BY <1>8, PrefixMeans DEF G!IsStrictPrefix
<1> QED BY <1>4, <1>6, <1>7, <1>9

(* A new method reaches the callback its class has.                        *)
LEMMA AppendKeepsCallbacks ==
  ASSUME NEW S, objects \in Seq(S), G!InstancesKeepTheirCallback,
         NEW o \in S, o.calls = o.given, objects' = Append(objects, o)
  PROVE  objects' \in Seq(S) /\ G!InstancesKeepTheirCallback'
<1>1. /\ objects' \in Seq(S) /\ Len(objects) \in Nat /\ Len(objects') = Len(objects) + 1
      /\ objects'[Len(objects) + 1] = o
      /\ \A i \in 1 .. Len(objects) : objects'[i] = objects[i]
  OBVIOUS
<1>2. \A i \in 1 .. Len(objects') : i = Len(objects) + 1 \/ i \in 1 .. Len(objects)
  BY <1>1
<1> QED BY <1>1, <1>2 DEF G!InstancesKeepTheirCallback, G!Calls

GlobalsInv ==
  /\ G!TypeOK /\ Held(tree) /\ KossKept(tree) /\ KossJS \in fixed
  /\ ~hardened => fixed = {KossJS} /\ NoneFrozen(tree)
  /\ <<>> \in temps => parseBroken
  /\ \A p \in temps \ {<<>>} : hardened \/ G!IsPrefix(KossJS, p)
  /\ G!InstancesKeepTheirCallback

LEMMA GlobalsInit == G!Init => GlobalsInv
<1> SUFFICES ASSUME G!Init PROVE GlobalsInv
  OBVIOUS
<1> USE GlobalsAssumption DEF G!Init
<1>1. tree \in Tree
  BY DEF Tree, G!GlobalValue, G!Is
<1>2. \A p \in Path : tree[p].is = IF p = KossJS THEN "frozen" ELSE "absent"
  BY DEF G!Is
<1>3. G!TypeOK
  <2>1. objects \in Seq([of : G!Global, given : Callback, calls : Callback])
    OBVIOUS
  <2>2. fixed \subseteq G!Global /\ parseBroken \in BOOLEAN /\ hardened \in BOOLEAN
    BY DEF G!Global
  <2> QED BY <1>1, <2>1, <2>2 DEF G!TypeOK, Tree
<1>4. Held(tree)
  BY <1>2 DEF Held, G!Holder, Solid, G!Containers, G!Is
<1>5. KossKept(tree) /\ NoneFrozen(tree)
  BY <1>2 DEF KossKept, NoneFrozen
<1> QED BY <1>3, <1>4, <1>5 DEF GlobalsInv, G!InstancesKeepTheirCallback

(* Writing a value that is not frozen. *)
LEMMA DefineKeeps ==
  ASSUME GlobalsInv, NEW p \in Path, NEW v \in G!GlobalValue, v.is # "frozen",
         tree' = G!Put(tree, p, v), UNCHANGED <<fixed, hardened>>
  PROVE  /\ tree' \in [Path -> G!GlobalValue]
         /\ Held(tree') /\ KossKept(tree') /\ KossJS \in fixed'
         /\ ~hardened' => fixed' = {KossJS} /\ NoneFrozen(tree')
<1>1. tree \in Tree /\ Held(tree) /\ KossKept(tree) /\ KossJS \in fixed
  BY DEF GlobalsInv, G!TypeOK, Tree
<1>2. /\ tree' \in Tree /\ Held(tree') /\ KossKept(tree')
      /\ NoneFrozen(tree) => NoneFrozen(tree')
  BY <1>1, PutKeeps
<1> QED BY <1>2 DEF GlobalsInv, Tree

LEMMA GlobalsStep == GlobalsInv /\ G!Next => GlobalsInv'
<1> SUFFICES ASSUME GlobalsInv, G!Next PROVE GlobalsInv'
  OBVIOUS
<1>0. /\ tree \in Tree /\ Held(tree) /\ KossKept(tree) /\ KossJS \in fixed
      /\ G!Global \subseteq Path
  BY DEF GlobalsInv, G!TypeOK, Tree, G!Global
<1>v. /\ \A f \in Callback : /\ G!Class(f) \in G!GlobalValue /\ G!Class(f).is # "frozen"
      /\ \A kind \in {"plain", "object", "null"} :
           G!Is(kind) \in G!GlobalValue /\ G!Is(kind).is # "frozen"
  BY DEF G!Class, G!Is, G!GlobalValue
(* What follows from the tree when nothing else changes but temps. *)
<1>k. ASSUME tree' \in [Path -> G!GlobalValue], Held(tree'), KossKept(tree'), KossJS \in fixed',
             ~hardened' => fixed' = {KossJS} /\ NoneFrozen(tree'),
             UNCHANGED <<fixed, parseBroken, objects, hardened>>,
             temps' \subseteq Path \cup {<<>>},
             <<>> \in temps' => parseBroken,
             \A p \in temps' \ {<<>>} : hardened \/ G!IsPrefix(KossJS, p)
      PROVE  GlobalsInv'
  <2>1. G!TypeOK'
    BY <1>k DEF GlobalsInv, G!TypeOK, G!Global
  <2>2. G!InstancesKeepTheirCallback'
    BY <1>k DEF GlobalsInv, G!InstancesKeepTheirCallback, G!Calls
  <2> QED BY <1>k, <2>1, <2>2 DEF GlobalsInv
<1>t. /\ temps \subseteq Path \cup {<<>>}
      /\ <<>> \in temps => parseBroken
      /\ \A p \in temps \ {<<>>} : hardened \/ G!IsPrefix(KossJS, p)
  BY DEF GlobalsInv, G!TypeOK
<1>1. ASSUME NEW g \in G!Global, G!SetGlobal(g) \/ G!SetGlobalNull(g)
      PROVE  GlobalsInv'
  <2>1. PICK v \in G!GlobalValue : v.is # "frozen" /\ tree' = G!Put(tree, g, v)
    BY <1>1, <1>v DEF G!SetGlobal, G!SetGlobalNull, G!Define
  <2>2. UNCHANGED <<fixed, parseBroken, temps, objects, hardened>>
    BY <1>1 DEF G!SetGlobal, G!SetGlobalNull
  <2>3. g \in Path
    BY <1>0
  <2> QED BY <1>k, <1>t, <2>1, <2>2, <2>3, DefineKeeps
<1>2. ASSUME NEW g \in G!Global, NEW f \in Callback, G!RegisterClass(g, f)
      PROVE  GlobalsInv'
  <2>1. tree' = G!Put(tree, g, G!Class(f)) /\ UNCHANGED <<fixed, parseBroken, temps, objects, hardened>>
    BY <1>2 DEF G!RegisterClass, G!Define
  <2>3. g \in Path
    BY <1>0
  <2> QED BY <1>k, <1>t, <1>v, <2>1, <2>3, DefineKeeps
<1>3. ASSUME NEW p \in Path, NEW kind \in {"plain", "object"}, G!Assign(p, kind)
      PROVE  GlobalsInv'
  <2>1. tree' = G!Put(tree, p, G!Is(kind)) /\ UNCHANGED <<fixed, parseBroken, temps, objects, hardened>>
    BY <1>3 DEF G!Assign
  <2> QED BY <1>k, <1>t, <1>v, <2>1, DefineKeeps
<1>4. ASSUME NEW g \in G!Global, NEW kind \in {"plain", "object", "null"}, G!SetGlobalJson(g, kind)
      PROVE  GlobalsInv'
  <2>0. UNCHANGED <<fixed, parseBroken, objects, hardened>> /\ g \in Path
    BY <1>0, <1>4 DEF G!SetGlobalJson
  <2>1. CASE parseBroken
    <3>1. temps' = temps \cup {<<>>} /\ tree' = tree
      BY <1>4, <2>1 DEF G!SetGlobalJson
    <3>2. /\ tree' \in [Path -> G!GlobalValue] /\ Held(tree') /\ KossKept(tree') /\ KossJS \in fixed'
          /\ ~hardened' => fixed' = {KossJS} /\ NoneFrozen(tree')
      BY <2>0, <3>1 DEF GlobalsInv, G!TypeOK
    <3> QED BY <1>k, <1>t, <2>0, <2>1, <3>1, <3>2
  <2>2. CASE ~parseBroken
    <3>1. temps' = temps \ {<<>>} /\ tree' = G!Put(tree, g, G!Is(kind))
      BY <1>4, <2>2 DEF G!SetGlobalJson, G!Define
    <3> QED BY <1>k, <1>t, <1>v, <2>0, <3>1, DefineKeeps
  <2> QED BY <2>1, <2>2
<1>5. ASSUME NEW p \in Path, NEW f \in Callback, G!RegisterFunction(p, f)
      PROVE  GlobalsInv'
  <2>1. tree' = G!Registered(p, f) /\ UNCHANGED <<fixed, parseBroken, objects, hardened>>
    BY <1>5 DEF G!RegisterFunction
  <2>2. /\ tree' \in Tree /\ Held(tree') /\ KossKept(tree')
        /\ NoneFrozen(tree) => NoneFrozen(tree')
    BY <1>0, <2>1, RegisteredKeeps
  <2>3. ~hardened' => fixed' = {KossJS} /\ NoneFrozen(tree')
    BY <2>1, <2>2 DEF GlobalsInv
  <2>4. p # <<>>
    BY GlobalsAssumption
  <2>5. \/ temps' \subseteq temps
        \/ Len(p) # 1 /\ G!Stumbles(p) /\ temps' = temps \cup {p}
    BY <1>5 DEF G!RegisterFunction
  <2>6. Len(p) # 1 /\ G!Stumbles(p) => hardened \/ G!IsPrefix(KossJS, p)
    BY <1>0, StumblesOverHardened DEF GlobalsInv
  <2>7. /\ temps' \subseteq Path \cup {<<>>}
        /\ <<>> \in temps' => parseBroken
        /\ \A q \in temps' \ {<<>>} : hardened \/ G!IsPrefix(KossJS, q)
    BY <1>t, <2>4, <2>5, <2>6
  <2> QED BY <1>k, <1>0, <2>1, <2>2, <2>3, <2>7 DEF Tree
<1>6. ASSUME NEW g \in G!Global, G!New(g)
      PROVE  GlobalsInv'
  <2> DEFINE o == [of |-> g, given |-> tree[g].fn, calls |-> tree[g].fn]
             S == [of : G!Global, given : Callback, calls : Callback]
  <2>1. objects' = Append(objects, o) /\ UNCHANGED <<tree, fixed, parseBroken, temps, hardened>>
    BY <1>6 DEF G!New
  <2>2. o \in S /\ o.calls = o.given
    <3>1. tree[g] \in G!GlobalValue /\ tree[g].is = "class"
      BY <1>0, <1>6 DEF G!New, Tree
    <3>2. tree[g].fn \in Callback
      BY <3>1 DEF G!GlobalValue
    <3> QED BY <3>2
  <2>3. objects \in Seq(S) /\ G!InstancesKeepTheirCallback
    BY DEF GlobalsInv, G!TypeOK
  <2>4. objects' \in Seq(S) /\ G!InstancesKeepTheirCallback'
    <3> HIDE DEF S, o
    <3> QED BY <2>1, <2>2, <2>3, AppendKeepsCallbacks
  <2>5. G!TypeOK'
    BY <2>1, <2>4 DEF GlobalsInv, G!TypeOK, G!Global
  <2> QED BY <2>1, <2>4, <2>5 DEF GlobalsInv
<1>7. ASSUME NEW g \in G!Global, G!Fix(g) PROVE GlobalsInv'
  BY <1>7 DEF G!Fix, GlobalsInv, G!TypeOK, G!Global, G!InstancesKeepTheirCallback, G!Calls
<1>8. ASSUME NEW p \in Path, G!Freeze(p) PROVE GlobalsInv'
  <2>1. /\ tree[p].is = "object" /\ tree' = [tree EXCEPT ![p] = G!Is("frozen")] /\ hardened'
        /\ UNCHANGED <<fixed, parseBroken, temps, objects>>
    BY <1>8 DEF G!Freeze
  <2>2. G!Is("frozen") \in G!GlobalValue /\ G!Is("frozen").is = "frozen"
    BY DEF G!Is, G!GlobalValue
  <2>3. /\ tree' \in Tree
        /\ \A q \in Path : tree'[q] = IF q = p THEN G!Is("frozen") ELSE tree[q]
    BY <1>0, <2>1, <2>2 DEF Tree
  <2>4. KossKept(tree')
    <3>1. ASSUME NEW q \in Path, G!IsPrefix(KossJS, q)
          PROVE  q # p
      <4>1. tree[q] = G!Is("frozen") \/ tree[q] = G!Is("absent")
        BY <1>0, <3>1 DEF KossKept
      <4>2. tree[q].is # "object"
        BY <4>1 DEF G!Is
      <4> QED BY <2>1, <4>2
    <3> QED BY <1>0, <2>3, <3>1 DEF KossKept
  <2>5. ASSUME NEW q \in Path, tree'[q].is # "absent"
        PROVE  G!Holder(tree', q).is \in Solid
    <3>1. tree[q].is # "absent"
      BY <2>1, <2>3, <2>5
    <3>2. G!Holder(tree, q).is \in Solid
      BY <1>0, <3>1 DEF Held
    <3>3. CASE Len(q) = 1
      BY <3>2, <3>3 DEF G!Holder
    <3>4. CASE Len(q) # 1
      <4>1. G!Front(q) \in Path
        <5>1. Len(q) > 1
          <6>1. PICK n \in Nat : n = Len(q) /\ n # 0
            BY PathsHold
          <6>2. n > 1
            BY <3>4, <6>1
          <6> QED BY <6>1, <6>2
        <5> QED BY <5>1, PathsHold
      <4>2. tree'[G!Front(q)] = tree[G!Front(q)] \/ tree'[G!Front(q)].is = "frozen"
        BY <2>2, <2>3, <4>1
      <4> QED BY <3>2, <3>4, <4>2 DEF G!Holder, Solid, G!Containers
    <3> QED BY <3>3, <3>4
  <2>6. G!TypeOK'
    BY <2>1, <2>3 DEF GlobalsInv, G!TypeOK, Tree, G!Global
  <2>7. G!InstancesKeepTheirCallback'
    BY <2>1 DEF GlobalsInv, G!InstancesKeepTheirCallback, G!Calls
  <2> QED BY <2>1, <2>4, <2>5, <2>6, <2>7 DEF GlobalsInv, Held
<1>9. ASSUME G!BreakParse PROVE GlobalsInv'
  BY <1>9 DEF G!BreakParse, GlobalsInv, G!TypeOK, G!Global, G!InstancesKeepTheirCallback, G!Calls
<1> QED BY <1>1, <1>2, <1>3, <1>4, <1>5, <1>6, <1>7, <1>8, <1>9 DEF G!Next

GlobalsPlaced ==
  G!TypeOK /\ G!NothingIsLeftBehind /\ G!OthersStay /\ G!KossJSStays /\ G!InstancesKeepTheirCallback

LEMMA GlobalsFit == GlobalsInv => GlobalsPlaced
<1> SUFFICES ASSUME GlobalsInv PROVE GlobalsPlaced
  OBVIOUS
<1>1. tree \in Tree /\ Held(tree) /\ KossKept(tree) /\ KossJS \in fixed
  BY DEF GlobalsInv, G!TypeOK, Tree
<1>2. G!NothingIsLeftBehind
  BY DEF GlobalsInv, G!NothingIsLeftBehind, Held, Solid
<1>3. G!OthersStay
  BY <1>1, RegisteredSpares
<1>4. G!KossJSStays
  BY <1>1 DEF KossKept, G!KossJSStays
<1> QED BY <1>2, <1>3, <1>4 DEF GlobalsInv, GlobalsPlaced

LEMMA GlobalsStays == GlobalsInv /\ UNCHANGED G!vars => GlobalsInv'
  BY DEF GlobalsInv, G!vars, G!TypeOK, Held, G!Holder, KossKept, NoneFrozen,
         G!InstancesKeepTheirCallback, G!Calls

(* A registration or an assignment of the host, also one that is refused,  *)
(* leaves KossJS, what others placed and the callbacks of objects as they  *)
(* were, and no temporary global but in a hardened tree (koss_set_global_  *)
(* *, koss_register_*, set_nested_property).                               *)
THEOREM GlobalsKeepTheirPlaces == G!Spec => []GlobalsPlaced
  BY GlobalsInit, GlobalsStep, GlobalsStays, GlobalsFit, PTL DEF G!Spec

-----------------------------------------------------------------------------
(* The calls that run code. *)
(* The directory is the one of what was run, links resolved or not. *)
Fits(given, home) == given = home \/ (home \in Dir /\ given = RealDir[home])

Piece == [is : C!Still \cup {"none"}, home : Dir \cup {NoDir}, late : BOOLEAN]
UnderWay == [name : C!Name, phase : {"io", "jobs", "again", "done"}, own : C!Place \cup {0},
             ends : C!End, idle : BOOLEAN]
Answer == [of : C!Name \cup {"none"}, code : 0 .. 2, left : C!Place \cup {0}, idle : BOOLEAN,
           written : C!Place \cup {0}]

NothingLeft == \A i \in C!Place : code[i].is = "none"

(* What a phase says of the call: the jobs run again only after a look,    *)
(* and a loop that has not ended has not found it idle.                    *)
PhasesInOrder ==
  /\ call.phase = "done" => call.name \in C!Script \cup {"run_async"}
  /\ call.phase = "done" /\ call.name = "run_async" =>
       call.own = 0 /\ call.ends \in {"throws", "stuck"}
  /\ call.phase = "again" => /\ call.name \in {"tick", "run_async"}
                             /\ call.name = "run_async" => call.idle
  /\ call.idle => call.phase = "again" /\ NothingLeft

(* What is left is of calls that have ended, or lies where this one does.  *)
PiecesHaveTheirHome ==
  \A i \in C!Place : code[i].is # "none" =>
    code[i].late \/ (call # C!NoCall /\ Fits(dir, code[i].home))

CallsInv ==
  C!TypeOK /\ PhasesInOrder /\ PiecesHaveTheirHome /\ C!AnswersAreKept /\ C!PwdIsOfTheCall

LEMMA CallsInit == C!Init => CallsInv
  BY DEF C!Init, CallsInv, C!TypeOK, PhasesInOrder, PiecesHaveTheirHome, C!AnswersAreKept,
         C!PwdIsOfTheCall, C!NoCall, C!NoAudit, C!NoAnswer, C!Gone, C!Queued, C!Waiting,
         C!Name, C!Script, C!Module, C!Still, C!End

LEMMA DirsFit ==
  ASSUME NEW name \in C!Name, NEW d \in Dir
  PROVE  /\ C!Home(name, d) \in Dir \cup {NoDir} /\ C!DirOf(name, d) \in Dir \cup {NoDir}
         /\ Fits(C!DirOf(name, d), C!Home(name, d))
  BY CallsAssumption DEF C!Home, C!DirOf, C!File, Fits

(* A piece more, at a place that is free. *)
PieceOf(is, home, late) == [is |-> is, home |-> home, late |-> late]

LEMMA OneMore ==
  ASSUME NEW pieces \in [C!Place -> Piece], NEW i \in C!Place \cup {0},
         NEW is \in C!Still, NEW home \in Dir \cup {NoDir}, NEW late \in BOOLEAN
  PROVE  /\ C!With(pieces, i, is, home, late) \in [C!Place -> Piece]
         /\ \A j \in C!Place : \/ C!With(pieces, i, is, home, late)[j] = pieces[j]
                               \/ C!With(pieces, i, is, home, late)[j] = PieceOf(is, home, late)
<1> DEFINE one == PieceOf(is, home, late)
           more == C!With(pieces, i, is, home, late)
<1>0. one \in Piece
  BY DEF PieceOf, Piece
<1>1. CASE i = 0
  BY <1>1 DEF C!With
<1>2. CASE i # 0
  <2>1. i \in C!Place /\ more = [pieces EXCEPT ![i] = one]
    BY <1>2 DEF C!With, PieceOf
  <2> HIDE DEF one, more
  <2>2. more \in [C!Place -> Piece] /\ \A j \in C!Place : more[j] = pieces[j] \/ more[j] = one
    BY <1>0, <2>1
  <2> QED BY <2>2 DEF one, more
<1> QED BY <1>1, <1>2

LEMMA CallUnderWay ==
  ASSUME CallsInv, call.phase # "none" \/ call.name # "none"
  PROVE  call \in UnderWay
  BY DEF CallsInv, C!TypeOK, C!NoCall, UnderWay

LEMMA NoCallIsNone == C!NoCall \notin UnderWay
<1>1. C!NoCall.name = "none"
  BY DEF C!NoCall
<1>2. \A c \in UnderWay : c.name # "none"
  BY DEF UnderWay, C!Name, C!Script, C!Module
<1> QED BY <1>1, <1>2

(* A call that begins leaves what there was as it was. *)
LEMMA CallsBegin ==
  ASSUME CallsInv,
         NEW name \in C!Name, NEW phase \in {"io", "jobs", "done"}, NEW own \in C!Place \cup {0},
         NEW ends \in C!End, C!Begin(name, phase, own, ends),
         phase = "done" => \/ name \in C!Script
                           \/ name = "run_async" /\ own = 0 /\ ends \in {"throws", "stuck"},
         dir' \in Dir \cup {NoDir},
         code' \in [C!Place -> Piece],
         \A i \in C!Place : code'[i] = code[i] \/ Fits(dir', code'[i].home),
         audited' = audited \/ audited' \in [given : {dir'}, home : Dir \cup {NoDir}, late : {FALSE}],
         audited' = audited \/ Fits(dir', audited'.home)
  PROVE  CallsInv'
<1>1. /\ call = C!NoCall
      /\ call' = [name |-> name, phase |-> phase, own |-> own, ends |-> ends, idle |-> FALSE]
      /\ answer' = C!NoAnswer
  BY DEF C!Begin
<1>2. /\ call' \in UnderWay /\ call' # C!NoCall
      /\ call'.name = name /\ call'.phase = phase /\ call'.own = own /\ call'.ends = ends
      /\ call'.idle = FALSE
  <2>1. call' \in UnderWay
    BY <1>1 DEF UnderWay
  <2> QED BY <1>1, <2>1, NoCallIsNone
<1>3. C!TypeOK'
  <2>1. call' \in [name : C!Name, phase : {"io", "jobs", "again", "done"}, own : C!Place \cup {0},
                   ends : C!End, idle : BOOLEAN]
    BY <1>2 DEF UnderWay
  <2>2. audited' \in [given : Dir \cup {NoDir}, home : Dir \cup {NoDir}, late : BOOLEAN]
    BY DEF CallsInv, C!TypeOK
  <2>3. answer' \in Answer
    BY <1>1 DEF C!NoAnswer, Answer
  <2> QED BY <2>1, <2>2, <2>3 DEF C!TypeOK, Piece, Answer
<1>4. PhasesInOrder'
  <2>1. phase # "again"
    OBVIOUS
  <2> QED BY <1>2, <2>1 DEF PhasesInOrder, C!Script
<1>5. PiecesHaveTheirHome'
  BY <1>1, <1>2 DEF PiecesHaveTheirHome, CallsInv
<1>6. C!AnswersAreKept'
  BY <1>2 DEF C!AnswersAreKept
<1>7. C!PwdIsOfTheCall'
  BY DEF C!PwdIsOfTheCall, CallsInv, Fits
<1> QED BY <1>3, <1>4, <1>5, <1>6, <1>7 DEF CallsInv

LEMMA CallsStep == CallsInv /\ C!Next => CallsInv'
<1> SUFFICES ASSUME CallsInv, C!Next PROVE CallsInv'
  OBVIOUS
<1>0. code \in [C!Place -> Piece] /\ dir \in Dir \cup {NoDir}
  BY DEF CallsInv, C!TypeOK, UnderWay, Piece, Piece
<1>1. ASSUME NEW name \in C!Name, NEW d \in Dir, NEW fault \in C!Fault, C!Refuse(name, d, fault)
      PROVE  CallsInv'
  <2>1. dir' \in Dir \cup {NoDir}
    BY <1>0, <1>1, DirsFit DEF C!Refuse
  <2>2. /\ UNCHANGED <<code, call, audited>> /\ call = C!NoCall
        /\ answer'.of = "none"
        /\ answer' \in Answer
    <3>1. PICK n \in {1, 2} : answer' = [C!NoAnswer EXCEPT !.code = n]
      BY <1>1 DEF C!Refuse
    <3>2. answer' = [of |-> "none", code |-> n, left |-> 0, idle |-> FALSE, written |-> 0]
      BY <3>1 DEF C!NoAnswer
    <3>3. UNCHANGED <<code, call, audited>> /\ call = C!NoCall
      BY <1>1 DEF C!Refuse
    <3>4. n \in 0 .. 2 /\ 0 \in C!Place \cup {0}
      OBVIOUS
    <3> QED BY <3>2, <3>3, <3>4 DEF Answer
  <2>3. C!TypeOK'
    BY <2>1, <2>2 DEF CallsInv, C!TypeOK, UnderWay, Piece, Answer
  <2>4. PhasesInOrder' /\ PiecesHaveTheirHome' /\ C!PwdIsOfTheCall'
    BY <2>2 DEF CallsInv, PhasesInOrder, PiecesHaveTheirHome, NothingLeft, C!PwdIsOfTheCall
  <2>5. C!AnswersAreKept'
    BY <2>2 DEF C!AnswersAreKept, C!Module
  <2> QED BY <2>3, <2>4, <2>5 DEF CallsInv
<1>2. ASSUME NEW name \in C!Name, NEW d \in Dir, NEW ends \in C!End,
             NEW i \in C!Place \cup {0}, NEW is \in C!Still, C!RunScript(name, d, ends, i, is)
      PROVE  CallsInv'
  <2>1. PICK own \in {0, i} :
          /\ own # 0 => name = "run_async" /\ ends = "value"
          /\ C!Begin(name, IF name = "run_async" /\ ends # "throws" THEN "io" ELSE "done", own, ends)
    BY <1>2 DEF C!RunScript
  <2>2. /\ dir' = C!DirOf(name, d)
        /\ audited' = [given |-> dir', home |-> C!Home(name, d), late |-> FALSE]
        /\ code' = C!With(code, i, is, C!Home(name, d), FALSE)
        /\ name \in C!Script \cup {"run_async"}
    BY <1>2 DEF C!RunScript
  <2>3. C!Home(name, d) \in Dir \cup {NoDir} /\ FALSE \in BOOLEAN
    BY DirsFit
  <2>4. /\ code' \in [C!Place -> Piece]
        /\ \A j \in C!Place : \/ code'[j] = code[j]
                              \/ code'[j] = PieceOf(is, C!Home(name, d), FALSE)
    BY <1>0, <2>2, <2>3, OneMore
  <2> DEFINE phase == IF name = "run_async" /\ ends # "throws" THEN "io" ELSE "done"
  <2>5. phase \in {"io", "jobs", "done"} /\ own \in C!Place \cup {0}
    OBVIOUS
  <2>6. phase = "done" => \/ name \in C!Script
                          \/ name = "run_async" /\ own = 0 /\ ends = "throws"
    BY <2>1, <2>2
  <2>7. C!Begin(name, phase, own, ends)
    BY <2>1
  <2>8. \A j \in C!Place : code'[j] = code[j] \/ Fits(dir', code'[j].home)
    <3>1. Fits(dir', C!Home(name, d))
      BY <2>2, DirsFit
    <3>2. PieceOf(is, C!Home(name, d), FALSE).home = C!Home(name, d)
      BY DEF PieceOf
    <3> QED BY <2>4, <3>1, <3>2
  <2>9. audited' \in [given : {dir'}, home : Dir \cup {NoDir}, late : {FALSE}] /\ Fits(dir', audited'.home)
    BY <2>2, DirsFit
  <2>10. dir' \in Dir \cup {NoDir}
    BY <2>2, DirsFit
  <2> HIDE DEF phase
  <2> QED BY <2>4, <2>5, <2>6, <2>7, <2>8, <2>9, <2>10, CallsBegin
<1>3. ASSUME NEW name \in C!Name, NEW d \in Dir, NEW i \in C!Place, C!RunModule(name, d, i)
      PROVE  CallsInv'
  <2>1. /\ dir' = C!DirOf(name, d)
        /\ code' = C!With(code, i, "queued", C!Home(name, d), FALSE)
        /\ C!Begin(name, "jobs", i, "value") /\ UNCHANGED audited
    BY <1>3 DEF C!RunModule
  <2>2. C!Home(name, d) \in Dir \cup {NoDir} /\ "queued" \in C!Still /\ i \in C!Place \cup {0}
        /\ FALSE \in BOOLEAN
    BY DirsFit DEF C!Still
  <2>3. /\ code' \in [C!Place -> Piece]
        /\ \A j \in C!Place : \/ code'[j] = code[j]
                              \/ code'[j] = PieceOf("queued", C!Home(name, d), FALSE)
    BY <1>0, <2>1, <2>2, OneMore
  <2>4. \A j \in C!Place : code'[j] = code[j] \/ Fits(dir', code'[j].home)
    <3>1. Fits(dir', C!Home(name, d))
      BY <2>1, DirsFit
    <3>2. PieceOf("queued", C!Home(name, d), FALSE).home = C!Home(name, d)
      BY DEF PieceOf
    <3> QED BY <2>3, <3>1, <3>2
  <2>5. dir' \in Dir \cup {NoDir}
    BY <2>1, DirsFit
  <2>6. "value" \in C!End /\ "jobs" \in {"io", "jobs", "done"} /\ "jobs" # "done"
    BY DEF C!End
  <2> QED BY <2>1, <2>3, <2>4, <2>5, <2>6, CallsBegin
<1>4. ASSUME C!Tick PROVE CallsInv'
  <2>1. C!Begin("tick", "io", 0, "value") /\ UNCHANGED <<dir, code, audited>>
    BY <1>4 DEF C!Tick
  <2>2. /\ "value" \in C!End /\ "tick" \in C!Name /\ "io" \in {"io", "jobs", "done"} /\ "io" # "done"
        /\ 0 \in C!Place \cup {0}
    BY DEF C!End, C!Name
  <2> QED BY <1>0, <2>1, <2>2, CallsBegin
<1>5. ASSUME NEW there \in SUBSET C!Place, C!Io(there) PROVE CallsInv'
  <2>1. /\ call.phase = "io" /\ call' = [call EXCEPT !.phase = "jobs"] /\ ~call.idle
        /\ UNCHANGED <<dir, audited, answer>>
    BY <1>5 DEF C!Io, CallsInv, PhasesInOrder
  <2>2. /\ code' \in [C!Place -> Piece]
        /\ \A i \in C!Place : /\ code'[i].home = code[i].home /\ code'[i].late = code[i].late
                              /\ code[i].is = "none" => code'[i] = code[i]
    <3>1. code' = [i \in C!Place |-> IF i \in there THEN [code[i] EXCEPT !.is = "queued"] ELSE code[i]]
      BY <1>5 DEF C!Io
    <3>2. \A i \in there : code[i].is = "waits"
      BY <1>5 DEF C!Io, C!Waiting
    <3> QED BY <1>0, <3>1, <3>2 DEF C!Still, Piece
  <2>3. /\ call \in UnderWay
        /\ call' \in UnderWay
        /\ call'.phase = "jobs" /\ call'.idle = call.idle
    BY <2>1, CallUnderWay DEF UnderWay, C!End
  <2>4. call # C!NoCall /\ call' # C!NoCall
    BY <2>3, NoCallIsNone
  <2>5. C!TypeOK'
    BY <2>1, <2>2, <2>3 DEF CallsInv, C!TypeOK, UnderWay, Piece
  <2>6. PhasesInOrder' /\ C!AnswersAreKept' /\ C!PwdIsOfTheCall'
    BY <2>1, <2>3, <2>4 DEF CallsInv, PhasesInOrder, C!AnswersAreKept, C!PwdIsOfTheCall
  <2>7. PiecesHaveTheirHome'
    BY <2>1, <2>2, <2>4 DEF CallsInv, PiecesHaveTheirHome
  <2> QED BY <2>5, <2>6, <2>7 DEF CallsInv
<1>6. ASSUME NEW i \in C!Place, NEW fate \in C!End \cup C!Still, NEW j \in C!Place \cup {0},
             NEW is \in C!Still, C!Job(i, fate, j, is)
      PROVE  CallsInv'
  <2>1. /\ call.phase \in {"jobs", "again"} /\ code[i].is = "queued"
        /\ audited' = [given |-> dir, home |-> code[i].home, late |-> code[i].late]
        /\ call' = IF i = call.own /\ fate \in C!End THEN [call EXCEPT !.own = 0, !.ends = fate]
                   ELSE call
        /\ UNCHANGED <<dir, answer>>
    BY <1>6 DEF C!Job, C!Queued
  <2>2. /\ call \in UnderWay
        /\ call' \in UnderWay
        /\ call'.name = call.name /\ call'.phase = call.phase /\ call'.idle = call.idle
    BY <2>1, CallUnderWay DEF UnderWay, C!End
  <2>3. call # C!NoCall /\ call' # C!NoCall
    BY <2>2, NoCallIsNone
  <2>4. /\ code' \in [C!Place -> Piece]
        /\ \A k \in C!Place : \/ code'[k].is = "none"
                              \/ /\ code'[k].home = code[k].home /\ code'[k].late = code[k].late
                                 /\ code[k].is # "none"
                              \/ code'[k].home = code[i].home /\ code'[k].late = code[i].late
    <3> DEFINE kept == [code EXCEPT ![i] = IF fate \in C!Still THEN [@ EXCEPT !.is = fate] ELSE C!Gone]
    <3>1. code' = C!With(kept, j, is, code[i].home, code[i].late)
      BY <1>6 DEF C!Job
    <3>2. /\ kept \in [C!Place -> Piece]
          /\ \A k \in C!Place : \/ kept[k] = code[k]
                                \/ kept[k].is = "none"
                                \/ k = i /\ kept[k].home = code[i].home /\ kept[k].late = code[i].late
      BY <1>0 DEF C!Gone, C!Still, Piece
    <3>3. code[i].home \in Dir \cup {NoDir} /\ code[i].late \in BOOLEAN
      BY <1>0 DEF Piece
    <3> HIDE DEF kept
    <3>4. /\ code' \in [C!Place -> Piece]
          /\ \A k \in C!Place :
               \/ code'[k] = kept[k]
               \/ code'[k] = PieceOf(is, code[i].home, code[i].late)
      <4>1. kept \in [C!Place -> Piece] /\ j \in C!Place \cup {0} /\ is \in C!Still
        BY <3>2
      <4>2. /\ C!With(kept, j, is, code[i].home, code[i].late) \in [C!Place -> Piece]
            /\ \A k \in C!Place :
                 \/ C!With(kept, j, is, code[i].home, code[i].late)[k] = kept[k]
                 \/ C!With(kept, j, is, code[i].home, code[i].late)[k]
                      = PieceOf(is, code[i].home, code[i].late)
        BY <3>3, <4>1, OneMore, ZenonT(60)
      <4> QED BY <3>1, <4>2, ZenonT(60)
    <3> QED BY <3>2, <3>4 DEF PieceOf
  <2>5. ~call.idle
    BY <2>1 DEF CallsInv, PhasesInOrder, NothingLeft
  <2>6. C!TypeOK'
    <3>1. audited' \in [given : Dir \cup {NoDir}, home : Dir \cup {NoDir}, late : BOOLEAN]
      BY <1>0, <2>1 DEF Piece
    <3> QED BY <2>1, <2>2, <2>4, <3>1 DEF CallsInv, C!TypeOK, UnderWay, Piece
  <2>7. PhasesInOrder' /\ C!AnswersAreKept'
    BY <2>1, <2>2, <2>3, <2>5 DEF CallsInv, PhasesInOrder, C!AnswersAreKept
  <2>8. code[i].late \/ Fits(dir, code[i].home)
    BY <2>1 DEF CallsInv, PiecesHaveTheirHome
  <2>9. PiecesHaveTheirHome'
    BY <2>1, <2>3, <2>4, <2>8 DEF CallsInv, PiecesHaveTheirHome
  <2>10. C!PwdIsOfTheCall'
    BY <2>1, <2>8 DEF C!PwdIsOfTheCall, Fits
  <2> QED BY <2>6, <2>7, <2>9, <2>10 DEF CallsInv
<1>7. ASSUME C!Look PROVE CallsInv'
  <2>1. /\ call.name \in {"tick", "run_async"} /\ C!Queued = {}
        /\ call.name = "run_async" => C!Waiting = {}
        /\ call' = [call EXCEPT !.phase = "again", !.idle = C!Waiting = {}]
        /\ UNCHANGED <<dir, code, audited, answer>>
    BY <1>7 DEF C!Look
  <2>2. /\ call \in UnderWay /\ call' \in UnderWay
        /\ call'.name = call.name /\ call'.phase = "again" /\ call'.idle = (C!Waiting = {})
    BY <2>1, CallUnderWay DEF UnderWay, C!End
  <2>3. call # C!NoCall /\ call' # C!NoCall
    BY <2>2, NoCallIsNone
  <2>4. C!Waiting = {} => NothingLeft
    BY <1>0, <2>1 DEF Piece, NothingLeft, C!Waiting, C!Queued, C!Still
  <2>5. PhasesInOrder'
    BY <2>1, <2>2, <2>4 DEF PhasesInOrder, NothingLeft
  <2> QED BY <2>1, <2>2, <2>3, <2>5
          DEF CallsInv, C!TypeOK, UnderWay, Piece, PiecesHaveTheirHome, C!AnswersAreKept, C!PwdIsOfTheCall
<1>8. ASSUME NEW over \in BOOLEAN, C!Round(over) PROVE CallsInv'
  <2>1. /\ call.name = "run_async" /\ call.phase = "jobs"
        /\ call' = IF over THEN [call EXCEPT !.phase = "done", !.own = 0, !.ends = "stuck"]
                   ELSE [call EXCEPT !.phase = "io"]
        /\ UNCHANGED <<dir, code, audited, answer>>
    BY <1>8 DEF C!Round
  <2>2. /\ call \in UnderWay /\ call' \in UnderWay
        /\ call'.name = call.name /\ call'.idle = call.idle
        /\ \/ call'.phase = "done" /\ call'.own = 0 /\ call'.ends = "stuck"
           \/ call'.phase = "io"
    BY <2>1, CallUnderWay DEF UnderWay, C!End
  <2>3. call # C!NoCall /\ call' # C!NoCall
    BY <2>2, NoCallIsNone
  <2>4. PhasesInOrder'
    BY <2>1, <2>2 DEF CallsInv, PhasesInOrder
  <2> QED BY <2>1, <2>2, <2>3, <2>4
          DEF CallsInv, C!TypeOK, UnderWay, Piece, PiecesHaveTheirHome, C!AnswersAreKept, C!PwdIsOfTheCall
<1>9. ASSUME NEW d \in Dir, NEW own \in BOOLEAN, NEW i \in C!Place \cup {0},
             NEW is \in C!Still, C!Return(d, own, i, is)
      PROVE  CallsInv'
  <2> DEFINE home == C!Home(call.name, d)
             kept == [k \in C!Place |-> [code[k] EXCEPT !.late = code[k].is # "none"]]
  <2>1. /\ \/ call.phase = "done"
           \/ call.phase = "again" /\ C!Queued = {}
           \/ call.name \in C!Module /\ call.phase = "jobs" /\ C!Queued = {}
        /\ own => dir = C!DirOf(call.name, d)
        /\ answer' = [of |-> call.name, code |-> C!CodeOf, left |-> call.own, idle |-> call.idle,
                      written |-> i]
        /\ code' = C!With(kept, i, is, home, TRUE)
        /\ audited' = IF own THEN [given |-> dir, home |-> home, late |-> FALSE] ELSE C!NoAudit
        /\ call' = C!NoCall /\ UNCHANGED dir
    BY <1>9 DEF C!Return
  <2>2. call \in UnderWay /\ call.name \in C!Name
    BY <2>1, CallUnderWay DEF UnderWay, C!End
  <2>3. home \in Dir \cup {NoDir} /\ Fits(C!DirOf(call.name, d), home)
    BY <2>2, DirsFit
  <2>4. /\ kept \in [C!Place -> Piece]
        /\ \A k \in C!Place : kept[k].is = code[k].is /\ kept[k].late = (code[k].is # "none")
    BY <1>0 DEF Piece
  <2>5. /\ code' \in [C!Place -> Piece]
        /\ \A k \in C!Place : \/ code'[k] = kept[k]
                              \/ code'[k] = PieceOf(is, home, TRUE)
        /\ \A k \in C!Place : k # i => code'[k] = kept[k]
    <3> HIDE DEF home, kept
    <3>1. /\ code' \in [C!Place -> Piece]
          /\ \A k \in C!Place : \/ code'[k] = kept[k]
                                \/ code'[k] = PieceOf(is, home, TRUE)
      <4>1. TRUE \in BOOLEAN /\ code' = C!With(kept, i, is, home, TRUE)
        BY <2>1
      <4> QED BY <2>3, <2>4, <4>1, OneMore
    <3>2. \A k \in C!Place : k # i => code'[k] = kept[k]
      BY <2>1, <2>4 DEF C!With
    <3> QED BY <3>1, <3>2
  <2>6. C!TypeOK'
    <3>1. C!CodeOf \in {0, 1}
      BY DEF C!CodeOf
    <3>2. answer' \in Answer
      BY <2>1, <2>2, <3>1 DEF UnderWay, Answer
    <3>3. audited' \in [given : Dir \cup {NoDir}, home : Dir \cup {NoDir}, late : BOOLEAN]
      BY <1>0, <2>1, <2>3 DEF C!NoAudit
    <3> QED BY <1>0, <2>1, <2>5, <3>2, <3>3 DEF C!TypeOK, Piece, Answer
  <2>7. PhasesInOrder'
    BY <2>1 DEF PhasesInOrder, C!NoCall
  <2>8. PiecesHaveTheirHome'
    <3> HIDE DEF home, kept
    <3>1. \A k \in C!Place : code'[k].is # "none" => code'[k].late
      <4> TAKE k \in C!Place
      <4> HAVE code'[k].is # "none"
      <4>1. PieceOf(is, home, TRUE).late = TRUE
        BY DEF PieceOf
      <4>2. kept[k].is # "none" => kept[k].late = TRUE
        BY <2>4
      <4> QED BY <2>5, <4>1, <4>2
    <3> QED BY <3>1 DEF PiecesHaveTheirHome
  <2>9. C!PwdIsOfTheCall'
    <3>1. CASE own
      BY <2>1, <2>3, <3>1 DEF C!PwdIsOfTheCall, Fits
    <3>2. CASE ~own
      BY <2>1, <3>2 DEF C!PwdIsOfTheCall, C!NoAudit
    <3> QED BY <3>1, <3>2
  <2>10. C!AnswersAreKept'
    <3>1. C!Queued' \subseteq C!Queued \cup {i} /\ C!Waiting' \subseteq C!Waiting \cup {i}
      <4> HIDE DEF home, kept
      <4> QED BY <2>4, <2>5 DEF C!Queued, C!Waiting
    <3>2. NothingLeft => C!Queued = {} /\ C!Waiting = {}
      BY DEF NothingLeft, C!Queued, C!Waiting
    <3>3. call.name \in C!Module \cup {"tick"} => C!Queued = {}
      BY <2>1 DEF CallsInv, PhasesInOrder, C!Module, C!Script
    <3>4. call.name = "tick" /\ call.idle => NothingLeft
      BY DEF CallsInv, PhasesInOrder
    <3>5. call.name = "run_async" /\ C!CodeOf = 0 => NothingLeft
      <4> SUFFICES ASSUME call.name = "run_async", C!CodeOf = 0 PROVE NothingLeft
        OBVIOUS
      <4>1. call.phase # "done"
        BY DEF C!CodeOf, CallsInv, PhasesInOrder
      <4>2. call.phase = "again"
        BY <2>1, <4>1 DEF C!Module
      <4> QED BY <4>2 DEF CallsInv, PhasesInOrder
    <3>6. call.name \in C!Module /\ C!CodeOf = 0 => call.own = 0
      BY DEF C!CodeOf
    <3>7. answer'.of = call.name /\ answer'.code = C!CodeOf /\ answer'.left = call.own
          /\ answer'.idle = call.idle /\ answer'.written = i
      BY <2>1
    <3> QED BY <3>1, <3>2, <3>3, <3>4, <3>5, <3>6, <3>7 DEF C!AnswersAreKept
  <2> QED BY <2>6, <2>7, <2>8, <2>9, <2>10 DEF CallsInv
<1> QED BY <1>1, <1>2, <1>3, <1>4, <1>5, <1>6, <1>7, <1>8, <1>9 DEF C!Next

LEMMA CallsStay == CallsInv /\ UNCHANGED C!vars => CallsInv'
  BY DEF CallsInv, C!TypeOK, UnderWay, Piece, PhasesInOrder, NothingLeft, PiecesHaveTheirHome, C!AnswersAreKept,
         C!PwdIsOfTheCall, C!Queued, C!Waiting, C!vars

(***************************************************************************)
(* However the calls that run code follow each other, and whatever they    *)
(* leave: a module and a tick leave no job in the queue, a tick that       *)
(* answers idle and a koss_run_async that answers 0 leave nothing, a       *)
(* module that answers 0 has finished, and code is audited under the       *)
(* directory of what was run to bring it in until that call has ended.     *)
(***************************************************************************)
THEOREM CallsAnswer == C!Spec => [](C!PwdIsOfTheCall /\ C!AnswersAreKept)
<1>1. CallsInv => C!PwdIsOfTheCall /\ C!AnswersAreKept
  BY DEF CallsInv
<1> QED BY CallsInit, CallsStep, CallsStay, <1>1, PTL DEF C!Spec

-----------------------------------------------------------------------------
(* The built-in modules. *)
(* The table has a file for every name. *)
LEMMA EveryNameHasItsFile ==
  ASSUME NEW layer \in B!Layer \cup {"internal"}, NEW name \in B!Names(layer)
  PROVE  B!FileOf(layer, name) \in B!Embedded /\ B!FileOf(layer, name)[1] = layer
<1> USE DEF B!FileOf, B!Embedded, B!Layer
<1>1. CASE layer = "node"
  BY <1>1 DEF B!Names, B!NodeNames
<1>2. CASE layer = "koss"
  BY <1>2 DEF B!Names, B!KossNames
<1>3. CASE layer = "internal"
  BY <1>3 DEF B!Names, B!InternalNames
<1>4. CASE layer \in {"bun", "deno"}
  BY <1>4 DEF B!Names
<1> QED BY <1>1, <1>2, <1>3, <1>4

LEMMA NoErrorIsAFile ==
  B!Error \notin B!Embedded /\ B!None \notin B!Embedded /\ B!Elsewhere \notin B!Embedded
<1>1. \A f \in B!Embedded : f[1] \in {"node", "koss", "internal", "bun", "deno", "web_api"}
  BY DEF B!Embedded
<1> QED BY <1>1 DEF B!Error, B!None, B!Elsewhere

(* What the table answers. *)
LEMMA TableAnswers ==
  ASSUME NEW layer \in B!Layer \cup {"internal"}, NEW name
  PROVE  /\ layer \in B!On /\ name \in B!Names(layer) =>
              B!Builtin(layer, name) \in B!Embedded /\ B!Builtin(layer, name)[1] = layer
         /\ ~(layer \in B!On /\ name \in B!Names(layer)) => B!Builtin(layer, name) = B!Error
<1>1. "internal" \notin B!Layer
  BY DEF B!Layer
<1> QED BY <1>1, EveryNameHasItsFile DEF B!Builtin, B!On

(* No file requires, at its top, one of a higher rank: there are no cycles.*)
KossRank(name) ==
  CASE name = "http" -> 4
    [] name \in {"net", "zlib"} -> 3
    [] name \in {"io", "querystring"} -> 2
    [] name \in {"util", "stream", "crypto", "os", "process"} -> 1
    [] OTHER -> 0

Rank(f) ==
  CASE f[1] \in {"bun", "deno", "web_api"} -> 6
    [] f[1] = "node" -> 5
    [] f[1] = "koss" -> KossRank(f[2])
    [] f = B!Internal("stream") -> 1
    [] OTHER -> 0

Library == ({"koss"} \X B!KossNames) \cup ({"internal"} \X B!InternalNames)

(* What a list of requires needs to be: modules of the koss layer and of   *)
(* koss:internal, all of a lower rank.                                     *)
Below(list, n) ==
  /\ list \in Seq(Library) /\ Len(list) <= 5
  /\ \A i \in 1 .. Len(list) : Rank(list[i]) < n

LEMMA RankIsNat == \A f : Rank(f) \in Nat
  BY DEF Rank, KossRank

LEMMA KossRanks ==
  /\ \A name : Rank(B!Koss(name)) = KossRank(name) /\ KossRank(name) < 5
  /\ \A name \in B!InternalNames : Rank(B!Internal(name)) = IF name = "stream" THEN 1 ELSE 0
<1>1. \A name : Rank(B!Koss(name)) = KossRank(name)
  BY DEF Rank, B!Koss, B!Internal
<1>2. \A name : KossRank(name) < 5
  BY DEF KossRank
<1>3. \A name \in B!InternalNames : Rank(B!Internal(name)) = IF name = "stream" THEN 1 ELSE 0
  BY DEF Rank, B!Internal, B!InternalNames
<1> QED BY <1>1, <1>2, <1>3

LEMMA InTheLibrary ==
  /\ \A name \in B!KossNames : B!Koss(name) \in Library
  /\ \A name \in B!InternalNames : B!Internal(name) \in Library
  BY DEF Library, B!Koss, B!Internal

(* Lists of one to five, and the empty one. *)
Low(n) == {x \in Library : Rank(x) < n}

LEMMA ShortLists ==
  ASSUME NEW n, NEW list,
         \/ list = <<>>
         \/ \E a \in Low(n) : list = <<a>>
         \/ \E a, b \in Low(n) : list = <<a, b>>
         \/ \E a, b, c \in Low(n) : list = <<a, b, c>>
         \/ \E a, b, c, d \in Low(n) : list = <<a, b, c, d>>
         \/ \E a, b, c, d, e \in Low(n) : list = <<a, b, c, d, e>>
  PROVE  Below(list, n)
<1>1. list \in Seq(Low(n)) /\ Len(list) <= 5
  <2>1. CASE list = <<>>
    BY <2>1
  <2>2. ASSUME NEW a \in Low(n), list = <<a>> PROVE list \in Seq(Low(n)) /\ Len(list) <= 5
    BY <2>2
  <2>3. ASSUME NEW a \in Low(n), NEW b \in Low(n), list = <<a, b>>
        PROVE  list \in Seq(Low(n)) /\ Len(list) <= 5
    BY <2>3
  <2>4. ASSUME NEW a \in Low(n), NEW b \in Low(n), NEW c \in Low(n), list = <<a, b, c>>
        PROVE  list \in Seq(Low(n)) /\ Len(list) <= 5
    BY <2>4
  <2>5. ASSUME NEW a \in Low(n), NEW b \in Low(n), NEW c \in Low(n), NEW d \in Low(n),
               list = <<a, b, c, d>>
        PROVE  list \in Seq(Low(n)) /\ Len(list) <= 5
    BY <2>5
  <2>6. ASSUME NEW a \in Low(n), NEW b \in Low(n), NEW c \in Low(n), NEW d \in Low(n),
               NEW e \in Low(n), list = <<a, b, c, d, e>>
        PROVE  list \in Seq(Low(n)) /\ Len(list) <= 5
    BY <2>6
  <2> QED BY <2>1, <2>2, <2>3, <2>4, <2>5, <2>6
<1> QED BY <1>1 DEF Below, Low

LEMMA KossNeedsAreBelow ==
  ASSUME NEW name \in B!KossNames
  PROVE  Below(B!KossNeeds(name), KossRank(name))
<1> DEFINE n == KossRank(name)
           list == B!KossNeeds(name)
<1>1. \A m \in Nat \ {0} : \A x \in {"buffer", "events", "data", "system"} : B!Koss(x) \in Low(m)
  <2>1. \A x \in {"buffer", "events", "data", "system"} : x \in B!KossNames /\ KossRank(x) = 0
    BY DEF KossRank, B!KossNames
  <2> QED BY <2>1, KossRanks, InTheLibrary DEF Low
<1>2. CASE name \in {"util", "stream", "os", "process"}
  <2>1. n = 1
    BY <1>2 DEF KossRank
  <2>2. list \in {<<B!Koss("buffer")>>, <<B!Koss("buffer"), B!Koss("events")>>, <<B!Koss("system")>>,
                  <<B!Koss("system"), B!Koss("events")>>}
    BY <1>2 DEF B!KossNeeds
  <2> QED BY <1>1, <2>1, <2>2, ShortLists
<1>3. CASE name = "crypto"
  <2>1. n = 1 /\ list = <<B!Internal("crypto")>>
    BY <1>3 DEF KossRank, B!KossNeeds
  <2>2. B!Internal("crypto") \in Low(1)
    BY KossRanks, InTheLibrary DEF Low, B!InternalNames
  <2> QED BY <2>1, <2>2, ShortLists
<1>4. CASE name = "querystring"
  <2>1. n = 2 /\ list = <<B!Koss("util")>>
    BY <1>4 DEF KossRank, B!KossNeeds
  <2>2. KossRank("util") = 1 /\ "util" \in B!KossNames
    BY DEF KossRank, B!KossNames
  <2>3. B!Koss("util") \in Low(2)
    BY <2>2, KossRanks, InTheLibrary DEF Low
  <2> QED BY <2>1, <2>3, ShortLists
<1>5. CASE name = "io"
  <2>1. \A x \in {"fs", "net", "stream"} : B!Internal(x) \in Low(2)
    BY KossRanks, InTheLibrary DEF Low, B!InternalNames
  <2>2. n = 2 /\ list =
          <<B!Internal("fs"), B!Internal("net"), B!Internal("stream"), B!Koss("data"), B!Koss("buffer")>>
    BY <1>5 DEF B!KossNeeds, KossRank
  <2> QED BY <1>1, <2>1, <2>2, ShortLists
<1>6. CASE name \in {"net", "zlib"}
  <2>1. KossRank("io") = 2 /\ "io" \in B!KossNames
    BY DEF KossRank, B!KossNames
  <2>2. B!Koss("io") \in Low(3)
    BY <2>1, KossRanks, InTheLibrary DEF Low
  <2>3. n = 3
    BY <1>6 DEF KossRank
  <2>4. list \in
          {<<B!Koss("io"), B!Koss("events")>>, <<B!Koss("io"), B!Koss("events"), B!Koss("buffer")>>}
    BY <1>6 DEF B!KossNeeds
  <2> QED BY <1>1, <2>2, <2>3, <2>4, ShortLists
<1>7. CASE name = "http"
  <2>1. KossRank("net") = 3 /\ "net" \in B!KossNames
    BY DEF KossRank, B!KossNames
  <2>2. B!Koss("net") \in Low(4)
    BY <2>1, KossRanks, InTheLibrary DEF Low
  <2>3. n = 4 /\ list = <<B!Koss("events"), B!Koss("net"), B!Koss("buffer")>>
    BY <1>7 DEF B!KossNeeds, KossRank
  <2> QED BY <1>1, <2>2, <2>3, ShortLists
<1>8. CASE name \notin {"util", "stream", "os", "process", "crypto", "querystring", "io", "net",
                        "zlib", "http"}
  <2>1. list = <<>>
    BY <1>8 DEF B!KossNeeds
  <2> QED BY <2>1, ShortLists
<1> QED BY <1>2, <1>3, <1>4, <1>5, <1>6, <1>7, <1>8

LEMMA NeedsAreBelow ==
  ASSUME NEW f \in B!Embedded
  PROVE  Below(B!Needs(f), Rank(f))
<1>0. \A m \in {5, 6} : \A x \in B!KossNames : B!Koss(x) \in Low(m)
  BY KossRanks, InTheLibrary, RankIsNat DEF Low
<1>1. CASE f[1] = "node"
  <2>1. Rank(f) = 5 /\ B!Needs(f) = B!NodeNeeds(f[2])
    BY <1>1 DEF Rank, B!Needs, B!Internal
  <2>2. CASE f[2] \in B!Renamed
    <3>1. B!Needs(f) = <<B!Koss(f[2])>> /\ f[2] \in B!KossNames
      BY <2>1, <2>2 DEF B!NodeNeeds, B!Renamed, B!KossNames
    <3> QED BY <1>0, <2>1, <3>1, ShortLists
  <2>3. CASE f[2] \notin B!Renamed
    <3>1. B!Needs(f) \in {<<B!Koss("io")>>, <<B!Koss("timers")>>, <<B!Koss("stream")>>,
                          <<B!Koss("crypto"), B!Koss("buffer")>>,
                          <<B!Koss("events"), B!Koss("buffer")>>, <<>>}
      BY <2>1, <2>3 DEF B!NodeNeeds
    <3>2. {"io", "timers", "stream", "crypto", "buffer", "events"} \subseteq B!KossNames
      BY DEF B!KossNames
    <3> QED BY <1>0, <2>1, <3>1, <3>2, ShortLists
  <2> QED BY <2>2, <2>3
<1>2. CASE f[1] \in {"bun", "deno", "web_api"}
  <2>1. Rank(f) = 6
    BY <1>2 DEF Rank, B!Internal
  <2>2. B!Needs(f) \in {<<B!Koss("io"), B!Koss("crypto"), B!Koss("system"), B!Koss("buffer")>>,
          <<B!Koss("io"), B!Koss("crypto"), B!Koss("system"), B!Koss("buffer"), B!Koss("zlib")>>, <<>>}
    BY <1>2 DEF B!Needs, B!Internal
  <2>3. {"io", "crypto", "system", "buffer", "zlib"} \subseteq B!KossNames
    BY DEF B!KossNames
  <2> QED BY <1>0, <2>1, <2>2, <2>3, ShortLists
<1>3. CASE f[1] = "internal"
  <2>1. PICK n \in B!InternalNames : f = B!Internal(n)
    BY <1>3 DEF B!Embedded, B!Internal
  <2>2. CASE n = "stream"
    <3>1. Rank(f) = 1 /\ B!Needs(f) = <<B!Koss("buffer")>>
      BY <2>1, <2>2, KossRanks DEF B!Needs, B!Internal
    <3>2. KossRank("buffer") = 0 /\ "buffer" \in B!KossNames
      BY DEF KossRank, B!KossNames
    <3>3. B!Koss("buffer") \in Low(1)
      BY <3>2, KossRanks, InTheLibrary DEF Low
    <3> QED BY <3>1, <3>3, ShortLists
  <2>3. CASE n # "stream"
    <3>1. B!Needs(f) = <<>>
      BY <2>1, <2>3 DEF B!Needs, B!Internal
    <3> QED BY <3>1, ShortLists
  <2> QED BY <2>2, <2>3
<1>4. CASE f[1] = "koss"
  <2>1. PICK n \in B!KossNames : f = B!Koss(n)
    BY <1>4 DEF B!Embedded, B!Koss
  <2>2. B!Needs(f) = B!KossNeeds(n) /\ Rank(f) = KossRank(n)
    BY <2>1, KossRanks DEF B!Needs, B!Koss, B!Internal
  <2> QED BY <2>2, KossNeedsAreBelow
<1> QED BY <1>1, <1>2, <1>3, <1>4 DEF B!Embedded

LEMMA BelowFacts ==
  ASSUME NEW n \in Nat, NEW list, Below(list, n)
  PROVE  /\ Len(list) \in 0 .. 5
         /\ \A k \in 1 .. Len(list) : list[k] \in Library /\ Rank(list[k]) \in Nat /\ Rank(list[k]) < n
<1>1. list \in Seq(Library) /\ Len(list) <= 5 /\ \A i \in 1 .. Len(list) : Rank(list[i]) < n
  BY DEF Below
<1>2. Len(list) \in Nat
  BY <1>1, LenProperties
<1>3. Len(list) \in 0 .. 5
  <2>1. \A m \in Nat : m <= 5 => m \in 0 .. 5
    OBVIOUS
  <2>2. Len(list) <= 5
    BY <1>1
  <2> QED BY <1>2, <2>1, <2>2, Zenon
<1>4. \A k \in 1 .. Len(list) : list[k] \in Library
  BY <1>1, ElementOfSeq
<1> QED BY <1>1, <1>3, <1>4, RankIsNat

LEMMA NeedFacts ==
  ASSUME NEW f \in B!Embedded
  PROVE  /\ Len(B!Needs(f)) \in 0 .. 5 /\ Rank(f) \in Nat
         /\ \A k \in 1 .. Len(B!Needs(f)) : /\ B!Needs(f)[k] \in Library
                                            /\ Rank(B!Needs(f)[k]) \in Nat
                                            /\ Rank(B!Needs(f)[k]) < Rank(f)
<1>1. Below(B!Needs(f), Rank(f)) /\ Rank(f) \in Nat
  BY NeedsAreBelow, RankIsNat
<1> QED BY <1>1, BelowFacts

(* What the files of the library require, the table has. *)
LEMMA LibraryAnswers ==
  ASSUME NEW n \in Library
  PROVE  /\ n \in B!Embedded /\ n[1] \in {"koss", "internal"}
         /\ n[1] \in B!On => B!Builtin(n[1], n[2]) = n
         /\ n[1] \notin B!On => B!Builtin(n[1], n[2]) = B!Error
<1>1. n \in B!Embedded /\ n[1] \in {"koss", "internal"} /\ n[1] \in B!Layer \cup {"internal"}
      /\ n = <<n[1], n[2]>>
  BY DEF Library, B!Embedded, B!Layer
<1>2. n[2] \in B!Names(n[1])
  BY DEF Library, B!Names
<1>3. B!FileOf(n[1], n[2]) = n
  <2>1. n[2] \notin {"timers/promises", "stream/promises", "stream/consumers"}
    BY DEF Library, B!KossNames, B!InternalNames
  <2> QED BY <1>1, <2>1 DEF B!FileOf
<1>4. "internal" \notin B!Layer
  BY DEF B!Layer
<1> QED BY <1>1, <1>2, <1>3, <1>4 DEF B!Builtin, B!On

LEMMA FoundAnswers ==
  ASSUME NEW a \in B!Asked
  PROVE  /\ B!Found(a) \in B!Embedded \cup {B!Error, B!Elsewhere}
         /\ B!Found(a) = B!Error => /\ a[1] \in {"koss", "import"}
                                    /\ ~(a[2] \in B!On /\ a[3] \in B!Names(a[2]))
         /\ B!Found(a) \in B!Embedded /\ a[1] # "path" => B!Found(a)[1] \in B!On
         /\ B!Found(a) \in B!Embedded /\ ~loads => a[1] = "import"
<1>0. a[1] \in {"koss", "import", "bare", "path"}
  BY DEF B!Asked
<1>1. CASE a[1] # "import" /\ ~loads
  <2>1. B!Found(a) = B!Elsewhere
    BY <1>1 DEF B!Found
  <2>2. B!Elsewhere # B!Error
    BY DEF B!Elsewhere, B!Error
  <2> QED BY <2>1, <2>2, NoErrorIsAFile
<1>2. CASE ~(a[1] # "import" /\ ~loads) /\ a[1] \in {"koss", "import"}
  <2>1. B!Found(a) = B!Builtin(a[2], a[3])
    BY <1>2 DEF B!Found
  <2>2. a[2] \in B!Layer \cup {"internal"}
    BY <1>2 DEF B!Asked
  <2> QED BY <1>2, <2>1, <2>2, TableAnswers, NoErrorIsAFile
<1>3. CASE ~(a[1] # "import" /\ ~loads) /\ a[1] = "path"
  <2>1. B!Found(a) = <<a[2], a[3]>>
    BY <1>3 DEF B!Found
  <2>2. PICK f \in B!Embedded : a = <<"path", f[1], f[2]>>
    BY <1>3 DEF B!Asked
  <2>3. f = <<f[1], f[2]>>
    BY DEF B!Embedded
  <2> QED BY <1>3, <2>1, <2>2, <2>3, NoErrorIsAFile
<1>4. CASE ~(a[1] # "import" /\ ~loads) /\ a[1] = "bare"
  <2>1. /\ B!Builtin("node", a[3]) # B!Error => B!Found(a) = B!Builtin("node", a[3])
        /\ B!Builtin("node", a[3]) = B!Error => B!Found(a) = B!Elsewhere
    BY <1>4 DEF B!Found
  <2>2. B!Elsewhere # B!Error
    BY DEF B!Elsewhere, B!Error
  <2>3. "node" \in B!Layer \cup {"internal"}
    BY DEF B!Layer
  <2> QED BY <1>4, <2>1, <2>2, <2>3, TableAnswers, NoErrorIsAFile
<1> QED BY <1>0, <1>1, <1>2, <1>3, <1>4

(* What a file at a place of the chain may go on without. *)
Found(list, i, need, has) ==
  \/ need \in has \/ ~loads \/ B!Spared(list[i].file, need)
  \/ i = 1 /\ asked[1] = "import" /\ need = B!Koss("buffer") /\ list[i].file \in B!TakesGlobal

(* A file of the chain has what it has required so far, waits for the one  *)
(* after it, and is of a layer that is on and of a higher rank.            *)
Chained(list, i, has) ==
  LET f == list[i].file
      needs == B!Needs(f)
  IN  /\ list[i].at <= Len(needs) + 1
      /\ \A k \in 1 .. list[i].at - 1 : Found(list, i, needs[k], has)
      /\ i > 1 \/ asked[1] # "path" => f[1] \in B!On
      /\ i = 1 => f = B!Found(asked)
      /\ i < Len(list) => list[i].at <= Len(needs) /\ list[i + 1].file = needs[list[i].at]
      /\ \A j \in i + 1 .. Len(list) : Rank(list[j].file) < Rank(f)

Frame == [file : B!Embedded, at : 1 .. 6]
Chain(list, has) == list \in Seq(Frame) /\ \A i \in 1 .. Len(list) : Chained(list, i, has)

LEMMA ChainGrown ==
  ASSUME NEW list, NEW has, NEW more, has \subseteq more, Chain(list, has)
  PROVE  Chain(list, more)
  BY DEF Chain, Chained, Found

LEMMA ChainShortened ==
  ASSUME NEW list, NEW has, Chain(list, has), list # <<>>
  PROVE  Chain(SubSeq(list, 1, Len(list) - 1), has)
<1> DEFINE s == SubSeq(list, 1, Len(list) - 1)
<1>1. /\ s \in Seq(Frame) /\ Len(s) = Len(list) - 1 /\ Len(list) \in Nat \ {0}
      /\ \A i \in 1 .. Len(list) - 1 : s[i] = list[i]
  <2>1. list \in Seq(Frame) /\ Len(list) \in Nat \ {0}
    BY DEF Chain
  <2>2. \A i \in 1 .. Len(list) - 1 : list[i] \in Frame
    BY <2>1
  <2>3. /\ s \in Seq(Frame) /\ Len(s) = IF 1 <= Len(list) - 1 THEN (Len(list) - 1) - 1 + 1 ELSE 0
        /\ \A i \in 1 .. (Len(list) - 1) - 1 + 1 : s[i] = list[1 + i - 1]
    BY <2>1, <2>2, SubSeqProperties
  <2> HIDE DEF s
  <2>4. Len(s) = Len(list) - 1
    <3>1. CASE Len(list) = 1
      BY <2>3, <3>1
    <3>2. CASE Len(list) # 1
      <4>1. \A m \in Nat \ {0} : m # 1 => 1 <= m - 1 /\ m - 1 - 1 + 1 = m - 1
        OBVIOUS
      <4> QED BY <2>1, <2>3, <3>2, <4>1
    <3> QED BY <3>1, <3>2
  <2>5. \A i \in 1 .. Len(list) - 1 : s[i] = list[i]
    <3> TAKE i \in 1 .. Len(list) - 1
    <3>1. i \in 1 .. (Len(list) - 1) - 1 + 1 /\ 1 + i - 1 = i
      BY <2>1
    <3> QED BY <2>3, <3>1
  <2> QED BY <2>1, <2>3, <2>4, <2>5
<1> HIDE DEF s
<1>2. ASSUME NEW i \in 1 .. Len(s) PROVE Chained(s, i, has)
  <2>1. i \in 1 .. Len(list) /\ Chained(list, i, has) /\ s[i] = list[i]
        /\ \A j \in i + 1 .. Len(s) : s[j] = list[j] /\ j \in i + 1 .. Len(list)
    BY <1>1 DEF Chain
  <2>2. \A need : Found(s, i, need, has) <=> Found(list, i, need, has)
    BY <2>1 DEF Found
  <2>3. i < Len(s) => i < Len(list) /\ s[i + 1] = list[i + 1]
    BY <1>1
  <2> QED BY <2>1, <2>2, <2>3 DEF Chained
<1> QED BY <1>1, <1>2 DEF Chain, s

LEMMA ChainForth ==
  ASSUME NEW list, NEW has, Chain(list, has), list # <<>>,
         list[Len(list)].at <= Len(B!Needs(list[Len(list)].file)),
         Found(list, Len(list), B!Needs(list[Len(list)].file)[list[Len(list)].at], has)
  PROVE  Chain([list EXCEPT ![Len(list)].at = @ + 1], has)
<1> DEFINE n == Len(list)
           s == [list EXCEPT ![n].at = @ + 1]
<1>1. n \in 1 .. Len(list) /\ list \in Seq(Frame) /\ list[n] \in Frame
  BY DEF Chain
<1>2. Len(B!Needs(list[n].file)) \in 0 .. 5 /\ list[n].at \in 1 .. 6
  BY <1>1, NeedFacts DEF Frame
<1>3. /\ s \in Seq(Frame) /\ Len(s) = n
      /\ \A i \in 1 .. n : s[i].file = list[i].file
      /\ \A i \in 1 .. n - 1 : s[i] = list[i]
      /\ s[n].at = list[n].at + 1
  BY <1>1, <1>2 DEF Frame
<1> HIDE DEF s
<1>4. ASSUME NEW i \in 1 .. n PROVE Chained(s, i, has)
  <2>1. Chained(list, i, has)
    BY DEF Chain
  <2>2. \A need : Found(s, i, need, has) <=> Found(list, i, need, has)
    BY <1>3 DEF Found
  <2>3. CASE i < n
    <3>1. s[i] = list[i] /\ s[i + 1].file = list[i + 1].file
          /\ \A j \in i + 1 .. Len(s) : s[j].file = list[j].file
      BY <1>1, <1>3, <2>3
    <3> QED BY <1>3, <2>1, <2>2, <3>1 DEF Chained
  <2>4. CASE i = n
    <3>1. \A k \in 1 .. s[n].at - 1 : Found(list, n, B!Needs(list[n].file)[k], has)
      <4> SUFFICES ASSUME NEW k \in 1 .. s[n].at - 1
                   PROVE  Found(list, n, B!Needs(list[n].file)[k], has)
        OBVIOUS
      <4>1. k \in 1 .. list[n].at - 1 \/ k = list[n].at
        BY <1>2, <1>3
      <4>2. \A j \in 1 .. list[n].at - 1 : Found(list, n, B!Needs(list[n].file)[j], has)
        BY <2>1, <2>4 DEF Chained
      <4> QED BY <4>1, <4>2
    <3>2. s[n].at <= Len(B!Needs(s[n].file)) + 1
      BY <1>1, <1>2, <1>3
    <3>3. ~(n < Len(s)) /\ \A j \in n + 1 .. Len(s) : FALSE
      BY <1>1, <1>3
    <3> QED BY <1>1, <1>3, <2>1, <2>2, <2>4, <3>1, <3>2, <3>3 DEF Chained
  <2> QED BY <1>1, <2>3, <2>4
<1> QED BY <1>3, <1>4 DEF Chain, s

LEMMA ChainLonger ==
  ASSUME NEW list, NEW has, Chain(list, has), list # <<>>,
         list[Len(list)].at <= Len(B!Needs(list[Len(list)].file)),
         NEW f, f = B!Needs(list[Len(list)].file)[list[Len(list)].at], f[1] \in B!On
  PROVE  Chain(Append(list, [file |-> f, at |-> 1]), has)
<1> DEFINE n == Len(list)
           s == Append(list, [file |-> f, at |-> 1])
<1>1. n \in 1 .. Len(list) /\ list \in Seq(Frame) /\ list[n] \in Frame
  BY DEF Chain
<1>2. list[n].file \in B!Embedded /\ list[n].at \in 1 .. Len(B!Needs(list[n].file))
  BY <1>1, NeedFacts DEF Frame
<1>3. /\ f \in B!Embedded /\ Rank(f) \in Nat /\ Rank(f) < Rank(list[n].file)
      /\ Rank(list[n].file) \in Nat
  BY <1>2, NeedFacts, LibraryAnswers
<1>4. /\ s \in Seq(Frame) /\ Len(s) = n + 1
      /\ \A i \in 1 .. n : s[i] = list[i]
      /\ s[n + 1].file = f /\ s[n + 1].at = 1
  BY <1>1, <1>3 DEF Frame
<1> HIDE DEF s
<1>5. ASSUME NEW i \in 1 .. n PROVE Chained(s, i, has)
  <2>1. Chained(list, i, has) /\ list[i] \in Frame
    BY <1>1 DEF Chain
  <2>2. \A need : Found(s, i, need, has) <=> Found(list, i, need, has)
    BY <1>4 DEF Found
  <2>3. i < Len(s) => list[i].at <= Len(B!Needs(list[i].file))
                      /\ s[i + 1].file = B!Needs(list[i].file)[list[i].at]
    <3>1. CASE i < n
      <4>1. i + 1 \in 1 .. n
        BY <1>1, <3>1
      <4> QED BY <1>4, <2>1, <3>1, <4>1 DEF Chained
    <3>2. CASE i = n
      BY <1>4, <3>2
    <3> QED BY <1>1, <3>1, <3>2
  <2>4. Rank(f) < Rank(list[i].file)
    <3>1. CASE i < n
      <4>1. Rank(list[n].file) < Rank(list[i].file) /\ Rank(list[i].file) \in Nat
        BY <1>1, <2>1, <3>1, RankIsNat DEF Chained
      <4> QED BY <1>3, <4>1
    <3>2. CASE i = n
      BY <1>3, <3>2
    <3> QED BY <1>1, <3>1, <3>2
  <2>5. \A j \in i + 1 .. Len(s) : Rank(s[j].file) < Rank(s[i].file)
    <3> SUFFICES ASSUME NEW j \in i + 1 .. n + 1 PROVE Rank(s[j].file) < Rank(s[i].file)
      BY <1>4
    <3>1. CASE j = n + 1
      BY <1>4, <2>4, <3>1
    <3>2. CASE j \in i + 1 .. n
      <4>1. Rank(list[j].file) < Rank(list[i].file) /\ j \in 1 .. n
        BY <2>1, <3>2 DEF Chained
      <4> QED BY <1>4, <4>1
    <3> QED BY <1>1, <3>1, <3>2
  <2> QED BY <1>4, <2>1, <2>2, <2>3, <2>5 DEF Chained
<1>6. Chained(s, n + 1, has)
  <2>1. n + 1 > 1 /\ \A j \in n + 2 .. Len(s) : FALSE
    BY <1>1, <1>4
  <2>2. Len(B!Needs(f)) \in 0 .. 5
    BY <1>3, NeedFacts
  <2> QED BY <1>1, <1>4, <2>1, <2>2 DEF Chained
<1> QED BY <1>1, <1>4, <1>5, <1>6 DEF Chain, s

(* What is asked for, the flags and the grant stay while files run. *)
LEMMA FoundStays ==
  ASSUME UNCHANGED <<flags, loads>>
  PROVE  \A a : B!Found(a)' = B!Found(a)
  BY DEF B!Found, B!Builtin

LEMMA ChainStays ==
  ASSUME UNCHANGED <<flags, loads, asked>>, Chain(loading', ran')
  PROVE  Chain(loading, ran)'
  BY DEF Chain, Chained, Found, B!On, B!Found, B!Builtin

(* The names in the cache have a file that has all it needs. *)
NamesHaveFiles ==
  \A a \in names : /\ a[1] \in {"bare", "path"}
                   /\ B!Found(a) \in B!Embedded => B!HardNeeds(B!Found(a)) \subseteq ran

LEMMA NamesStay ==
  ASSUME NamesHaveFiles, UNCHANGED <<flags, loads>>, names' \subseteq names, ran \subseteq ran'
  PROVE  NamesHaveFiles'
  BY FoundStays DEF NamesHaveFiles

BuiltinsInv ==
  /\ B!TypeOK
  /\ NamesHaveFiles
  /\ Chain(loading, ran)
  /\ thrown => loading # <<>>
  /\ ~loads => ran = {} /\ Len(loading) <= 1 /\ (loading # <<>> => asked[1] = "import")
  /\ B!LibraryIsWhole

LEMMA BuiltinsInit == B!Init => BuiltinsInv
<1> SUFFICES ASSUME B!Init PROVE BuiltinsInv
  OBVIOUS
<1> USE DEF B!Init
<1>1. B!TypeOK
  <2>1. loading \in Seq([file : B!Embedded, at : 1 .. 6])
    BY EmptySeq
  <2> QED BY <2>1 DEF B!TypeOK
<1>2. Chain(loading, ran)
  <2>1. loading \in Seq(Frame) /\ Len(loading) = 0
    BY EmptySeq
  <2> QED BY <2>1 DEF Chain
<1>3. B!LibraryIsWhole
  BY NoErrorIsAFile DEF B!LibraryIsWhole, B!None, B!Error
<1> QED BY <1>1, <1>2, <1>3 DEF BuiltinsInv, NamesHaveFiles

(* The file on top, and what it waits for. *)
LEMMA TopFacts ==
  ASSUME BuiltinsInv, loading # <<>>
  PROVE  LET n == Len(loading) IN
         /\ n \in Nat \ {0} /\ loading \in Seq(Frame) /\ loading[n] \in Frame /\ B!Top = loading[n]
         /\ \A i \in 1 .. n : loading[i] \in Frame /\ Chained(loading, i, ran)
<1>1. loading \in Seq(Frame)
  BY DEF BuiltinsInv, Chain
<1>2. Len(loading) \in Nat \ {0}
  BY <1>1
<1> QED BY <1>1, <1>2 DEF BuiltinsInv, Chain, B!Top

LEMMA AskKeeps ==
  ASSUME BuiltinsInv, NEW a \in B!Asked, B!Ask(a)
  PROVE  BuiltinsInv'
<1> DEFINE f == B!Found(a)
<1>1. /\ f \in B!Embedded \cup {B!Error, B!Elsewhere}
      /\ f = B!Error => a[1] \in {"koss", "import"} /\ ~(a[2] \in B!On /\ a[3] \in B!Names(a[2]))
      /\ f \in B!Embedded /\ a[1] # "path" => f[1] \in B!On
      /\ f \in B!Embedded /\ ~loads => a[1] = "import"
  BY FoundAnswers
<1>2. /\ loading = <<>> /\ asked' = a /\ ran' = ran /\ names' = names /\ thrown' = thrown
      /\ flags' = flags /\ loads' = loads /\ B!On' = B!On /\ ~thrown
  BY DEF B!Ask, BuiltinsInv, B!On
<1>5. NamesHaveFiles'
  BY <1>2, NamesStay DEF BuiltinsInv
<1>6. f' = f
  BY <1>2, FoundStays
<1>3. CASE f \in B!Embedded /\ ~B!Cached(a)
  <2>1. loading' = <<[file |-> f, at |-> 1]>> /\ answerOf' = B!None
    BY <1>3 DEF B!Ask
  <2>2. [file |-> f, at |-> 1] \in Frame
    BY <1>3 DEF Frame
  <2>3. loading' \in Seq(Frame) /\ Len(loading') = 1 /\ loading'[1].file = f /\ loading'[1].at = 1
    BY <2>1, <2>2
  <2>4. Len(B!Needs(f)) \in 0 .. 5
    BY <1>3, NeedFacts
  <2>5. Chain(loading, ran)'
    <3>1. /\ loading'[1].at <= Len(B!Needs(f)) + 1 /\ ~(1 < Len(loading'))
          /\ \A k \in 1 .. loading'[1].at - 1 : FALSE
          /\ \A j \in 1 + 1 .. Len(loading') : FALSE
      BY <2>3, <2>4
    <3>2. asked'[1] # "path" => f[1] \in B!On'
      BY <1>1, <1>2, <1>3
    <3>3. Chained(loading, 1, ran)'
      BY <1>2, <1>6, <2>3, <3>1, <3>2 DEF Chained
    <3>4. \A i \in 1 .. Len(loading') : i = 1
      BY <2>3
    <3>5. \A i \in 1 .. Len(loading') : Chained(loading, i, ran)'
      BY <3>3, <3>4
    <3> QED BY <2>3, <3>5 DEF Chain
  <2>6. B!TypeOK'
    BY <1>2, <2>1, <2>3 DEF B!TypeOK, BuiltinsInv, Frame
  <2>7. B!LibraryIsWhole'
    BY <1>2, <2>1, NoErrorIsAFile DEF BuiltinsInv, B!LibraryIsWhole, B!None, B!Error
  <2> QED BY <1>1, <1>2, <1>3, <1>5, <2>1, <2>3, <2>5, <2>6, <2>7 DEF BuiltinsInv
<1>4. CASE ~(f \in B!Embedded /\ ~B!Cached(a))
  <2>1. loading' = loading /\ answerOf' = f
    BY <1>4 DEF B!Ask
  <2>2. Chain(loading, ran)'
    BY <1>2, <2>1 DEF Chain
  <2>3. B!TypeOK'
    BY <1>1, <1>2, <2>1 DEF B!TypeOK, BuiltinsInv
  <2>4. B!LibraryIsWhole'
    <3>1. f \in B!Embedded => B!HardNeeds(f) \subseteq ran
      BY <1>4 DEF B!Cached, BuiltinsInv, NamesHaveFiles, B!LibraryIsWhole
    <3>2. \A g \in ran : g[1] \in B!On /\ B!HardNeeds(g) \subseteq ran
      BY DEF BuiltinsInv, B!LibraryIsWhole
    <3>3. "koss" \in flags' /\ f = B!Error =>
            /\ asked'[1] \in {"koss", "import"}
            /\ ~(asked'[2] \in B!On' /\ asked'[3] \in B!Names(asked'[2]))
      BY <1>1, <1>2
    <3>4. "koss" \in flags' => ~thrown'
      BY <1>2
    <3> QED BY <1>1, <1>2, <2>1, <3>1, <3>2, <3>3, <3>4 DEF B!LibraryIsWhole
  <2> QED BY <1>2, <1>5, <2>1, <2>2, <2>3, <2>4 DEF BuiltinsInv
<1> QED BY <1>3, <1>4

(* While files run the answer and what ran stand, or what ran grows. *)
LEMMA RequireKeeps ==
  ASSUME BuiltinsInv, B!Require
  PROVE  BuiltinsInv'
<1> DEFINE n == Len(loading)
           top == loading[n].file
           need == B!Needs(top)[loading[n].at]
           f == B!Builtin(need[1], need[2])
<1>0. thrown \in BOOLEAN
  BY DEF BuiltinsInv, B!TypeOK
<1>1. /\ n \in Nat \ {0} /\ loading \in Seq(Frame) /\ loading[n] \in Frame /\ B!Top = loading[n]
      /\ \A i \in 1 .. n : loading[i] \in Frame /\ Chained(loading, i, ran)
      /\ loading # <<>> /\ ~thrown /\ loading[n].at <= Len(B!Needs(top))
  BY TopFacts DEF B!Require
<1>2. /\ UNCHANGED <<flags, loads, asked, ran, names, answerOf>> /\ B!On' = B!On
  BY DEF B!Require, B!On
<1>3. top \in B!Embedded /\ need \in Library /\ Rank(need) \in Nat /\ Rank(need) < Rank(top)
  <2>1. top \in B!Embedded /\ loading[n].at \in 1 .. 6
    BY <1>1 DEF Frame
  <2>2. Len(B!Needs(top)) \in 0 .. 5
    BY <2>1, NeedFacts
  <2>3. loading[n].at \in 1 .. Len(B!Needs(top))
    BY <1>1, <2>1, <2>2
  <2> QED BY <2>1, <2>3, NeedFacts
<1>4. /\ need \in B!Embedded /\ need[1] \in {"koss", "internal"}
      /\ need[1] \in B!On => f = need
      /\ need[1] \notin B!On => f = B!Error
  BY <1>3, LibraryAnswers
<1>5. "koss" \in flags => f # B!Error
  BY <1>4, NoErrorIsAFile DEF B!On
<1>6. f \in ran \cup B!Begun => need \in ran
  <2>1. ran \subseteq B!Embedded
    BY DEF BuiltinsInv, B!TypeOK
  <2>2. CASE f \in ran
    BY <1>4, <2>1, <2>2, NoErrorIsAFile
  <2>3. CASE f \in B!Begun
    <3>1. PICK i \in 1 .. n : f = loading[i].file
      BY <2>3 DEF B!Begun
    <3>2. loading[i].file \in B!Embedded
      BY <1>1 DEF Frame
    <3>3. f = need
      BY <1>4, <3>1, <3>2, NoErrorIsAFile
    <3>4. CASE i = n
      <4>1. need = top
        BY <3>1, <3>3, <3>4
      <4> QED BY <1>3, <4>1
    <3>5. CASE i < n
      <4>1. Rank(top) < Rank(loading[i].file)
        BY <1>1, <3>5 DEF Chained
      <4> QED BY <1>3, <3>1, <3>3, <4>1, RankIsNat
    <3> QED BY <1>1, <3>4, <3>5
  <2> QED BY <2>2, <2>3
<1>7. /\ Chain(loading', ran') /\ loading' # <<>> /\ loading' \in Seq(Frame)
      /\ ~loads => Len(loading') = Len(loading)
      /\ thrown' \in BOOLEAN /\ ("koss" \in flags => ~thrown')
  <2>1. CASE ~loads \/ B!HasGlobal(need) \/ f \in ran \cup B!Begun \/ (f = B!Error /\ B!Spared(top, need))
    <3>1. loading' = [loading EXCEPT ![n].at = @ + 1] /\ thrown' = thrown
      BY <1>1, <2>1, NoErrorIsAFile DEF B!Require, B!Forth
    <3>2. Found(loading, n, need, ran)
      BY <1>1, <1>6, <2>1 DEF Found, B!HasGlobal
    <3>3. Chain(loading, ran)
      BY DEF BuiltinsInv
    <3>4. Chain(loading', ran)
      BY <1>1, <3>1, <3>2, <3>3, ChainForth
    <3>5. Len(loading') = n
      BY <1>1, <3>1
    <3>6. loading' # <<>> /\ loading' \in Seq(Frame)
      BY <1>1, <3>4, <3>5 DEF Chain
    <3> HIDE DEF n, top, need, f
    <3> QED BY <1>0, <1>1, <1>2, <3>1, <3>4, <3>5, <3>6
  <2>2. CASE ~(~loads \/ B!HasGlobal(need) \/ f \in ran \cup B!Begun) /\ f # B!Error
    <3>1. loading' = Append(loading, [file |-> f, at |-> 1]) /\ thrown' = thrown
      BY <1>1, <2>2 DEF B!Require
    <3>2. f = need /\ f[1] \in B!On
      BY <1>4, <2>2
    <3>3. Chain(loading, ran)
      BY DEF BuiltinsInv
    <3>4. Chain(loading', ran)
      BY <1>1, <3>1, <3>2, <3>3, ChainLonger
    <3>5. loading' # <<>> /\ loading' \in Seq(Frame)
      BY <1>1, <3>1, <3>4 DEF Chain
    <3> HIDE DEF n, top, need, f
    <3> QED BY <1>0, <1>1, <1>2, <2>2, <3>1, <3>4, <3>5
  <2>3. CASE ~(~loads \/ B!HasGlobal(need) \/ f \in ran \cup B!Begun) /\ f = B!Error /\ ~B!Spared(top, need)
    <3>1. loading' = loading /\ thrown' = TRUE
      BY <1>1, <2>3 DEF B!Require
    <3>2. Chain(loading', ran')
      BY <1>2, <3>1 DEF BuiltinsInv
    <3> QED BY <1>1, <1>5, <2>3, <3>1, <3>2
  <2> QED BY <2>1, <2>2, <2>3
<1>8. B!TypeOK'
  BY <1>2, <1>7 DEF B!TypeOK, BuiltinsInv, Frame
<1>9. B!LibraryIsWhole'
  BY <1>2, <1>7 DEF BuiltinsInv, B!LibraryIsWhole
<1>10. ~loads' => ran' = {} /\ Len(loading') <= 1 /\ (loading' # <<>> => asked'[1] = "import")
  BY <1>1, <1>2, <1>7 DEF BuiltinsInv
<1>11. Chain(loading, ran)'
  BY <1>2, <1>7, ChainStays
<1>12. NamesHaveFiles'
  BY <1>2, NamesStay DEF BuiltinsInv
<1> QED BY <1>7, <1>8, <1>9, <1>10, <1>11, <1>12 DEF BuiltinsInv

(* The file below the one on top goes on when that one is there, or when   *)
(* it can do without it.                                                   *)
LEMMA BackIsAChain ==
  ASSUME BuiltinsInv, loading # <<>>, NEW has, ran \subseteq has,
         Len(loading) > 1 =>
           \/ loading[Len(loading)].file \in has
           \/ LET under == loading[Len(loading) - 1] IN
              B!Spared(under.file, B!Needs(under.file)[under.at])
  PROVE  /\ Chain(B!Back, has) /\ B!Back \in Seq(Frame)
         /\ Len(B!Back) = Len(loading) - 1 /\ (Len(loading) > 1 => B!Back # <<>>)
<1> DEFINE n == Len(loading)
           s == SubSeq(loading, 1, n - 1)
<1>1. /\ n \in Nat \ {0} /\ loading \in Seq(Frame)
      /\ \A i \in 1 .. n : loading[i] \in Frame /\ Chained(loading, i, ran)
  BY TopFacts
<1>2. CASE n = 1
  <2>1. B!Back = <<>> /\ Len(<<>>) = 0 /\ <<>> \in Seq(Frame)
    BY <1>2 DEF B!Back
  <2>2. Chain(<<>>, has)
    BY <2>1 DEF Chain
  <2>3. Len(B!Back) = n - 1 /\ ~(n > 1)
    BY <1>2, <2>1
  <2> QED BY <2>1, <2>2, <2>3
<1>3. CASE n > 1
  <2>1. /\ s \in Seq(Frame) /\ Len(s) = n - 1
        /\ \A i \in 1 .. n - 1 : s[i] = loading[i]
    BY <1>1, <1>3
  <2>2. Chain(s, has)
    <3>1. Chain(loading, has)
      BY ChainGrown DEF BuiltinsInv
    <3> QED BY <3>1, ChainShortened
  <2>3. B!Back = [s EXCEPT ![n - 1].at = @ + 1]
    BY <1>3 DEF B!Back
  <2>4. /\ n - 1 \in 1 .. n - 1 /\ s # <<>> /\ s[n - 1] = loading[n - 1]
        /\ loading[n - 1].at <= Len(B!Needs(loading[n - 1].file))
        /\ loading[n].file = B!Needs(loading[n - 1].file)[loading[n - 1].at]
    <3>1. n - 1 \in 1 .. n - 1 /\ n - 1 \in 1 .. n /\ n - 1 < n /\ (n - 1) + 1 = n
      BY <1>1, <1>3
    <3>2. Chained(loading, n - 1, ran)
      BY <1>1, <3>1
    <3>3. /\ loading[n - 1].at <= Len(B!Needs(loading[n - 1].file))
          /\ loading[n].file = B!Needs(loading[n - 1].file)[loading[n - 1].at]
      BY <3>1, <3>2 DEF Chained
    <3>4. s[n - 1] = loading[n - 1]
      BY <2>1, <3>1
    <3>5. s # <<>>
      <4>1. s = <<>> => Len(s) = 0
        BY EmptySeq
      <4>2. n - 1 # 0
        BY <1>1, <1>3
      <4> HIDE DEF s, n
      <4> QED BY <2>1, <4>1, <4>2
    <3> QED BY <3>1, <3>3, <3>4, <3>5
  <2>5. Found(s, n - 1, B!Needs(s[n - 1].file)[s[n - 1].at], has)
    BY <1>3, <2>4 DEF Found
  <2> HIDE DEF s
  <2>6. Chain([s EXCEPT ![Len(s)].at = @ + 1], has)
    BY <2>1, <2>2, <2>4, <2>5, ChainForth
  <2>7. Chain(B!Back, has) /\ Len(B!Back) = n - 1
    BY <2>1, <2>3, <2>6
  <2>8. B!Back # <<>> /\ B!Back \in Seq(Frame)
    BY <1>1, <1>3, <2>7 DEF Chain
  <2> QED BY <2>7, <2>8
<1>4. n = 1 \/ n > 1
  <2>1. \A m \in Nat \ {0} : m = 1 \/ m > 1
    OBVIOUS
  <2>2. n \in Nat \ {0}
    BY <1>1
  <2> QED BY <2>1, <2>2, Zenon
<1> QED BY <1>2, <1>3, <1>4

LEMMA FinishKeeps ==
  ASSUME BuiltinsInv, B!Finish
  PROVE  BuiltinsInv'
<1> DEFINE n == Len(loading)
           top == loading[n].file
<1>1. /\ n \in Nat \ {0} /\ loading \in Seq(Frame) /\ loading[n] \in Frame /\ B!Top = loading[n]
      /\ Chained(loading, n, ran) /\ loading # <<>> /\ ~thrown
      /\ loading[n].at > Len(B!Needs(top)) /\ loading[n].at \in 1 .. 6 /\ top \in B!Embedded
  BY TopFacts DEF B!Finish, Frame
<1>2. /\ UNCHANGED <<flags, loads, asked, thrown>> /\ B!On' = B!On
      /\ loading' = B!Back
      /\ ran' = IF n > 1 \/ asked[1] = "koss" THEN ran \cup {top} ELSE ran
      /\ answerOf' = IF n = 1 THEN top ELSE answerOf
      /\ names' = IF n = 1 /\ asked[1] \in {"bare", "path"} THEN names \cup {asked} ELSE names
  BY <1>1 DEF B!Finish, B!On
<1>3. ran \subseteq ran' /\ (n > 1 => top \in ran')
  BY <1>2
<1>4. Chain(loading', ran') /\ loading' \in Seq(Frame) /\ Len(loading') = n - 1
  BY <1>1, <1>2, <1>3, BackIsAChain
<1>5. /\ \A k \in 1 .. Len(B!Needs(top)) : Found(loading, n, B!Needs(top)[k], ran)
      /\ n > 1 \/ asked[1] # "path" => top[1] \in B!On
  <2>1. Len(B!Needs(top)) \in 0 .. 5
    BY <1>1, NeedFacts
  <2>2. loading[n].at = Len(B!Needs(top)) + 1
    BY <1>1, <2>1 DEF Chained
  <2> QED BY <1>1, <2>1, <2>2 DEF Chained
<1>6. n > 1 \/ asked[1] = "koss" => loads /\ top[1] \in B!On /\ B!HardNeeds(top) \subseteq ran
  <2> SUFFICES ASSUME n > 1 \/ asked[1] = "koss"
               PROVE  loads /\ top[1] \in B!On /\ B!HardNeeds(top) \subseteq ran
    OBVIOUS
  <2>1. loads
    BY <1>1 DEF BuiltinsInv
  <2>2. ~(n = 1 /\ asked[1] = "import")
    BY <1>1
  <2> QED BY <1>5, <2>1, <2>2 DEF B!HardNeeds, Found
<1>7. n = 1 /\ loads =>
        /\ asked[1] # "path" => top[1] \in B!On
        /\ B!HardNeeds(top)
             \ (IF asked[1] = "import" /\ top \in B!TakesGlobal THEN {B!Koss("buffer")} ELSE {})
             \subseteq ran
  BY <1>5 DEF B!HardNeeds, Found
<1>8. B!LibraryIsWhole'
  <2>1. \A g \in ran' : g[1] \in B!On' /\ B!HardNeeds(g) \subseteq ran'
    BY <1>2, <1>3, <1>6 DEF BuiltinsInv, B!LibraryIsWhole
  <2>2. answerOf' \in B!Embedded /\ loads' =>
          /\ asked'[1] # "path" => answerOf'[1] \in B!On'
          /\ B!HardNeeds(answerOf')
               \ (IF asked'[1] = "import" /\ answerOf' \in B!TakesGlobal THEN {B!Koss("buffer")} ELSE {})
               \subseteq ran'
    <3>1. CASE n = 1
      BY <1>2, <1>3, <1>7, <3>1
    <3>2. CASE n # 1
      BY <1>2, <1>3, <3>2 DEF BuiltinsInv, B!LibraryIsWhole
    <3> QED BY <3>1, <3>2
  <2>3. "koss" \in flags' =>
          /\ ~thrown'
          /\ answerOf' = B!Error => asked'[1] \in {"koss", "import"}
                                  /\ ~(asked'[2] \in B!On' /\ asked'[3] \in B!Names(asked'[2]))
    <3>1. CASE n = 1
      BY <1>1, <1>2, <3>1, NoErrorIsAFile
    <3>2. CASE n # 1
      BY <1>1, <1>2, <3>2 DEF BuiltinsInv, B!LibraryIsWhole
    <3> QED BY <3>1, <3>2
  <2> QED BY <2>1, <2>2, <2>3 DEF B!LibraryIsWhole
<1>9. B!TypeOK'
  <2>1. asked[1] \in {"bare", "path"} => asked \in B!Asked
    BY DEF BuiltinsInv, B!TypeOK, B!None
  <2>2. names' \subseteq B!Asked
    BY <1>2, <2>1 DEF BuiltinsInv, B!TypeOK
  <2> QED BY <1>1, <1>2, <1>4, <2>2 DEF B!TypeOK, BuiltinsInv, Frame
<1>10. ~loads' => ran' = {} /\ Len(loading') <= 1 /\ (loading' # <<>> => asked'[1] = "import")
  BY <1>1, <1>2, <1>4, <1>6 DEF BuiltinsInv
<1>11. Chain(loading, ran)'
  BY <1>2, <1>4, ChainStays
<1>12. NamesHaveFiles'
  <2>1. CASE n = 1 /\ asked[1] \in {"bare", "path"}
    <3>1. top = B!Found(asked)
      BY <1>1, <2>1 DEF Chained
    <3>2. loads
      BY <1>1, <2>1 DEF BuiltinsInv
    <3>3. B!HardNeeds(top) \subseteq ran
      BY <1>7, <2>1, <3>2
    <3>4. \A a \in names' : a \in names \/ a = asked
      BY <1>2, <2>1
    <3>5. \A a \in names' : a[1] \in {"bare", "path"}
      BY <2>1, <3>4 DEF BuiltinsInv, NamesHaveFiles
    <3>6. \A a \in names' : B!Found(a) \in B!Embedded => B!HardNeeds(B!Found(a)) \subseteq ran'
      BY <1>3, <3>1, <3>3, <3>4 DEF BuiltinsInv, NamesHaveFiles
    <3>7. \A a : B!Found(a)' = B!Found(a)
      BY <1>2, FoundStays
    <3> QED BY <3>5, <3>6, <3>7 DEF NamesHaveFiles
  <2>2. CASE ~(n = 1 /\ asked[1] \in {"bare", "path"})
    BY <1>2, <1>3, <2>2, NamesStay DEF BuiltinsInv
  <2> QED BY <2>1, <2>2
<1> QED BY <1>1, <1>2, <1>8, <1>9, <1>10, <1>11, <1>12 DEF BuiltinsInv

LEMMA FailKeeps ==
  ASSUME BuiltinsInv, B!Fail
  PROVE  BuiltinsInv'
<1> DEFINE n == Len(loading)
           under == loading[n - 1]
           caught == n > 1 /\ B!Spared(under.file, B!Needs(under.file)[under.at])
<1>1. /\ n \in Nat \ {0} /\ loading \in Seq(Frame) /\ loading # <<>> /\ thrown
      /\ "koss" \notin flags
  BY TopFacts DEF B!Fail, BuiltinsInv, B!LibraryIsWhole
<1>2. /\ UNCHANGED <<flags, loads, asked, ran, names>> /\ B!On' = B!On
      /\ thrown' = (n > 1 /\ ~caught)
      /\ loading' = IF caught THEN B!Back ELSE SubSeq(loading, 1, n - 1)
      /\ answerOf' = IF n = 1 THEN B!Error ELSE answerOf
  BY DEF B!Fail, B!On
<1>3. /\ Chain(loading', ran') /\ loading' \in Seq(Frame) /\ Len(loading') = n - 1
  <2>1. CASE caught
    BY <1>1, <1>2, <2>1, BackIsAChain
  <2>2. CASE ~caught
    <3>1. Chain(loading, ran)
      BY DEF BuiltinsInv
    <3>2. loading' = SubSeq(loading, 1, n - 1)
      BY <1>2, <2>2
    <3>3. Chain(loading', ran)
      BY <1>1, <3>1, <3>2, ChainShortened
    <3>4. Len(loading') = n - 1
      <4>1. \A i \in 1 .. n - 1 : loading[i] \in Frame
        BY <1>1
      <4>2. Len(SubSeq(loading, 1, n - 1)) = IF 1 <= n - 1 THEN (n - 1) - 1 + 1 ELSE 0
        <5>1. n \in Nat
          BY <1>1
        <5> HIDE DEF n
        <5>2. 1 \in Int /\ n - 1 \in Int
          BY <5>1
        <5> QED BY <4>1, <5>2, SubSeqProperties
      <4> HIDE DEF n
      <4> QED BY <1>1, <3>2, <4>2
    <3> QED BY <1>2, <3>3, <3>4 DEF Chain
  <2> QED BY <2>1, <2>2
<1>4. thrown' => loading' # <<>>
  <2> SUFFICES ASSUME thrown', loading' = <<>> PROVE FALSE
    OBVIOUS
  <2>1. n > 1
    BY <1>2
  <2>2. Len(loading') = 0
    BY EmptySeq
  <2> HIDE DEF n
  <2> QED BY <1>1, <1>3, <2>1, <2>2
<1>5. B!TypeOK'
  BY <1>2, <1>3 DEF B!TypeOK, BuiltinsInv, Frame
<1>6. B!LibraryIsWhole'
  <2>1. \A g \in ran' : g[1] \in B!On' /\ B!HardNeeds(g) \subseteq ran'
    BY <1>2 DEF BuiltinsInv, B!LibraryIsWhole
  <2>2. answerOf' \in B!Embedded => answerOf' = answerOf
    BY <1>2, NoErrorIsAFile
  <2> QED BY <1>1, <1>2, <2>1, <2>2 DEF BuiltinsInv, B!LibraryIsWhole
<1>7. ~loads' => ran' = {} /\ Len(loading') <= 1 /\ (loading' # <<>> => asked'[1] = "import")
  BY <1>1, <1>2, <1>3 DEF BuiltinsInv
<1>8. Chain(loading, ran)'
  BY <1>2, <1>3, ChainStays
<1>9. NamesHaveFiles'
  BY <1>2, NamesStay DEF BuiltinsInv
<1> QED BY <1>4, <1>5, <1>6, <1>7, <1>8, <1>9 DEF BuiltinsInv

LEMMA BuiltinsStep ==
  ASSUME BuiltinsInv, B!Next
  PROVE  BuiltinsInv'
  BY AskKeeps, RequireKeeps, FinishKeeps, FailKeeps DEF B!Next

LEMMA BuiltinsStay ==
  ASSUME BuiltinsInv, UNCHANGED builtinVars
  PROVE  BuiltinsInv'
<1>1. UNCHANGED <<flags, loads, asked, loading, thrown, ran, names, answerOf>> /\ B!On' = B!On
  BY DEF builtinVars, B!On
<1>2. Chain(loading, ran)'
  BY <1>1, FoundStays DEF BuiltinsInv, Chain, Chained, Found
<1>3. B!TypeOK' /\ B!LibraryIsWhole'
  BY <1>1 DEF BuiltinsInv, B!TypeOK, B!LibraryIsWhole
<1>4. NamesHaveFiles'
  BY <1>1, NamesStay DEF BuiltinsInv
<1> QED BY <1>1, <1>2, <1>3, <1>4 DEF BuiltinsInv

(* No module is half loaded and no flag is got round while modules are     *)
(* loaded, whatever the flags and whatever is asked for, any number of     *)
(* times.                                                                  *)
THEOREM EveryNameIsAnswered == B!Spec => []B!LibraryIsWhole
<1>1. BuiltinsInv /\ [B!Next]_B!vars => BuiltinsInv'
  BY BuiltinsStep, BuiltinsStay DEF B!vars, builtinVars
<1>2. BuiltinsInv => B!LibraryIsWhole
  BY DEF BuiltinsInv
<1> QED BY BuiltinsInit, <1>1, <1>2, PTL DEF B!Spec

-----------------------------------------------------------------------------
(* Ports and broadcast channels. *)
(* A sequence without one of its places. *)
LEMMA Removed ==
  ASSUME NEW S, NEW q \in Seq(S), NEW i \in 1 .. Len(q)
  PROVE  LET r == SubSeq(q, 1, i - 1) \o SubSeq(q, i + 1, Len(q)) IN
         /\ r \in Seq(S) /\ Len(r) = Len(q) - 1
         /\ \A k \in 1 .. Len(q) - 1 : r[k] = IF k < i THEN q[k] ELSE q[k + 1]
<1> DEFINE a == SubSeq(q, 1, i - 1)
           b == SubSeq(q, i + 1, Len(q))
<1>1. Len(q) \in Nat /\ i \in Nat /\ 1 <= i /\ i <= Len(q)
  OBVIOUS
<1>2. a \in Seq(S) /\ Len(a) = i - 1 /\ \A k \in 1 .. i - 1 : a[k] = q[k]
  <2>1. i - 1 \in Nat /\ i - 1 <= Len(q)
    BY <1>1
  <2> QED BY <2>1
<1>3. b \in Seq(S) /\ Len(b) = Len(q) - i /\ \A k \in 1 .. Len(q) - i : b[k] = q[k + i]
  <2>1. CASE i = Len(q)
    BY <1>1, <2>1
  <2>2. CASE i < Len(q)
    <3>1. /\ b \in Seq(S) /\ Len(b) = Len(q) - (i + 1) + 1
          /\ \A k \in 1 .. Len(q) - (i + 1) + 1 : b[k] = q[i + 1 + k - 1]
      BY <1>1, <2>2
    <3> HIDE DEF b
    <3>2. Len(q) - (i + 1) + 1 = Len(q) - i /\ \A k \in Nat : i + 1 + k - 1 = k + i
      BY <1>1
    <3> QED BY <1>1, <3>1, <3>2
  <2> QED BY <1>1, <2>1, <2>2
<1> HIDE DEF a, b
<1>4. /\ a \o b \in Seq(S) /\ Len(a \o b) = Len(a) + Len(b)
      /\ \A k \in 1 .. Len(a) + Len(b) : (a \o b)[k] = IF k <= Len(a) THEN a[k] ELSE b[k - Len(a)]
  BY <1>2, <1>3, ConcatProperties
<1>5. ASSUME NEW k \in 1 .. Len(q) - 1 PROVE (a \o b)[k] = IF k < i THEN q[k] ELSE q[k + 1]
  <2>1. k \in 1 .. Len(a) + Len(b)
    BY <1>1, <1>2, <1>3
  <2>2. CASE k < i
    <3>1. k \in 1 .. i - 1 /\ k <= Len(a)
      BY <1>1, <1>2, <2>2
    <3> QED BY <1>2, <1>4, <2>1, <2>2, <3>1
  <2>3. CASE ~(k < i)
    <3>1. k - (i - 1) \in 1 .. Len(q) - i /\ ~(k <= Len(a)) /\ k - (i - 1) + i = k + 1
      BY <1>1, <1>2, <2>3
    <3> QED BY <1>2, <1>3, <1>4, <2>1, <2>3, <3>1
  <2> QED BY <2>2, <2>3
<1>6. Len(a \o b) = Len(q) - 1
  BY <1>1, <1>2, <1>3, <1>4
<1> QED BY <1>4, <1>5, <1>6 DEF a, b

(* What is heard, and what may be heard of oneself. *)
Heard(e, n) == \E i \in 1 .. Len(got[e]) : got[e][i].n = n
Excused(e, n) ==
  M!Sent(e, n) => \E c \in Channel :
    e = <<c, "onmessage">> /\ <<<<c, "listeners">>, n>> \in missed

PostsFit == posts \in Seq([from : M!End, value : Value]) /\ Len(posts) <= MaxPosts

(* Deliveries are set in the order of the messages: to the other port, or  *)
(* for the channel that posted.                                            *)
TimersFit ==
  /\ timers \in Seq([n : 1 .. MaxPosts, to : M!End])
  /\ \A i \in 1 .. Len(timers) :
       /\ timers[i].n \in 1 .. Len(posts)
       /\ IF timers[i].to \in Port
          THEN posts[timers[i].n].from \in Port \ {timers[i].to}
          ELSE posts[timers[i].n].from = timers[i].to
  /\ \A i, j \in 1 .. Len(timers) : i < j => timers[i].n < timers[j].n

Phase == M!Route \cup {"next"}
WalkFits ==
  \/ walk = M!Idle
  \/ /\ walk \in [n : 1 .. Len(posts), at : Nat, phase : Phase]
     /\ walk.phase = "listeners" => walk.at # 0
     /\ posts[walk.n].from \in Channel
     /\ \A i \in 1 .. Len(timers) : walk.n < timers[i].n

(* The list has no channel that is closed, and each that it has once.      *)
OpenFits ==
  /\ open \in Seq(Channel) /\ OnceEach(open)
  /\ \A c \in Channel : Has(open, c) => c \notin closed

(* Of the broadcast that is delivered, who is closed or behind the walk.   *)
Visited(e) ==
  \E c \in Channel, r \in M!Route :
    /\ e = <<c, r>>
    /\ c \in closed \/ \E k \in 1 .. Len(open) : k <= M!Behind(r) /\ open[k] = c

(* What was heard came before what is on its way; of the broadcast that is *)
(* delivered, by ears already visited.                                     *)
Fit(e, g) ==
  /\ g.n \in 1 .. Len(posts) /\ g.value = posts[g.n].value
  /\ Excused(e, g.n)
  /\ \A j \in 1 .. Len(timers) : g.n < timers[j].n
  /\ walk # M!Idle => g.n <= walk.n /\ (g.n = walk.n => Visited(e))

GotFits ==
  /\ got \in [M!Ear -> Seq(M!Message)]
  /\ \A e \in M!Ear :
       /\ \A i, j \in 1 .. Len(got[e]) : i < j => got[e][i].n < got[e][j].n
       /\ \A i \in 1 .. Len(got[e]) : Fit(e, got[e][i])

(* Of the broadcast that is delivered: who is behind the walk has heard    *)
(* it, and a sender whose onmessage is next was passed over before.        *)
VisitedHeard ==
  walk # M!Idle => \A r \in M!Route : \A k \in 1 .. Len(open) : k <= M!Behind(r) =>
    \/ open[k] = posts[walk.n].from
    \/ <<<<open[k], r>>, walk.n>> \in missed
    \/ Heard(<<open[k], r>>, walk.n)
SenderMovedUp ==
  walk.phase = "listeners" /\ walk.at <= Len(open) /\ open[walk.at] = posts[walk.n].from =>
    <<<<open[walk.at], "listeners">>, walk.n>> \in missed

Arrived(n) ==
  \A e \in M!OtherEars(posts[n].from) : e \in M!There => <<e, n>> \in missed \/ Heard(e, n)
AllArrive == \A n \in 1 .. Len(posts) : M!OnTheWay(n) \/ Arrived(n)

ChannelsInv ==
  /\ held \in Value /\ closed \subseteq M!End
  /\ other \in [Port -> Port \cup {Nobody}] /\ \A p \in Port : other[p] # p
  /\ PostsFit /\ TimersFit /\ WalkFits /\ OpenFits /\ GotFits
  /\ VisitedHeard /\ SenderMovedUp /\ AllArrive

LEMMA ChannelsInit == M!Init => ChannelsInv
<1> SUFFICES ASSUME M!Init PROVE ChannelsInv
  OBVIOUS
<1> USE DEF M!Init
<1>1. held \in Value /\ closed \subseteq M!End
      /\ other \in [Port -> Port \cup {Nobody}] /\ \A p \in Port : other[p] # p
  OBVIOUS
<1>2. PostsFit /\ TimersFit /\ WalkFits
  BY ChannelsAssumption DEF PostsFit, TimersFit, WalkFits
<1>3. OpenFits
  BY EmptySeq DEF OpenFits, OnceEach, Has
<1>4. GotFits /\ VisitedHeard /\ AllArrive
  BY DEF GotFits, VisitedHeard, AllArrive
<1>5. SenderMovedUp
  BY DEF SenderMovedUp, M!Idle
<1> QED BY <1>1, <1>2, <1>3, <1>4, <1>5 DEF ChannelsInv

LEMMA ListFacts ==
  ASSUME ChannelsInv
  PROVE  /\ open \in Seq(Channel) /\ OnceEach(open) /\ Len(open) \in Nat
         /\ \A c \in Channel : Has(open, c) => c \notin closed
         /\ \A c : Has(open, c) <=> c \in M!Range(open)
         /\ DOMAIN posts = 1 .. Len(posts) /\ Len(posts) \in Nat
  BY DEF ChannelsInv, OpenFits, PostsFit, Has, M!Range

(* A broadcast that is delivered, and the idle walk. *)
LEMMA WalkFacts ==
  ASSUME ChannelsInv
  PROVE  /\ walk # M!Idle => /\ walk.n \in 1 .. Len(posts) /\ posts[walk.n].from \in Channel
                             /\ walk.at \in Nat /\ walk.phase \in Phase
                             /\ walk = [n |-> walk.n, at |-> walk.at, phase |-> walk.phase]
                             /\ walk.phase = "listeners" => walk.at # 0
                             /\ \A i \in 1 .. Len(timers) : walk.n < timers[i].n
         /\ walk = M!Idle => walk.n = 0 /\ walk.at = 0 /\ walk.phase = "next"
         /\ walk.at \in Nat
         /\ M!Behind("listeners") = walk.at
         /\ M!Behind("onmessage") = IF walk.phase = "listeners" THEN walk.at - 1 ELSE walk.at
         /\ \A r \in M!Route : M!Behind(r) \in Nat /\ (walk = M!Idle => M!Behind(r) = 0)
<1>1. CASE walk = M!Idle
  BY <1>1 DEF M!Idle, M!Behind, M!Route
<1>2. CASE walk # M!Idle
  <2>1. /\ walk \in [n : 1 .. Len(posts), at : Nat, phase : Phase]
        /\ walk.phase = "listeners" => walk.at # 0
        /\ posts[walk.n].from \in Channel
        /\ \A i \in 1 .. Len(timers) : walk.n < timers[i].n
    BY <1>2 DEF ChannelsInv, WalkFits
  <2>2. walk.n \in 1 .. Len(posts) /\ walk.at \in Nat /\ walk.phase \in Phase
        /\ walk = [n |-> walk.n, at |-> walk.at, phase |-> walk.phase]
    BY <2>1
  <2> QED BY <1>2, <2>1, <2>2 DEF M!Behind, M!Route
<1> QED BY <1>1, <1>2

(* What is heard stays heard, and what nobody has to hear is no matter.    *)
LEMMA ArrivedStays ==
  ASSUME ChannelsInv, NEW n \in 1 .. Len(posts), Arrived(n),
         posts'[n] = posts[n], missed \subseteq missed',
         \A e \in M!Ear : e \in M!There' => e \in M!There \/ <<e, n>> \in missed',
         \A e \in M!Ear : Heard(e, n) => Heard(e, n)'
  PROVE  Arrived(n)'
<1>1. M!OtherEars(posts'[n].from) = M!OtherEars(posts[n].from)
      /\ M!OtherEars(posts[n].from) \subseteq M!Ear
  BY DEF M!OtherEars, M!Ear
<1> QED BY <1>1 DEF Arrived

LEMMA GotStays ==
  ASSUME ChannelsInv, got' = got, \A e \in M!Ear : \A i \in 1 .. Len(got[e]) : Fit(e, got[e][i])'
  PROVE  GotFits' /\ \A e \in M!Ear, n \in Nat : Heard(e, n) => Heard(e, n)'
  BY DEF ChannelsInv, GotFits, Heard

(* A message is heard: the last of those the receiver heard.               *)
LEMMA GiveFits ==
  ASSUME ChannelsInv, NEW e \in M!Ear, NEW n \in 1 .. Len(posts), M!Give(e, n), posts' = posts,
         \A i \in 1 .. Len(got[e]) : got[e][i].n < n,
         \A a \in M!Ear, g \in M!Message : Fit(a, g) => Fit(a, g)',
         Fit(e, [n |-> n, value |-> posts[n].value])'
  PROVE  GotFits' /\ Heard(e, n)' /\ \A a \in M!Ear, m \in Nat : Heard(a, m) => Heard(a, m)'
<1> DEFINE msg == [n |-> n, value |-> posts[n].value]
<1>1. got \in [M!Ear -> Seq(M!Message)] /\ got[e] \in Seq(M!Message)
  BY DEF ChannelsInv, GotFits
<1>2. msg \in M!Message
  <2>1. posts[n].value \in Value /\ n \in 1 .. MaxPosts
    <3>1. PICK P : P = [from : M!End, value : Value] /\ posts \in Seq(P) /\ Len(posts) <= MaxPosts
      BY DEF ChannelsInv, PostsFit
    <3>2. posts \in Seq(P)
      BY <3>1
    <3>3. posts[n] \in P /\ Len(posts) \in Nat
      BY <3>2
    <3>4. n \in 1 .. MaxPosts
      BY <3>1, <3>3, ChannelsAssumption
    <3> QED BY <3>1, <3>3, <3>4
  <2> QED BY <2>1 DEF M!Message
<1>3. got' = [got EXCEPT ![e] = Append(got[e], msg)]
  BY DEF M!Give, M!Clone
<1>m. msg.n = n /\ msg' = msg /\ Fit(e, msg)'
  OBVIOUS
<1> HIDE DEF msg
<1>4. /\ Append(got[e], msg) \in Seq(M!Message) /\ Len(Append(got[e], msg)) = Len(got[e]) + 1
      /\ Append(got[e], msg)[Len(got[e]) + 1] = msg /\ Len(got[e]) \in Nat
      /\ \A i \in 1 .. Len(got[e]) : Append(got[e], msg)[i] = got[e][i]
  BY <1>1, <1>2
<1>5. got' \in [M!Ear -> Seq(M!Message)]
  BY <1>1, <1>3, <1>4
<1>6. got'[e] = Append(got[e], msg) /\ \A a \in M!Ear : a # e => got'[a] = got[a]
  BY <1>1, <1>3
<1>7. ASSUME NEW a \in M!Ear
      PROVE  /\ Len(got'[a]) = IF a = e THEN Len(got[e]) + 1 ELSE Len(got[a])
             /\ Len(got[a]) \in Nat
             /\ \A i \in 1 .. Len(got[a]) : got'[a][i] = got[a][i] /\ got[a][i] \in M!Message
  <2>1. got[a] \in Seq(M!Message)
    BY <1>1
  <2>2. Len(got[a]) \in Nat /\ \A i \in 1 .. Len(got[a]) : got[a][i] \in M!Message
    BY <2>1
  <2> QED BY <1>4, <1>6, <2>2
<1>8. ASSUME NEW a \in M!Ear, NEW i \in 1 .. Len(got'[a]), NEW j \in 1 .. Len(got'[a]), i < j
      PROVE  got'[a][i].n < got'[a][j].n
  <2>1. \A k, m \in 1 .. Len(got[a]) : k < m => got[a][k].n < got[a][m].n
    BY DEF ChannelsInv, GotFits
  <2>2. CASE a # e
    BY <1>6, <1>8, <2>1, <2>2
  <2>3. CASE a = e
    <3>1. i \in 1 .. Len(got[e]) /\ (j \in 1 .. Len(got[e]) \/ j = Len(got[e]) + 1)
      BY <1>4, <1>7, <1>8, <2>3
    <3>2. CASE j \in 1 .. Len(got[e])
      BY <1>8, <1>4, <1>6, <2>1, <2>3, <3>1, <3>2
    <3>3. CASE j = Len(got[e]) + 1
      <4>1. got'[e][j].n = n /\ got'[e][i] = got[e][i]
        BY <1>m, <1>4, <1>6, <3>1, <3>3
      <4> QED BY <2>3, <3>1, <4>1
    <3> QED BY <3>1, <3>2, <3>3
  <2> QED BY <2>2, <2>3
<1>9. ASSUME NEW a \in M!Ear, NEW m \in Nat, Heard(a, m) PROVE Heard(a, m)'
  <2>1. PICK i \in 1 .. Len(got[a]) : got[a][i].n = m
    BY <1>9 DEF Heard
  <2>2. i \in 1 .. Len(got'[a]) /\ got'[a][i] = got[a][i]
    BY <1>7, <2>1
  <2> QED BY <2>1, <2>2 DEF Heard
<1>10. Heard(e, n)'
  <2>1. Len(got[e]) + 1 \in 1 .. Len(got'[e]) /\ got'[e][Len(got[e]) + 1] = msg
    BY <1>4, <1>6
  <2> QED BY <1>m, <2>1 DEF Heard
<1>11. ASSUME NEW a \in M!Ear, NEW i \in 1 .. Len(got'[a]) PROVE Fit(a, got[a][i])'
  <2>1. CASE i \in 1 .. Len(got[a])
    <3>1. got'[a][i] = got[a][i] /\ got[a][i] \in M!Message /\ Fit(a, got[a][i])
      BY <1>7, <2>1 DEF ChannelsInv, GotFits
    <3>2. Fit(a, got[a][i])'
      BY <3>1
    <3> QED BY <3>1, <3>2 DEF Fit
  <2>2. CASE i \notin 1 .. Len(got[a])
    <3>1. a = e /\ i = Len(got[e]) + 1
      BY <1>7, <1>11, <2>2
    <3>2. got'[a][i] = msg
      BY <1>4, <1>6, <3>1
    <3> QED BY <1>m, <3>1, <3>2 DEF Fit
  <2> QED BY <2>1, <2>2
<1> QED BY <1>5, <1>8, <1>9, <1>10, <1>11 DEF GotFits

(* A step that delivers nothing and starts no walk. *)
LEMMA FitStays ==
  ASSUME ChannelsInv, NEW e \in M!Ear, NEW g, Fit(e, g), UNCHANGED <<posts, timers>>,
         missed \subseteq missed',
         walk' # M!Idle => walk # M!Idle /\ walk'.n = walk.n /\ (Visited(e) => Visited(e)')
  PROVE  Fit(e, g)'
<1>1. Excused(e, g.n) => Excused(e, g.n)'
  BY DEF Excused, M!Sent
<1> QED BY <1>1 DEF Fit

LEMMA AllStay ==
  ASSUME ChannelsInv, UNCHANGED <<posts, timers>>, missed \subseteq missed', walk'.n = walk.n,
         \A e \in M!Ear, n \in Nat : Heard(e, n) => Heard(e, n)',
         \A e \in M!Ear, n \in 1 .. Len(posts) :
           ~M!OnTheWay(n) /\ e \in M!There' => e \in M!There \/ <<e, n>> \in missed'
  PROVE  AllArrive'
<1>1. ASSUME NEW n \in 1 .. Len(posts), Arrived(n), ~M!OnTheWay(n) PROVE Arrived(n)'
  <2>1. n \in Nat
    BY ListFacts
  <2> QED BY <1>1, <2>1, ArrivedStays
<1> QED BY <1>1 DEF ChannelsInv, AllArrive, M!OnTheWay

(* The sender changes its object. *)
LEMMA ChangeStep ==
  ASSUME ChannelsInv, NEW v \in Value, M!Change(v) PROVE ChannelsInv'
<1>1. held' \in Value /\ UNCHANGED <<other, open, closed, timers, walk, posts, got, missed>>
  BY DEF M!Change
<1>2. PostsFit' /\ TimersFit' /\ WalkFits' /\ OpenFits'
  BY <1>1 DEF ChannelsInv, PostsFit, TimersFit, WalkFits, OpenFits
<1>3. \A e \in M!Ear : Visited(e) => Visited(e)'
  BY <1>1 DEF Visited, M!Behind
<1>4. GotFits' /\ \A e \in M!Ear, n \in Nat : Heard(e, n) => Heard(e, n)'
  <2>1. \A e \in M!Ear : \A i \in 1 .. Len(got[e]) : Fit(e, got[e][i])'
    BY <1>1, <1>3, FitStays DEF ChannelsInv, GotFits
  <2> QED BY <1>1, <2>1, GotStays
<1>5. VisitedHeard' /\ SenderMovedUp'
  BY <1>1 DEF ChannelsInv, VisitedHeard, SenderMovedUp, Heard, M!Behind
<1>6. AllArrive'
  BY <1>1, <1>4, AllStay DEF M!There
<1> QED BY <1>1, <1>2, <1>4, <1>5, <1>6 DEF ChannelsInv

(* A message is posted, to the other port or by a channel. *)
LEMMA PostStep ==
  ASSUME ChannelsInv, NEW from \in M!End, NEW to \in M!End, M!Post(from, to),
         IF to \in Port THEN from \in Port \ {to} ELSE from = to
  PROVE  ChannelsInv'
<1> DEFINE message == [from |-> from, value |-> held]
           delivery == [n |-> Len(posts) + 1, to |-> to]
           D == [n : 1 .. MaxPosts, to : M!End]
           P == [from : M!End, value : Value]
<1>1. /\ Len(posts) < MaxPosts /\ posts' = Append(posts, message)
      /\ timers' = Append(timers, delivery)
      /\ UNCHANGED <<held, other, open, closed, walk, got, missed>>
  BY DEF M!Post
<1>2. /\ posts \in Seq(P) /\ timers \in Seq(D) /\ message \in P
      /\ Len(posts) \in Nat /\ Len(timers) \in Nat /\ MaxPosts \in Nat
  BY ChannelsAssumption DEF ChannelsInv, PostsFit, TimersFit
<1>3. delivery \in D
  BY <1>1, <1>2
<1>4. /\ posts' \in Seq(P) /\ Len(posts') = Len(posts) + 1 /\ posts'[Len(posts) + 1] = message
      /\ \A n \in 1 .. Len(posts) : posts'[n] = posts[n]
  <2> HIDE DEF message, P
  <2> QED BY <1>1, <1>2
<1>5. /\ timers' \in Seq(D) /\ Len(timers') = Len(timers) + 1
      /\ timers'[Len(timers) + 1] = delivery
      /\ \A i \in 1 .. Len(timers) : timers'[i] = timers[i]
  <2> HIDE DEF delivery, D
  <2> QED BY <1>1, <1>2, <1>3
<1>6. /\ \A n \in 1 .. Len(posts') : n \in 1 .. Len(posts) \/ n = Len(posts) + 1
      /\ \A i \in 1 .. Len(timers') : i \in 1 .. Len(timers) \/ i = Len(timers) + 1
  BY <1>2, <1>4, <1>5
<1>7. PostsFit'
  BY <1>1, <1>2, <1>4 DEF PostsFit
<1>8. TimersFit'
  <2>1. ASSUME NEW i \in 1 .. Len(timers')
        PROVE  /\ timers'[i].n \in 1 .. Len(posts')
               /\ IF timers'[i].to \in Port
                  THEN posts'[timers'[i].n].from \in Port \ {timers'[i].to}
                  ELSE posts'[timers'[i].n].from = timers'[i].to
    <3>1. CASE i \in 1 .. Len(timers)
      <4>1. /\ timers[i].n \in 1 .. Len(posts)
            /\ IF timers[i].to \in Port
               THEN posts[timers[i].n].from \in Port \ {timers[i].to}
               ELSE posts[timers[i].n].from = timers[i].to
        BY <3>1 DEF ChannelsInv, TimersFit
      <4>2. posts'[timers[i].n] = posts[timers[i].n] /\ timers[i].n \in 1 .. Len(posts')
        BY <1>2, <1>4, <4>1
      <4>3. timers'[i] = timers[i]
        BY <1>5, <3>1
      <4> QED BY <4>1, <4>2, <4>3
    <3>2. CASE i = Len(timers) + 1
      BY <1>2, <1>4, <1>5, <3>2
    <3> QED BY <1>6, <2>1, <3>1, <3>2
  <2>2. ASSUME NEW i \in 1 .. Len(timers'), NEW j \in 1 .. Len(timers'), i < j
        PROVE  timers'[i].n < timers'[j].n
    <3>1. i \in 1 .. Len(timers)
      BY <1>2, <1>5, <2>2
    <3>2. timers[i].n \in 1 .. Len(posts)
      BY <3>1 DEF ChannelsInv, TimersFit
    <3>3. CASE j \in 1 .. Len(timers)
      BY <1>5, <2>2, <3>1, <3>3 DEF ChannelsInv, TimersFit
    <3>4. CASE j = Len(timers) + 1
      BY <1>2, <1>5, <3>1, <3>2, <3>4
    <3> QED BY <1>6, <3>3, <3>4
  <2> QED BY <1>5, <2>1, <2>2 DEF TimersFit
<1>9. WalkFits'
  <2>1. CASE walk = M!Idle
    BY <1>1, <2>1 DEF WalkFits
  <2>2. CASE walk # M!Idle
    <3>1. /\ walk \in [n : 1 .. Len(posts), at : Nat, phase : Phase]
          /\ walk.phase = "listeners" => walk.at # 0
          /\ posts[walk.n].from \in Channel
          /\ \A i \in 1 .. Len(timers) : walk.n < timers[i].n
      BY <2>2 DEF ChannelsInv, WalkFits
    <3>2. walk \in [n : 1 .. Len(posts'), at : Nat, phase : Phase]
          /\ posts'[walk.n].from \in Channel
      BY <1>2, <1>4, <3>1
    <3>3. ASSUME NEW i \in 1 .. Len(timers') PROVE walk.n < timers'[i].n
      <4>1. CASE i \in 1 .. Len(timers)
        BY <1>5, <3>1, <4>1
      <4>2. CASE i = Len(timers) + 1
        BY <1>2, <1>5, <3>1, <4>2
      <4> QED BY <1>6, <4>1, <4>2
    <3> QED BY <1>1, <3>1, <3>2, <3>3 DEF WalkFits
  <2> QED BY <2>1, <2>2
<1>10. OpenFits'
  BY <1>1 DEF ChannelsInv, OpenFits
<1>11. GotFits' /\ \A e \in M!Ear, n \in Nat : Heard(e, n) => Heard(e, n)'
  <2>1. ASSUME NEW e \in M!Ear, NEW g, Fit(e, g) PROVE Fit(e, g)'
    <3>1. g.n \in 1 .. Len(posts) /\ g.n \in 1 .. Len(posts') /\ posts'[g.n] = posts[g.n]
      BY <1>2, <1>4, <2>1 DEF Fit
    <3>2. ASSUME NEW j \in 1 .. Len(timers') PROVE g.n < timers'[j].n
      <4>1. CASE j \in 1 .. Len(timers)
        BY <1>5, <2>1, <4>1 DEF Fit
      <4>2. CASE j = Len(timers) + 1
        BY <1>2, <1>5, <3>1, <4>2
      <4> QED BY <1>6, <4>1, <4>2
    <3>3. Excused(e, g.n)' /\ (Visited(e) => Visited(e)')
      BY <1>1, <2>1, <3>1 DEF Fit, Excused, M!Sent, Visited, M!Behind
    <3> QED BY <1>1, <2>1, <3>1, <3>2, <3>3 DEF Fit
  <2>2. \A e \in M!Ear : \A i \in 1 .. Len(got[e]) : Fit(e, got[e][i])'
    BY <1>1, <2>1 DEF ChannelsInv, GotFits
  <2> QED BY <1>1, <2>2, GotStays
<1>12. VisitedHeard' /\ SenderMovedUp'
  <2>1. walk # M!Idle => posts'[walk.n] = posts[walk.n]
    BY <1>4, WalkFacts
  <2>2. walk.phase = "listeners" => walk # M!Idle
    BY DEF M!Idle
  <2>3. VisitedHeard'
    BY <1>1, <2>1 DEF ChannelsInv, VisitedHeard, Heard, M!Behind
  <2> QED BY <1>1, <2>1, <2>2, <2>3 DEF ChannelsInv, SenderMovedUp
<1>13. AllArrive'
  <2>1. ASSUME NEW n \in 1 .. Len(posts') PROVE (M!OnTheWay(n) \/ Arrived(n))'
    <3>1. CASE n = Len(posts) + 1
      <4>1. Len(timers) + 1 \in DOMAIN timers' /\ timers'[Len(timers) + 1].n = n
        BY <1>2, <1>5, <3>1
      <4> QED BY <4>1 DEF M!OnTheWay
    <3>2. CASE n \in 1 .. Len(posts) /\ M!OnTheWay(n)
      <4>0. DOMAIN timers = 1 .. Len(timers) /\ DOMAIN timers' = 1 .. Len(timers) + 1
        BY <1>2, <1>5
      <4>1. \A i \in DOMAIN timers : i \in DOMAIN timers' /\ timers'[i] = timers[i]
        BY <1>2, <1>5, <4>0
      <4> QED BY <1>1, <3>2, <4>1 DEF M!OnTheWay
    <3>3. CASE n \in 1 .. Len(posts) /\ Arrived(n)
      <4>1. \A e \in M!Ear : Heard(e, n) => Heard(e, n)'
        BY <1>1 DEF Heard
      <4>2. M!There' = M!There
        BY <1>1 DEF M!There
      <4> QED BY <1>1, <1>4, <3>3, <4>1, <4>2, ArrivedStays
    <3> QED BY <1>6, <2>1, <3>1, <3>2, <3>3 DEF ChannelsInv, AllArrive
  <2> QED BY <2>1 DEF AllArrive
<1> QED BY <1>1, <1>7, <1>8, <1>9, <1>10, <1>11, <1>12, <1>13 DEF ChannelsInv

LEMMA ClosePortStep ==
  ASSUME ChannelsInv, NEW p \in Port, M!ClosePort(p) PROVE ChannelsInv'
<1>1. /\ closed' = closed \cup {p} /\ other' = [other EXCEPT ![p] = Nobody]
      /\ UNCHANGED <<held, open, timers, walk, posts, got, missed>>
  BY DEF M!ClosePort
<1>2. other' \in [Port -> Port \cup {Nobody}] /\ \A q \in Port : other'[q] # q
  BY <1>1, ChannelsAssumption DEF ChannelsInv
<1>3. OpenFits'
  BY <1>1, ChannelsAssumption DEF ChannelsInv, OpenFits
<1>4. PostsFit' /\ TimersFit' /\ WalkFits' /\ VisitedHeard' /\ SenderMovedUp'
  BY <1>1 DEF ChannelsInv, PostsFit, TimersFit, WalkFits, VisitedHeard, SenderMovedUp, Heard,
              M!Behind
<1>5. \A e \in M!Ear : Visited(e) => Visited(e)'
  BY <1>1 DEF Visited, M!Behind
<1>6. GotFits' /\ \A e \in M!Ear, n \in Nat : Heard(e, n) => Heard(e, n)'
  <2>1. \A e \in M!Ear : \A i \in 1 .. Len(got[e]) : Fit(e, got[e][i])'
    BY <1>1, <1>5, FitStays DEF ChannelsInv, GotFits
  <2> QED BY <1>1, <2>1, GotStays
<1>7. AllArrive'
  <2>1. \A e : e \in M!There' => e \in M!There
    BY <1>1 DEF M!There
  <2> QED BY <1>1, <1>6, <2>1, AllStay
<1>8. held' \in Value /\ closed' \subseteq M!End
  BY <1>1 DEF ChannelsInv, M!End
<1> QED BY <1>2, <1>3, <1>4, <1>6, <1>7, <1>8 DEF ChannelsInv

(* A channel comes to the end of the list; what it can no longer hear it   *)
(* has missed.                                                             *)
LEMMA OpenChannelStep ==
  ASSUME ChannelsInv, NEW c \in Channel, M!OpenChannel(c) PROVE ChannelsInv'
<1>1. /\ c \notin M!Range(open) \cup closed /\ open' = Append(open, c)
      /\ missed' = missed \cup {m \in ({c} \X M!Route) \X DOMAIN posts : M!TooLate(m[1][2], m[2])}
      /\ UNCHANGED <<held, other, closed, timers, walk, posts, got>>
  BY DEF M!OpenChannel
<1>2. /\ open \in Seq(Channel) /\ OnceEach(open) /\ Len(open) \in Nat
      /\ \A d \in Channel : Has(open, d) => d \notin closed
      /\ \A d : Has(open, d) <=> d \in M!Range(open)
      /\ DOMAIN posts = 1 .. Len(posts)
  BY ListFacts
<1>3. /\ open' \in Seq(Channel) /\ Len(open') = Len(open) + 1 /\ open'[Len(open) + 1] = c
      /\ \A k \in 1 .. Len(open) : open'[k] = open[k]
      /\ \A k \in 1 .. Len(open') : k \in 1 .. Len(open) \/ k = Len(open) + 1
      /\ \A k \in 1 .. Len(open) : k \in 1 .. Len(open')
  BY <1>1, <1>2
<1>4. c \notin closed /\ ~Has(open, c)
  BY <1>1, <1>2
<1>5. \A d : Has(open, d)' <=> Has(open, d) \/ d = c
  BY <1>1, <1>2, AppendHas
<1>6. OpenFits'
  <2>1. OnceEach(open')
    BY <1>3, <1>2, <1>4 DEF OnceEach, Has
  <2> QED BY <1>1, <1>2, <1>3, <1>4, <1>5, <2>1 DEF OpenFits
<1>7. PostsFit' /\ TimersFit' /\ WalkFits'
  BY <1>1 DEF ChannelsInv, PostsFit, TimersFit, WalkFits
<1>8. missed \subseteq missed'
      /\ \A r \in M!Route, n \in 1 .. Len(posts) : M!TooLate(r, n) => <<<<c, r>>, n>> \in missed'
  <2>1. missed \subseteq missed'
    BY <1>1
  <2>2. ASSUME NEW r \in M!Route, NEW n \in 1 .. Len(posts), M!TooLate(r, n)
        PROVE  <<<<c, r>>, n>> \in missed'
    <3>1. <<<<c, r>>, n>> \in ({c} \X M!Route) \X DOMAIN posts
      BY <1>2
    <3>2. <<<<c, r>>, n>>[1][2] = r /\ <<<<c, r>>, n>>[2] = n
      OBVIOUS
    <3> QED BY <1>1, <2>2, <3>1, <3>2
  <2> QED BY <2>1, <2>2
<1>9. \A r : M!Behind(r)' = M!Behind(r)
  BY <1>1 DEF M!Behind
<1>10. GotFits' /\ \A e \in M!Ear, n \in Nat : Heard(e, n) => Heard(e, n)'
  <2>1. ASSUME NEW e \in M!Ear, Visited(e) PROVE Visited(e)'
    <3>1. PICK d \in Channel, r \in M!Route :
            /\ e = <<d, r>>
            /\ d \in closed \/ \E k \in 1 .. Len(open) : k <= M!Behind(r) /\ open[k] = d
      BY <2>1 DEF Visited
    <3>2. d \in closed' \/ \E k \in 1 .. Len(open') : k <= M!Behind(r)' /\ open'[k] = d
      BY <1>1, <1>3, <1>9, <3>1
    <3> QED BY <3>1, <3>2 DEF Visited
  <2>2. \A e \in M!Ear : \A i \in 1 .. Len(got[e]) : Fit(e, got[e][i])'
    BY <1>1, <1>8, <2>1, FitStays DEF ChannelsInv, GotFits
  <2> QED BY <1>1, <2>2, GotStays
<1>11. VisitedHeard'
  <2>1. ASSUME walk # M!Idle, NEW r \in M!Route, NEW k \in 1 .. Len(open'), k <= M!Behind(r)
        PROVE  \/ open'[k] = posts[walk.n].from \/ <<<<open'[k], r>>, walk.n>> \in missed'
               \/ Heard(<<open'[k], r>>, walk.n)
    <3>1. CASE k \in 1 .. Len(open)
      BY <1>3, <1>8, <2>1, <3>1 DEF ChannelsInv, VisitedHeard
    <3>2. CASE k = Len(open) + 1
      <4>1. walk.n \in 1 .. Len(posts) /\ M!Behind(r) \in Nat
        BY <2>1, WalkFacts
      <4>2. M!TooLate(r, walk.n)
        BY <1>2, <2>1, <3>2, <4>1 DEF M!TooLate
      <4> QED BY <1>3, <1>8, <3>2, <4>1, <4>2
    <3> QED BY <1>3, <3>1, <3>2
  <2> QED BY <1>1, <1>9, <2>1 DEF VisitedHeard, Heard
<1>12. SenderMovedUp'
  <2>1. ASSUME walk.phase = "listeners", walk.at <= Len(open'), open'[walk.at] = posts[walk.n].from
        PROVE  <<<<open'[walk.at], "listeners">>, walk.n>> \in missed'
    <3>1. walk # M!Idle /\ walk.at \in 1 .. Len(open') /\ walk.n \in 1 .. Len(posts)
          /\ M!Behind("listeners") = walk.at
      <4>1. walk # M!Idle
        BY <2>1 DEF M!Idle
      <4>2. /\ walk.n \in 1 .. Len(posts) /\ walk.at \in Nat \ {0}
            /\ M!Behind("listeners") = walk.at
        BY <2>1, <4>1, WalkFacts
      <4>3. Len(open') \in Nat
        BY <1>2, <1>3
      <4> QED BY <2>1, <4>1, <4>2, <4>3
    <3>2. CASE walk.at \in 1 .. Len(open)
      <4>1. open'[walk.at] = open[walk.at] /\ walk.at <= Len(open)
        BY <1>2, <1>3, <3>2
      <4>2. <<<<open[walk.at], "listeners">>, walk.n>> \in missed
        BY <2>1, <4>1 DEF ChannelsInv, SenderMovedUp
      <4> QED BY <1>8, <4>1, <4>2
    <3>3. CASE walk.at = Len(open) + 1
      <4>1. M!TooLate("listeners", walk.n)
        BY <1>2, <3>1, <3>3 DEF M!TooLate
      <4> QED BY <1>3, <1>8, <3>1, <3>3, <4>1 DEF M!Route
    <3> QED BY <1>3, <3>1, <3>2, <3>3
  <2> QED BY <1>1, <2>1 DEF SenderMovedUp
<1>13. AllArrive'
  <2>1. ASSUME NEW e \in M!Ear, NEW n \in 1 .. Len(posts), ~M!OnTheWay(n), e \in M!There'
        PROVE  e \in M!There \/ <<e, n>> \in missed'
    <3>1. CASE e \in Port
      <4>1. M!Range(open') \subseteq Channel
        BY <1>3 DEF M!Range
      <4>2. e \notin M!Range(open') \X M!Route
        BY <3>1, <4>1, ChannelsAssumption
      <4> QED BY <1>1, <2>1, <3>1, <4>2 DEF M!There
    <3>2. CASE e \notin Port
      <4>1. PICK d \in Channel, r \in M!Route : e = <<d, r>>
        BY <3>2 DEF M!Ear
      <4>2. d \in M!Range(open')
        BY <2>1, <3>2, <4>1 DEF M!There
      <4>3. Has(open, d)' <=> d \in M!Range(open')
        BY <1>3 DEF Has, M!Range
      <4>4. CASE d = c
        BY <1>8, <2>1, <4>1, <4>4 DEF M!TooLate
      <4>5. CASE d # c
        BY <1>2, <1>5, <4>1, <4>2, <4>3, <4>5 DEF M!There
      <4> QED BY <4>4, <4>5
    <3> QED BY <3>1, <3>2
  <2> QED BY <1>1, <1>8, <1>10, <2>1, AllStay
<1> QED BY <1>1, <1>6, <1>7, <1>10, <1>11, <1>12, <1>13 DEF ChannelsInv

(* A channel leaves the list; who moves up to a place behind the walk is   *)
(* passed over.                                                            *)
LEMMA CloseChannelStep ==
  ASSUME ChannelsInv, NEW c \in Channel, M!CloseChannel(c) PROVE ChannelsInv'
<1> DEFINE at == M!Position(c)
<1>1. /\ c \in M!Range(open) /\ closed' = closed \cup {c} /\ open' = M!RemoveAt(open, at)
      /\ missed' = missed \cup
           {<<<<open[M!Behind(r) + 1], r>>, walk.n>> :
              r \in {s \in M!Route : at <= M!Behind(s) /\ M!Behind(s) < Len(open)}}
      /\ UNCHANGED <<held, other, timers, walk, posts, got>>
  BY DEF M!CloseChannel
<1>2. /\ open \in Seq(Channel) /\ OnceEach(open) /\ Len(open) \in Nat
      /\ \A d \in Channel : Has(open, d) => d \notin closed
      /\ \A d : Has(open, d) <=> d \in M!Range(open)
  BY ListFacts
<1>3. at \in 1 .. Len(open) /\ open[at] = c
  <2>1. \E i \in DOMAIN open : open[i] = c
    BY <1>1, <1>2 DEF M!Range
  <2> QED BY <1>2, <2>1 DEF M!Position
<1> HIDE DEF at
<1>4. /\ open' \in Seq(Channel) /\ Len(open') = Len(open) - 1
      /\ \A k \in 1 .. Len(open) - 1 : open'[k] = IF k < at THEN open[k] ELSE open[k + 1]
  <2>1. open' = SubSeq(open, 1, at - 1) \o SubSeq(open, at + 1, Len(open))
    BY <1>1 DEF M!RemoveAt
  <2> QED BY <1>2, <1>3, <2>1, Removed
(* Where everybody was before, and is now. *)
<1> DEFINE Was(k) == IF k < at THEN k ELSE k + 1
           Now(k) == IF k < at THEN k ELSE k - 1
<1>5. ASSUME NEW k \in 1 .. Len(open')
      PROVE  Was(k) \in 1 .. Len(open) /\ Was(k) # at /\ open'[k] = open[Was(k)]
  BY <1>2, <1>3, <1>4
<1>6. ASSUME NEW k \in 1 .. Len(open), k # at
      PROVE  Now(k) \in 1 .. Len(open') /\ Now(k) <= k /\ open'[Now(k)] = open[k]
  <2>1. CASE k < at
    BY <1>2, <1>3, <1>4, <2>1
  <2>2. CASE k > at
    <3>1. k - 1 \in 1 .. Len(open) - 1 /\ ~(k - 1 < at) /\ k - 1 + 1 = k
      BY <1>2, <1>3, <2>2
    <3> QED BY <1>3, <1>4, <2>2, <3>1
  <2> QED BY <1>3, <1>6, <2>1, <2>2
<1>7. ASSUME NEW d, Has(open, d)' PROVE Has(open, d) /\ d # c
  <2>1. PICK k \in 1 .. Len(open') : open'[k] = d
    BY <1>7 DEF Has
  <2> HIDE DEF Was
  <2>2. PICK j \in 1 .. Len(open) : j # at /\ open[j] = d
    BY <1>5, <2>1
  <2> QED BY <1>2, <1>3, <2>2 DEF Has, OnceEach
<1>8. \A i, j \in 1 .. Len(open') : Was(i) = Was(j) => i = j
  BY <1>2, <1>3, <1>4
<1> HIDE DEF Now
<1>9. OpenFits'
  <2>1. ASSUME NEW d \in Channel, Has(open, d)' PROVE d \notin closed'
    BY <1>1, <1>2, <1>7, <2>1
  <2>2. ASSUME NEW i \in 1 .. Len(open'), NEW j \in 1 .. Len(open'), open'[i] = open'[j]
        PROVE  i = j
    <3> HIDE DEF Was
    <3>1. Was(i) = Was(j)
      BY <1>2, <1>5, <2>2 DEF OnceEach
    <3> QED BY <1>8, <3>1
  <2> QED BY <1>4, <2>1, <2>2 DEF OpenFits, OnceEach
<1>10. PostsFit' /\ TimersFit' /\ WalkFits'
  BY <1>1 DEF ChannelsInv, PostsFit, TimersFit, WalkFits
<1>11. /\ missed \subseteq missed' /\ closed \subseteq closed'
       /\ \A r \in M!Route : at <= M!Behind(r) /\ M!Behind(r) < Len(open) =>
            <<<<open[M!Behind(r) + 1], r>>, walk.n>> \in missed'
       /\ \A r : M!Behind(r)' = M!Behind(r)
  BY <1>1 DEF M!Behind
(* Who moves up over the end of the walk has missed the message. *)
<1>12. ASSUME NEW r \in M!Route, NEW k \in 1 .. Len(open'), k <= M!Behind(r)
       PROVE  \/ Was(k) <= M!Behind(r)
              \/ <<<<open'[k], r>>, walk.n>> \in missed'
  <2>1. M!Behind(r) \in Nat /\ Was(k) \in 1 .. Len(open) /\ open'[k] = open[Was(k)]
    BY <1>5, WalkFacts
  <2>2. CASE ~(Was(k) <= M!Behind(r))
    <3>1. at <= M!Behind(r) /\ M!Behind(r) < Len(open) /\ Was(k) = M!Behind(r) + 1
      BY <1>2, <1>3, <1>4, <1>12, <2>1, <2>2
    <3> HIDE DEF Was
    <3> QED BY <1>11, <2>1, <3>1
  <2> QED BY <2>2
<1>13. GotFits' /\ \A e \in M!Ear, n \in Nat : Heard(e, n) => Heard(e, n)'
  <2>1. ASSUME NEW e \in M!Ear, Visited(e) PROVE Visited(e)'
    <3>1. PICK d \in Channel, r \in M!Route :
            /\ e = <<d, r>>
            /\ d \in closed \/ \E k \in 1 .. Len(open) : k <= M!Behind(r) /\ open[k] = d
      BY <2>1 DEF Visited
    <3>2. ASSUME NEW k \in 1 .. Len(open), k <= M!Behind(r), open[k] = d
          PROVE  d \in closed' \/ \E j \in 1 .. Len(open') : j <= M!Behind(r) /\ open'[j] = d
      <4>1. CASE k = at
        BY <1>1, <1>3, <3>2, <4>1
      <4>2. CASE k # at
        <5>1. Now(k) \in 1 .. Len(open') /\ Now(k) <= k /\ open'[Now(k)] = d
          BY <1>6, <3>2, <4>2
        <5>2. Now(k) <= M!Behind(r)
          BY <1>2, <1>4, <3>2, <5>1, WalkFacts
        <5> QED BY <5>1, <5>2
      <4> QED BY <4>1, <4>2
    <3>3. d \in closed' \/ \E k \in 1 .. Len(open') : k <= M!Behind(r)' /\ open'[k] = d
      BY <1>11, <3>1, <3>2
    <3> QED BY <3>1, <3>3 DEF Visited
  <2>2. \A e \in M!Ear : \A i \in 1 .. Len(got[e]) : Fit(e, got[e][i])'
    BY <1>1, <1>11, <2>1, FitStays DEF ChannelsInv, GotFits
  <2> QED BY <1>1, <2>2, GotStays
<1>14. VisitedHeard'
  <2>1. ASSUME walk # M!Idle, NEW r \in M!Route, NEW k \in 1 .. Len(open'), k <= M!Behind(r)
        PROVE  \/ open'[k] = posts[walk.n].from \/ <<<<open'[k], r>>, walk.n>> \in missed'
               \/ Heard(<<open'[k], r>>, walk.n)
    <3>1. Was(k) \in 1 .. Len(open) /\ open'[k] = open[Was(k)]
      BY <1>5
    <3> HIDE DEF Was
    <3>2. CASE Was(k) <= M!Behind(r)
      BY <1>11, <2>1, <3>1, <3>2 DEF ChannelsInv, VisitedHeard
    <3> QED BY <1>12, <2>1, <3>2
  <2> QED BY <1>1, <1>11, <2>1 DEF VisitedHeard, Heard
<1>15. SenderMovedUp'
  <2>1. ASSUME walk.phase = "listeners", walk.at <= Len(open'), open'[walk.at] = posts[walk.n].from
        PROVE  <<<<open'[walk.at], "listeners">>, walk.n>> \in missed'
    <3>1. /\ walk # M!Idle /\ walk.at \in 1 .. Len(open') /\ M!Behind("listeners") = walk.at
          /\ walk.at \in Nat /\ "listeners" \in M!Route
      <4>1. walk # M!Idle
        BY <2>1 DEF M!Idle
      <4>2. walk.at \in Nat \ {0} /\ M!Behind("listeners") = walk.at
        BY <2>1, <4>1, WalkFacts
      <4>3. Len(open') \in Nat
        BY <1>2, <1>4
      <4>4. "listeners" \in M!Route
        BY DEF M!Route
      <4> QED BY <2>1, <4>1, <4>2, <4>3, <4>4
    <3>2. Was(walk.at) \in 1 .. Len(open) /\ open'[walk.at] = open[Was(walk.at)]
      BY <1>5, <3>1
    <3>3. Was(walk.at) <= walk.at \/ <<<<open'[walk.at], "listeners">>, walk.n>> \in missed'
      BY <1>12, <3>1
    <3>4. CASE Was(walk.at) <= walk.at
      <4>1. Was(walk.at) = walk.at
        BY <3>1, <3>4
      <4> HIDE DEF Was
      <4>2. open'[walk.at] = open[walk.at] /\ walk.at <= Len(open)
        BY <1>2, <3>2, <4>1
      <4>3. <<<<open[walk.at], "listeners">>, walk.n>> \in missed
        BY <1>11, <2>1, <4>2 DEF ChannelsInv, SenderMovedUp
      <4> QED BY <1>11, <4>2, <4>3
    <3> QED BY <3>3, <3>4
  <2> QED BY <1>1, <2>1 DEF SenderMovedUp
<1>16. AllArrive'
  <2>1. ASSUME NEW e \in M!Ear, e \in M!There' PROVE e \in M!There
    <3>1. M!Range(open') \subseteq M!Range(open)
      <4>1. ASSUME NEW d \in M!Range(open') PROVE d \in M!Range(open)
        <5>1. Has(open, d)'
          BY <1>4 DEF Has, M!Range
        <5> QED BY <1>2, <1>7, <5>1
      <4> QED BY <4>1
    <3> QED BY <1>11, <2>1, <3>1 DEF M!There
  <2> QED BY <1>1, <1>11, <1>13, <2>1, AllStay
<1> QED BY <1>1, <1>9, <1>10, <1>13, <1>14, <1>15, <1>16 DEF ChannelsInv, M!End

(* The first timer fires, and those after it move up. *)
LEMMA FirstTimer ==
  ASSUME ChannelsInv, timers # <<>>, timers' = Tail(timers), posts' = posts
  PROVE  /\ Head(timers) = timers[1] /\ 1 \in 1 .. Len(timers) /\ Len(timers) \in Nat
         /\ Head(timers).n \in 1 .. Len(posts) /\ Head(timers).to \in M!End
         /\ Len(timers') = Len(timers) - 1
         /\ \A i \in 1 .. Len(timers') : i + 1 \in 1 .. Len(timers) /\ timers'[i] = timers[i + 1]
         /\ \A i \in 1 .. Len(timers') : Head(timers).n < timers'[i].n
         /\ \A n \in Nat : M!OnTheWay(n) => n = walk.n \/ n = Head(timers).n
                                            \/ \E i \in 1 .. Len(timers') : timers'[i].n = n
         /\ TimersFit'
<1> DEFINE D == [n : 1 .. MaxPosts, to : M!End]
<1>1. timers \in Seq(D) /\ Len(timers) \in Nat /\ Len(timers) # 0
  BY DEF ChannelsInv, TimersFit
<1>2. /\ timers' \in Seq(D) /\ Len(timers') = Len(timers) - 1 /\ Head(timers) = timers[1]
      /\ \A i \in 1 .. Len(timers) - 1 : timers'[i] = timers[i + 1]
  <2> HIDE DEF D
  <2> QED BY <1>1
<1>3. 1 \in 1 .. Len(timers)
  BY <1>1
<1>4. \A i \in 1 .. Len(timers') : i + 1 \in 1 .. Len(timers) /\ timers'[i] = timers[i + 1]
  BY <1>1, <1>2
<1>5. timers[1] \in D
  <2> HIDE DEF D
  <2> QED BY <1>1, <1>3
<1>6. Head(timers).n \in 1 .. Len(posts) /\ Head(timers).to \in M!End
  BY <1>2, <1>3, <1>5 DEF ChannelsInv, TimersFit
<1>7. \A i \in 1 .. Len(timers') : Head(timers).n < timers'[i].n
  <2>1. ASSUME NEW i \in 1 .. Len(timers') PROVE timers[1].n < timers[i + 1].n
    <3>1. i + 1 \in 1 .. Len(timers) /\ 1 < i + 1
      BY <1>4
    <3> QED BY <1>3, <3>1 DEF ChannelsInv, TimersFit
  <2> QED BY <1>2, <1>4, <2>1
<1>8. ASSUME NEW n \in Nat, M!OnTheWay(n)
      PROVE  n = walk.n \/ n = Head(timers).n \/ \E i \in 1 .. Len(timers') : timers'[i].n = n
  <2>1. CASE \E i \in DOMAIN timers : timers[i].n = n
    <3>1. PICK i \in 1 .. Len(timers) : timers[i].n = n
      BY <1>1, <2>1
    <3>2. CASE i # 1
      <4>1. i - 1 \in 1 .. Len(timers') /\ i - 1 + 1 = i
        BY <1>1, <1>2, <3>1, <3>2
      <4>2. timers'[i - 1] = timers[i]
        BY <1>4, <4>1
      <4> QED BY <3>1, <4>1, <4>2
    <3> QED BY <1>2, <3>1, <3>2
  <2> QED BY <1>8, <2>1 DEF M!OnTheWay
<1>9. TimersFit'
  <2>1. \A i, j \in 1 .. Len(timers') : i < j => timers'[i].n < timers'[j].n
    <3>1. ASSUME NEW i \in 1 .. Len(timers'), NEW j \in 1 .. Len(timers'), i < j
          PROVE  timers[i + 1].n < timers[j + 1].n
      <4>1. i + 1 \in 1 .. Len(timers) /\ j + 1 \in 1 .. Len(timers) /\ i + 1 < j + 1
        BY <1>4, <3>1
      <4> QED BY <4>1 DEF ChannelsInv, TimersFit
    <3> QED BY <1>4, <3>1
  <2>2. \A i \in 1 .. Len(timers') :
          /\ timers'[i].n \in 1 .. Len(posts)
          /\ IF timers'[i].to \in Port
             THEN posts[timers'[i].n].from \in Port \ {timers'[i].to}
             ELSE posts[timers'[i].n].from = timers'[i].to
    BY <1>4 DEF ChannelsInv, TimersFit
  <2> QED BY <1>2, <2>1, <2>2 DEF TimersFit
<1> QED BY <1>1, <1>2, <1>3, <1>4, <1>6, <1>7, <1>8, <1>9

(* Everything goes on as it was, after a delivery, for what had arrived.   *)
LEMMA DeliverToPortStep ==
  ASSUME ChannelsInv, M!DeliverToPort PROVE ChannelsInv'
<1> DEFINE t == Head(timers)
<1>1. /\ walk = M!Idle /\ timers # <<>> /\ t.to \in Port /\ timers' = Tail(timers)
      /\ UNCHANGED <<held, other, open, closed, walk, posts, missed>>
      /\ IF t.to \in closed THEN got' = got ELSE M!Give(t.to, t.n)
  BY DEF M!DeliverToPort
<1> HIDE DEF t
<1>2. /\ t = timers[1] /\ 1 \in 1 .. Len(timers) /\ Len(timers) \in Nat
      /\ t.n \in 1 .. Len(posts) /\ t.to \in M!End
      /\ \A i \in 1 .. Len(timers') : i + 1 \in 1 .. Len(timers) /\ timers'[i] = timers[i + 1]
      /\ \A i \in 1 .. Len(timers') : t.n < timers'[i].n
      /\ \A n \in Nat : M!OnTheWay(n) => n = walk.n \/ n = t.n
                                         \/ \E i \in 1 .. Len(timers') : timers'[i].n = n
      /\ TimersFit'
  BY <1>1, FirstTimer DEF t
<1>3. posts[t.n].from \in Port \ {t.to}
  BY <1>1, <1>2 DEF ChannelsInv, TimersFit
<1>p. PICK p \in Port, n \in 1 .. Len(posts) : p = t.to /\ n = t.n
  BY <1>1, <1>2
<1>4. ASSUME NEW e \in M!Ear, NEW g, Fit(e, g) PROVE g.n < n /\ Fit(e, g)'
  <2>1. Excused(e, g.n)' /\ walk' = M!Idle
    BY <1>1, <1>4 DEF Fit, Excused, M!Sent, M!Idle
  <2> QED BY <1>1, <1>2, <1>p, <1>4, <2>1 DEF Fit
<1>5. \A e \in M!Ear : \A i \in 1 .. Len(got[e]) : Fit(e, got[e][i])
  BY DEF ChannelsInv, GotFits
<1>6. /\ GotFits' /\ \A e \in M!Ear, m \in Nat : Heard(e, m) => Heard(e, m)'
      /\ p \notin closed => Heard(p, n)'
  <2>1. CASE p \in closed
    <3>1. \A e \in M!Ear : \A i \in 1 .. Len(got[e]) : Fit(e, got[e][i])'
      BY <1>1, <1>p, <1>4, <1>5, <2>1
    <3> QED BY <1>1, <1>p, <2>1, <3>1, GotStays
  <2>2. CASE p \notin closed
    <3>1. p \in M!Ear /\ M!Give(p, n) /\ posts' = posts
      BY <1>1, <1>p, <2>2 DEF M!Ear
    <3>2. \A i \in 1 .. Len(got[p]) : got[p][i].n < n
      BY <1>4, <1>5, <3>1
    <3>3. Fit(p, [n |-> n, value |-> posts[n].value])'
      <4>1. Excused(p, n)'
        BY <1>3, <1>p, <3>1 DEF Excused, M!Sent
      <4>2. walk' = (M!Idle)'
        BY <1>1 DEF M!Idle
      <4> QED BY <1>1, <1>2, <1>p, <3>1, <4>1, <4>2 DEF Fit
    <3> QED BY <1>4, <3>1, <3>2, <3>3, GiveFits
  <2> QED BY <2>1, <2>2
<1>7. PostsFit' /\ WalkFits' /\ OpenFits'
  BY <1>1 DEF ChannelsInv, PostsFit, WalkFits, OpenFits, M!Idle
<1>8. VisitedHeard' /\ SenderMovedUp'
  BY <1>1 DEF VisitedHeard, SenderMovedUp, M!Idle
<1>9. AllArrive'
  <2>1. ASSUME NEW m \in 1 .. Len(posts) PROVE (M!OnTheWay(m) \/ Arrived(m))'
    <3>0. M!There' = M!There /\ m \in Nat
      BY <1>1, ListFacts DEF M!There
    <3>1. CASE Arrived(m)
      BY <1>1, <1>6, <3>0, <3>1, ArrivedStays
    <3>2. CASE m = n
      <4>1. M!OtherEars(posts[n].from) = {p}
        BY <1>1, <1>p, <1>3, ChannelsAssumption DEF M!OtherEars
      <4>2. p \in M!There => p \notin closed
        <5>1. M!Range(open) \subseteq Channel
          BY ListFacts DEF M!Range
        <5>2. p \notin M!Range(open) \X M!Route
          BY <5>1, ChannelsAssumption
        <5> QED BY <5>2 DEF M!There
      <4> QED BY <1>1, <1>6, <3>0, <3>2, <4>1, <4>2 DEF Arrived
    <3>3. CASE m # n /\ M!OnTheWay(m)
      <4>1. walk.n # m
        BY <1>1 DEF M!Idle
      <4>2. PICK i \in 1 .. Len(timers') : timers'[i].n = m
        BY <1>2, <1>p, <3>0, <3>3, <4>1
      <4>3. i \in DOMAIN timers'
        BY <1>2 DEF TimersFit
      <4> QED BY <4>2, <4>3 DEF M!OnTheWay
    <3> QED BY <3>1, <3>2, <3>3 DEF ChannelsInv, AllArrive
  <2> QED BY <1>1, <2>1 DEF AllArrive
<1> QED BY <1>1, <1>2, <1>6, <1>7, <1>8, <1>9 DEF ChannelsInv

LEMMA StartWalkStep ==
  ASSUME ChannelsInv, M!StartWalk PROVE ChannelsInv'
<1> DEFINE t == Head(timers)
<1>1. /\ walk = M!Idle /\ timers # <<>> /\ t.to \in Channel /\ timers' = Tail(timers)
      /\ walk' = [n |-> t.n, at |-> 0, phase |-> "next"]
      /\ UNCHANGED <<held, other, open, closed, posts, got, missed>>
  BY DEF M!StartWalk
<1> HIDE DEF t
<1>2. /\ t = timers[1] /\ 1 \in 1 .. Len(timers) /\ Len(timers) \in Nat
      /\ t.n \in 1 .. Len(posts) /\ t.to \in M!End
      /\ \A i \in 1 .. Len(timers') : i + 1 \in 1 .. Len(timers) /\ timers'[i] = timers[i + 1]
      /\ \A i \in 1 .. Len(timers') : t.n < timers'[i].n
      /\ \A n \in Nat : M!OnTheWay(n) => n = walk.n \/ n = t.n
                                         \/ \E i \in 1 .. Len(timers') : timers'[i].n = n
      /\ TimersFit'
  BY <1>1, FirstTimer DEF t
<1>3. posts[t.n].from = t.to
  BY <1>1, <1>2, ChannelsAssumption DEF ChannelsInv, TimersFit
<1>4. /\ walk'.n = t.n /\ walk'.at = 0 /\ walk'.phase = "next"
      /\ walk' \in [n : 1 .. Len(posts), at : Nat, phase : Phase]
  BY <1>1, <1>2 DEF Phase
<1>5. WalkFits'
  BY <1>1, <1>2, <1>3, <1>4 DEF WalkFits
<1>6. PostsFit' /\ OpenFits'
  BY <1>1 DEF ChannelsInv, PostsFit, OpenFits
<1>7. GotFits' /\ \A e \in M!Ear, m \in Nat : Heard(e, m) => Heard(e, m)'
  <2>1. ASSUME NEW e \in M!Ear, NEW g, Fit(e, g) PROVE Fit(e, g)'
    <3>0. Excused(e, g.n)'
      BY <1>1, <2>1 DEF Fit, Excused, M!Sent
    <3>1. g.n \in Nat /\ g.n < t.n
      BY <1>2, <2>1, ListFacts DEF Fit
    <3>2. g.n <= walk'.n /\ g.n # walk'.n
      BY <1>2, <1>4, <3>1, ListFacts
    <3> QED BY <1>1, <1>2, <2>1, <3>0, <3>1, <3>2 DEF Fit
  <2>2. \A e \in M!Ear : \A i \in 1 .. Len(got[e]) : Fit(e, got[e][i])'
    BY <1>1, <2>1 DEF ChannelsInv, GotFits
  <2> QED BY <1>1, <2>2, GotStays
<1>8. VisitedHeard' /\ SenderMovedUp'
  <2>1. \A r \in M!Route : M!Behind(r)' = 0
    BY <1>4 DEF M!Behind
  <2>2. ~(\E k \in 1 .. Len(open') : k <= 0)
    OBVIOUS
  <2> QED BY <1>4, <2>1, <2>2 DEF VisitedHeard, SenderMovedUp
<1>9. AllArrive'
  <2>1. ASSUME NEW n \in 1 .. Len(posts) PROVE (M!OnTheWay(n) \/ Arrived(n))'
    <3>0. M!There' = M!There /\ n \in Nat
      BY <1>1, ListFacts DEF M!There
    <3>1. CASE Arrived(n)
      BY <1>1, <1>7, <3>0, <3>1, ArrivedStays
    <3>2. CASE n = t.n
      BY <1>4, <3>2 DEF M!OnTheWay
    <3>3. CASE n # t.n /\ M!OnTheWay(n)
      <4>1. walk.n # n
        BY <1>1 DEF M!Idle
      <4>2. PICK i \in 1 .. Len(timers') : timers'[i].n = n
        BY <1>2, <3>0, <3>3, <4>1
      <4>3. i \in DOMAIN timers'
        BY <1>2 DEF TimersFit
      <4> QED BY <4>2, <4>3 DEF M!OnTheWay
    <3> QED BY <3>1, <3>2, <3>3 DEF ChannelsInv, AllArrive
  <2> QED BY <1>1, <2>1 DEF AllArrive
<1> QED BY <1>1, <1>2, <1>5, <1>6, <1>7, <1>8, <1>9 DEF ChannelsInv

(* The next place: its listeners hear it, for the first time, unless the   *)
(* sender is there.                                                        *)
LEMMA WalkStep ==
  ASSUME ChannelsInv, M!Step PROVE ChannelsInv'
<1>1. /\ walk # M!Idle /\ walk.phase # "listeners" /\ walk.at < Len(open)
      /\ walk' = [walk EXCEPT !.at = walk.at + 1,
                    !.phase = IF open[walk.at + 1] = posts[walk.n].from THEN "next" ELSE "listeners"]
      /\ UNCHANGED <<held, other, open, closed, timers, posts, missed>>
      /\ IF open[walk.at + 1] = posts[walk.n].from THEN got' = got
         ELSE M!Give(<<open[walk.at + 1], "listeners">>, walk.n)
  BY DEF M!Step
<1>2. /\ walk.n \in 1 .. Len(posts) /\ posts[walk.n].from \in Channel
      /\ walk.at \in Nat /\ walk.phase \in Phase
      /\ walk = [n |-> walk.n, at |-> walk.at, phase |-> walk.phase]
      /\ \A i \in 1 .. Len(timers) : walk.n < timers[i].n
      /\ \A r \in M!Route : M!Behind(r) = walk.at
  BY <1>1, WalkFacts DEF M!Route
<1>3. /\ open \in Seq(Channel) /\ OnceEach(open) /\ Len(open) \in Nat
      /\ \A d \in Channel : Has(open, d) => d \notin closed
  BY ListFacts
<1>4. PICK c \in Channel, n \in 1 .. Len(posts), at \in 1 .. Len(open) :
        c = open[at] /\ n = walk.n /\ at = walk.at + 1
  BY <1>1, <1>2, <1>3
<1>5. /\ walk'.n = n /\ walk'.at = at /\ walk' # M!Idle
      /\ walk'.phase = IF c = posts[n].from THEN "next" ELSE "listeners"
      /\ walk' \in [n : 1 .. Len(posts), at : Nat, phase : Phase]
  <2>1. walk' = [n |-> n, at |-> at, phase |-> IF c = posts[n].from THEN "next" ELSE "listeners"]
    BY <1>1, <1>2, <1>4
  <2>2. "next" \in Phase /\ "listeners" \in Phase /\ at \in Nat /\ n \in Nat \ {0}
    BY <1>3, ListFacts DEF Phase, M!Route
  <2> QED BY <2>1, <2>2 DEF M!Idle
<1>6. /\ M!Behind("listeners")' = at
      /\ M!Behind("onmessage")' = IF c = posts[n].from THEN at ELSE at - 1
      /\ \A r \in M!Route : M!Behind(r) \in Nat /\ M!Behind(r) <= M!Behind(r)'
  BY <1>2, <1>4, <1>5 DEF M!Behind, M!Route
<1>7. ASSUME NEW e \in M!Ear, NEW g, Fit(e, g) PROVE Fit(e, g)'
  <2>1. ASSUME Visited(e) PROVE Visited(e)'
    <3>1. PICK d \in Channel, r \in M!Route :
            /\ e = <<d, r>>
            /\ d \in closed \/ \E k \in 1 .. Len(open) : k <= M!Behind(r) /\ open[k] = d
      BY <2>1 DEF Visited
    <3>2. ASSUME NEW k \in 1 .. Len(open), k <= M!Behind(r) PROVE k <= M!Behind(r)'
      BY <1>2, <1>4, <1>5, <1>6, <3>2 DEF M!Behind
    <3> QED BY <1>1, <3>1, <3>2 DEF Visited
  <2> QED BY <1>1, <1>4, <1>5, <1>7, <2>1, FitStays
<1>8. \A e \in M!Ear : \A i \in 1 .. Len(got[e]) : Fit(e, got[e][i])
  BY DEF ChannelsInv, GotFits
<1>9. /\ GotFits' /\ \A e \in M!Ear, m \in Nat : Heard(e, m) => Heard(e, m)'
      /\ c # posts[n].from => Heard(<<c, "listeners">>, n)'
  <2>1. CASE c = posts[n].from
    <3>1. got' = got
      BY <1>1, <1>4, <2>1
    <3>2. \A e \in M!Ear : \A i \in 1 .. Len(got[e]) : Fit(e, got[e][i])'
      BY <1>7, <1>8, <3>1
    <3> QED BY <2>1, <3>1, <3>2, GotStays
  <2>2. CASE c # posts[n].from
    <3>1. PICK e \in M!Ear : e = <<c, "listeners">>
      BY DEF M!Ear, M!Route
    <3>2. M!Give(e, n) /\ posts' = posts
      BY <1>1, <1>4, <2>2, <3>1
    <3>3. ASSUME NEW i \in 1 .. Len(got[e]) PROVE got[e][i].n < n
      <4>1. got[e][i].n \in 1 .. Len(posts) /\ got[e][i].n <= n
        BY <1>1, <1>4, <1>8 DEF Fit
      <4>2. got[e][i].n # n
        <5>1. SUFFICES ASSUME Visited(e) PROVE FALSE
          BY <1>1, <1>4, <1>8 DEF Fit
        <5>2. c \in closed \/ \E k \in 1 .. Len(open) : k <= walk.at /\ open[k] = c
          BY <1>2, <3>1, <5>1 DEF Visited
        <5> QED BY <1>2, <1>3, <1>4, <5>2 DEF Has, OnceEach
      <4> QED BY <1>4, <4>1, <4>2
    <3>4. Fit(e, [n |-> n, value |-> posts[n].value])'
      <4>1. Excused(e, n)'
        BY <1>1, <2>2, <3>1, ChannelsAssumption DEF Excused, M!Sent, M!Route
      <4>2. Visited(e)'
        BY <1>1, <1>4, <1>6, <3>1 DEF Visited, M!Route
      <4> QED BY <1>1, <1>2, <1>4, <1>5, <4>1, <4>2 DEF Fit
    <3>5. GotFits' /\ Heard(e, n)' /\ \A a \in M!Ear, m \in Nat : Heard(a, m) => Heard(a, m)'
      BY <1>7, <3>2, <3>3, <3>4, GiveFits
    <3> QED BY <3>1, <3>5
  <2> QED BY <2>1, <2>2
<1>10. PostsFit' /\ TimersFit' /\ OpenFits'
  BY <1>1 DEF ChannelsInv, PostsFit, TimersFit, OpenFits
<1>11. WalkFits'
  BY <1>1, <1>2, <1>4, <1>5 DEF WalkFits
<1>12. VisitedHeard'
  <2>1. ASSUME NEW r \in M!Route, NEW k \in 1 .. Len(open), k <= M!Behind(r)'
        PROVE  \/ open[k] = posts[n].from \/ <<<<open[k], r>>, n>> \in missed
               \/ Heard(<<open[k], r>>, n)'
    <3>1. CASE k <= walk.at
      <4>1. <<open[k], r>> \in M!Ear /\ n \in Nat
        BY <1>3, <1>4 DEF M!Ear
      <4> QED BY <1>1, <1>2, <1>4, <1>9, <3>1, <4>1 DEF ChannelsInv, VisitedHeard
    <3>2. CASE k = at
      <4>1. CASE r = "listeners"
        BY <1>1, <1>4, <1>9, <3>2, <4>1
      <4>2. CASE r = "onmessage"
        BY <1>4, <1>6, <2>1, <3>2, <4>2
      <4> QED BY <4>1, <4>2 DEF M!Route
    <3> QED BY <1>2, <1>4, <1>6, <2>1, <3>1, <3>2 DEF M!Route
  <2> QED BY <1>1, <1>4, <1>5, <2>1 DEF VisitedHeard
<1>13. SenderMovedUp'
  BY <1>1, <1>4, <1>5 DEF SenderMovedUp
<1>14. AllArrive'
  <2>1. M!There' = M!There
    BY <1>1 DEF M!There
  <2> QED BY <1>1, <1>4, <1>5, <1>9, <2>1, AllStay
<1> QED BY <1>1, <1>9, <1>10, <1>11, <1>12, <1>13, <1>14 DEF ChannelsInv

(* The onmessage of the place: whoever is there now hears it by it.        *)
LEMMA CallStep ==
  ASSUME ChannelsInv, M!Call PROVE ChannelsInv'
<1>1. /\ walk.phase = "listeners" /\ walk.at <= Len(open)
      /\ walk' = [walk EXCEPT !.phase = "onmessage"]
      /\ UNCHANGED <<held, other, open, closed, timers, posts, missed>>
      /\ M!Give(<<open[walk.at], "onmessage">>, walk.n)
  BY DEF M!Call
<1>0. walk # M!Idle
  BY <1>1 DEF M!Idle
<1>2. /\ walk.n \in 1 .. Len(posts) /\ posts[walk.n].from \in Channel
      /\ walk.at \in Nat /\ walk.at # 0 /\ walk.phase \in Phase
      /\ walk = [n |-> walk.n, at |-> walk.at, phase |-> walk.phase]
      /\ \A i \in 1 .. Len(timers) : walk.n < timers[i].n
      /\ M!Behind("listeners") = walk.at /\ M!Behind("onmessage") = walk.at - 1
  BY <1>0, <1>1, WalkFacts
<1>3. /\ open \in Seq(Channel) /\ OnceEach(open) /\ Len(open) \in Nat
      /\ \A d \in Channel : Has(open, d) => d \notin closed
  BY ListFacts
<1>4. PICK c \in Channel, n \in 1 .. Len(posts), at \in 1 .. Len(open) :
        c = open[at] /\ n = walk.n /\ at = walk.at
  BY <1>1, <1>2, <1>3
<1>5. /\ walk'.n = n /\ walk'.at = at /\ walk'.phase = "onmessage" /\ walk' # M!Idle
      /\ walk' \in [n : 1 .. Len(posts), at : Nat, phase : Phase]
  BY <1>1, <1>2, <1>4 DEF Phase, M!Route, M!Idle
<1>6. \A r \in M!Route : M!Behind(r)' = at
  BY <1>5 DEF M!Behind
<1>7. ASSUME NEW e \in M!Ear, NEW g, Fit(e, g) PROVE Fit(e, g)'
  <2>1. ASSUME Visited(e) PROVE Visited(e)'
    <3>1. PICK d \in Channel, r \in M!Route :
            /\ e = <<d, r>>
            /\ d \in closed \/ \E k \in 1 .. Len(open) : k <= M!Behind(r) /\ open[k] = d
      BY <2>1 DEF Visited
    <3>2. ASSUME NEW k \in 1 .. Len(open), k <= M!Behind(r) PROVE k <= M!Behind(r)'
      BY <1>2, <1>4, <1>6, <3>2 DEF M!Route
    <3> QED BY <1>1, <3>1, <3>2 DEF Visited
  <2> QED BY <1>0, <1>1, <1>4, <1>5, <1>7, <2>1, FitStays
<1>8. \A e \in M!Ear : \A i \in 1 .. Len(got[e]) : Fit(e, got[e][i])
  BY DEF ChannelsInv, GotFits
<1>9. /\ GotFits' /\ \A e \in M!Ear, m \in Nat : Heard(e, m) => Heard(e, m)'
      /\ Heard(<<c, "onmessage">>, n)'
  <2>1. PICK e \in M!Ear : e = <<c, "onmessage">>
    BY DEF M!Ear, M!Route
  <2>2. M!Give(e, n) /\ posts' = posts
    BY <1>1, <1>4, <2>1
  <2>3. ASSUME NEW i \in 1 .. Len(got[e]) PROVE got[e][i].n < n
    <3>1. got[e][i].n \in 1 .. Len(posts) /\ got[e][i].n <= n
      BY <1>0, <1>4, <1>8 DEF Fit
    <3>2. got[e][i].n # n
      <4>1. SUFFICES ASSUME Visited(e) PROVE FALSE
        BY <1>0, <1>4, <1>8 DEF Fit
      <4>2. c \in closed \/ \E k \in 1 .. Len(open) : k <= walk.at - 1 /\ open[k] = c
        BY <1>2, <2>1, <4>1 DEF Visited
      <4> QED BY <1>2, <1>3, <1>4, <4>2 DEF Has, OnceEach
    <3> QED BY <1>4, <3>1, <3>2
  <2>4. Fit(e, [n |-> n, value |-> posts[n].value])'
    <3>1. Excused(e, n)'
      <4>1. c = posts[n].from => <<<<c, "listeners">>, n>> \in missed
        BY <1>1, <1>4 DEF ChannelsInv, SenderMovedUp
      <4>2. e \notin Port /\ e[1] = c
        BY <2>1, ChannelsAssumption DEF M!Route
      <4> QED BY <1>1, <2>1, <4>1, <4>2 DEF Excused, M!Sent
    <3>2. Visited(e)'
      BY <1>1, <1>4, <1>6, <2>1 DEF Visited, M!Route
    <3> QED BY <1>1, <1>2, <1>4, <1>5, <3>1, <3>2 DEF Fit
  <2>5. GotFits' /\ Heard(e, n)' /\ \A a \in M!Ear, m \in Nat : Heard(a, m) => Heard(a, m)'
    BY <1>7, <2>2, <2>3, <2>4, GiveFits
  <2> QED BY <2>1, <2>5
<1>10. PostsFit' /\ TimersFit' /\ OpenFits'
  BY <1>1 DEF ChannelsInv, PostsFit, TimersFit, OpenFits
<1>11. WalkFits'
  BY <1>1, <1>2, <1>4, <1>5 DEF WalkFits
<1>12. VisitedHeard'
  <2>1. ASSUME NEW r \in M!Route, NEW k \in 1 .. Len(open), k <= at
        PROVE  \/ open[k] = posts[n].from \/ <<<<open[k], r>>, n>> \in missed
               \/ Heard(<<open[k], r>>, n)'
    <3>0. <<open[k], r>> \in M!Ear /\ n \in Nat
      BY <1>3, <1>4 DEF M!Ear
    <3>1. CASE k <= M!Behind(r)
      BY <1>0, <1>1, <1>4, <1>9, <3>0, <3>1 DEF ChannelsInv, VisitedHeard
    <3>2. CASE ~(k <= M!Behind(r))
      <4>1. r = "onmessage" /\ k = at
        BY <1>2, <1>4, <2>1, <3>2 DEF M!Route
      <4> QED BY <1>1, <1>4, <1>9, <4>1
    <3> QED BY <3>1, <3>2
  <2> QED BY <1>1, <1>4, <1>5, <1>6, <2>1 DEF VisitedHeard
<1>13. SenderMovedUp'
  BY <1>5 DEF SenderMovedUp
<1>14. AllArrive'
  <2>1. M!There' = M!There
    BY <1>1 DEF M!There
  <2> QED BY <1>1, <1>4, <1>5, <1>9, <2>1, AllStay
<1> QED BY <1>1, <1>9, <1>10, <1>11, <1>12, <1>13, <1>14 DEF ChannelsInv

(* The walk ends: whoever is in the list is behind it or has missed it.    *)
LEMMA WalkEnds ==
  ASSUME ChannelsInv, walk # M!Idle, walk' = M!Idle, missed \subseteq missed',
         UNCHANGED <<held, other, open, closed, timers, posts, got>>,
         \A r \in M!Route : \A k \in 1 .. Len(open) :
           k <= M!Behind(r) \/ <<<<open[k], r>>, walk.n>> \in missed'
  PROVE  ChannelsInv'
<1>1. walk.n \in 1 .. Len(posts) /\ posts[walk.n].from \in Channel
  BY WalkFacts
<1>2. PostsFit' /\ TimersFit' /\ OpenFits' /\ WalkFits' /\ VisitedHeard' /\ SenderMovedUp'
  BY DEF ChannelsInv, PostsFit, TimersFit, OpenFits, WalkFits, VisitedHeard, SenderMovedUp, M!Idle
<1>3. GotFits' /\ \A e \in M!Ear, m \in Nat : Heard(e, m) => Heard(e, m)'
  <2>1. walk' = (M!Idle)'
    BY DEF M!Idle
  <2>2. \A e \in M!Ear : \A i \in 1 .. Len(got[e]) : Fit(e, got[e][i])'
    BY <2>1, FitStays DEF ChannelsInv, GotFits
  <2> QED BY <2>2, GotStays
<1>4. AllArrive'
  <2>0. M!There' = M!There
    BY DEF M!There
  <2>1. ASSUME NEW n \in 1 .. Len(posts), n = walk.n PROVE Arrived(n)'
    <3>1. ASSUME NEW e \in M!OtherEars(posts[n].from), e \in M!There
          PROVE  <<e, n>> \in missed' \/ Heard(e, n)
      <4>1. PICK d \in Channel, r \in M!Route : e = <<d, r>> /\ d # posts[n].from
        BY <1>1, <2>1, <3>1, ChannelsAssumption DEF M!OtherEars
      <4>2. d \in M!Range(open)
        BY <3>1, <4>1, ChannelsAssumption DEF M!There
      <4>3. PICK k \in 1 .. Len(open) : open[k] = d
        BY <4>2, ListFacts DEF M!Range
      <4> QED BY <2>1, <4>1, <4>3 DEF ChannelsInv, VisitedHeard
    <3>2. \A e : Heard(e, n) => Heard(e, n)'
      BY DEF Heard
    <3> QED BY <2>0, <3>1, <3>2 DEF Arrived
  <2>2. ASSUME NEW n \in 1 .. Len(posts), Arrived(n) PROVE Arrived(n)'
    <3>1. n \in Nat
      BY ListFacts
    <3> QED BY <1>3, <2>0, <2>2, <3>1, ArrivedStays
  <2> QED BY <2>1, <2>2 DEF ChannelsInv, AllArrive, M!OnTheWay
<1> QED BY <1>2, <1>3, <1>4 DEF ChannelsInv

LEMMA ThrowStep ==
  ASSUME ChannelsInv, M!Throw PROVE ChannelsInv'
<1>1. /\ walk.phase = "onmessage" \/ (walk.phase = "listeners" /\ walk.at > Len(open))
      /\ walk' = M!Idle
      /\ missed' = missed \cup
           {<<<<open[i], r>>, walk.n>> : i \in walk.at + 1 .. Len(open), r \in M!Route}
      /\ UNCHANGED <<held, other, open, closed, timers, posts, got>>
  BY DEF M!Throw
<1>2. walk # M!Idle /\ walk.at \in Nat
  BY <1>1, WalkFacts DEF M!Idle
<1>3. ASSUME NEW r \in M!Route, NEW k \in 1 .. Len(open)
      PROVE  k <= M!Behind(r) \/ <<<<open[k], r>>, walk.n>> \in missed'
  <2>1. CASE k <= walk.at
    <3>1. k <= M!Behind(r)
      BY <1>1, <1>2, <2>1, WalkFacts, ListFacts DEF M!Route
    <3> QED BY <3>1
  <2>2. CASE ~(k <= walk.at)
    <3>1. k \in walk.at + 1 .. Len(open)
      BY <1>2, <2>2
    <3> QED BY <1>1, <3>1
  <2> QED BY <2>1, <2>2
<1> QED BY <1>1, <1>2, <1>3, WalkEnds

LEMMA EndWalkStep ==
  ASSUME ChannelsInv, M!EndWalk PROVE ChannelsInv'
<1>1. /\ walk # M!Idle /\ walk.phase # "listeners" /\ walk.at >= Len(open) /\ walk' = M!Idle
      /\ UNCHANGED <<held, other, open, closed, timers, posts, got, missed>>
  BY DEF M!EndWalk
<1>2. \A r \in M!Route : \A k \in 1 .. Len(open) : k <= M!Behind(r)
  BY <1>1, WalkFacts, ListFacts DEF M!Route
<1> QED BY <1>1, <1>2, WalkEnds

LEMMA ChannelsStay == ChannelsInv /\ UNCHANGED M!vars => ChannelsInv'
<1> SUFFICES ASSUME ChannelsInv, UNCHANGED M!vars PROVE ChannelsInv'
  OBVIOUS
<1>1. UNCHANGED <<held, other, open, closed, timers, walk, posts, got, missed>>
  BY DEF M!vars
<1>2. PostsFit' /\ TimersFit' /\ WalkFits' /\ OpenFits'
  BY <1>1 DEF ChannelsInv, PostsFit, TimersFit, WalkFits, OpenFits
<1>3. \A e \in M!Ear : Visited(e) => Visited(e)'
  BY <1>1 DEF Visited, M!Behind
<1>4. GotFits' /\ \A e \in M!Ear, n \in Nat : Heard(e, n) => Heard(e, n)'
  <2>1. \A e \in M!Ear : \A i \in 1 .. Len(got[e]) : Fit(e, got[e][i])'
    BY <1>1, <1>3, FitStays DEF ChannelsInv, GotFits
  <2> QED BY <1>1, <2>1, GotStays
<1>5. VisitedHeard' /\ SenderMovedUp'
  BY <1>1 DEF ChannelsInv, VisitedHeard, SenderMovedUp, Heard, M!Behind
<1>6. AllArrive'
  BY <1>1, <1>4, AllStay DEF M!There
<1> QED BY <1>1, <1>2, <1>4, <1>5, <1>6 DEF ChannelsInv

LEMMA ChannelsStep == ChannelsInv /\ [M!Next]_(M!vars) => ChannelsInv'
<1> SUFFICES ASSUME ChannelsInv, [M!Next]_(M!vars) PROVE ChannelsInv'
  OBVIOUS
<1>1. ASSUME NEW p \in Port, M!PostToPort(p) PROVE ChannelsInv'
  <2>1. M!Post(p, other[p]) /\ other[p] \in Port /\ other[p] # p
    BY <1>1 DEF M!PostToPort, ChannelsInv
  <2> QED BY <2>1, PostStep DEF M!End
<1>2. ASSUME NEW c \in Channel, M!PostToAll(c) PROVE ChannelsInv'
  <2>1. M!Post(c, c) /\ c \notin Port
    BY <1>2, ChannelsAssumption DEF M!PostToAll
  <2> QED BY <2>1, PostStep DEF M!End
<1> QED BY <1>1, <1>2, ChangeStep, ClosePortStep, OpenChannelStep, CloseChannelStep,
           DeliverToPortStep, StartWalkStep, WalkStep, CallStep, ThrowStep, EndWalkStep,
           ChannelsStay DEF M!Next

LEMMA ChannelsFit == ChannelsInv => M!TypeOK /\ M!HeardInOrderOnce /\ M!HeardByAll
<1> SUFFICES ASSUME ChannelsInv PROVE M!TypeOK /\ M!HeardInOrderOnce /\ M!HeardByAll
  OBVIOUS
<1>1. got \in [M!Ear -> Seq(M!Message)] /\ \A e \in M!Ear : DOMAIN got[e] = 1 .. Len(got[e])
  BY DEF ChannelsInv, GotFits
<1>2. DOMAIN posts = 1 .. Len(posts) /\ Len(posts) \in Nat
  BY DEF ChannelsInv, PostsFit
<1>3. M!TypeOK
  <2>1. walk.n \in 0 .. Len(posts) /\ walk.at \in Nat /\ walk.phase \in M!Route \cup {"next"}
    BY <1>2, WalkFacts DEF Phase
  <2> QED BY <1>1, <2>1 DEF ChannelsInv, OpenFits, M!TypeOK
<1>4. M!HeardInOrderOnce
  <2>1. ASSUME NEW e \in M!Ear
        PROVE  /\ \A i, j \in 1 .. Len(got[e]) : i < j => got[e][i].n < got[e][j].n
               /\ \A i \in 1 .. Len(got[e]) :
                    /\ got[e][i].value = posts[got[e][i].n].value
                    /\ Excused(e, got[e][i].n)
    BY DEF ChannelsInv, GotFits, Fit
  <2> QED BY <1>1, <2>1, Zenon DEF M!HeardInOrderOnce, Excused
<1>5. M!HeardByAll
  <2>1. \A e \in M!Ear, n \in 1 .. Len(posts) : Heard(e, n) <=> \E i \in DOMAIN got[e] : got[e][i].n = n
    BY <1>1 DEF Heard
  <2>2. \A n \in 1 .. Len(posts) : M!OtherEars(posts[n].from) \subseteq M!Ear
    BY DEF M!OtherEars, M!Ear
  <2> QED BY <1>2, <2>1, <2>2 DEF ChannelsInv, AllArrive, Arrived, M!HeardByAll
<1> QED BY <1>3, <1>4, <1>5

(***************************************************************************)
(* For any channels, ports and number of messages: everybody hears what    *)
(* was posted in order, once, as it was then, and a message that is no     *)
(* longer on its way was heard, by listeners and by onmessage, by all who  *)
(* were there for it and still are, whatever scripts open, close and post  *)
(* meanwhile; those passed over, cut off or late are named one by one.     *)
(***************************************************************************)
THEOREM EverybodyHears == M!Spec => [](M!HeardInOrderOnce /\ M!HeardByAll)
BY ChannelsInit, ChannelsStep, ChannelsFit, PTL DEF M!Spec

-----------------------------------------------------------------------------
(* What is in a list, and that a listener is in it at most once. *)
Of(q) == {q[i] : i \in 1 .. Len(q)}
Single(q, w) == \A i, j \in 1 .. Len(q) : q[i].who = w /\ q[j].who = w => i = j

LEMMA EmptyOf == Of(<<>>) = {} /\ \A w : Single(<<>>, w)
BY DEF Of, Single

LEMMA AppendOf ==
  ASSUME NEW S, NEW q \in Seq(S), NEW x \in S
  PROVE  /\ Append(q, x) \in Seq(S) /\ Of(Append(q, x)) = Of(q) \cup {x}
         /\ \A w : Single(q, w) /\ x.who # w => Single(Append(q, x), w)
         /\ \A w : (\A y \in Of(q) : y.who # w) => Single(Append(q, x), w)
<1>1. /\ Append(q, x) \in Seq(S) /\ Len(q) \in Nat /\ Len(Append(q, x)) = Len(q) + 1
      /\ Append(q, x)[Len(q) + 1] = x
      /\ \A i \in 1 .. Len(q) : Append(q, x)[i] = q[i]
  OBVIOUS
<1> DEFINE r == Append(q, x)
           n == Len(q)
<1>2. /\ r \in Seq(S) /\ n \in Nat /\ Len(r) = n + 1 /\ r[n + 1] = x
      /\ \A i \in 1 .. n : r[i] = q[i]
  BY <1>1
<1> HIDE DEF r
<1>3. Of(r) = Of(q) \cup {x}
  <2>1. ASSUME NEW y \in Of(r) PROVE y \in Of(q) \cup {x}
    <3>1. PICK i \in 1 .. Len(r) : y = r[i]
      BY <2>1 DEF Of
    <3>2. i \in 1 .. n \/ i = n + 1
      BY <1>2, <3>1
    <3> QED BY <1>2, <3>1, <3>2 DEF Of
  <2>2. x \in Of(r)
    <3>1. n + 1 \in 1 .. Len(r)
      BY <1>2
    <3> QED BY <1>2, <3>1 DEF Of
  <2>3. ASSUME NEW i \in 1 .. n PROVE q[i] \in Of(r)
    <3>1. i \in 1 .. Len(r)
      BY <1>2
    <3> QED BY <1>2, <3>1 DEF Of
  <2> QED BY <2>1, <2>2, <2>3 DEF Of
<1>4. ASSUME NEW w, Single(q, w), x.who # w PROVE Single(r, w)
  <2>1. \A i \in 1 .. Len(r) : r[i].who = w => i \in 1 .. n
    BY <1>2, <1>4
  <2> QED BY <1>2, <1>4, <2>1 DEF Single
<1>5. ASSUME NEW w, \A y \in Of(q) : y.who # w PROVE Single(r, w)
  <2>1. \A i \in 1 .. n : q[i].who # w
    BY <1>5 DEF Of
  <2>2. \A i \in 1 .. Len(r) : r[i].who = w => i = n + 1
    BY <1>2, <2>1
  <2> QED BY <2>2 DEF Single
<1> QED BY <1>2, <1>3, <1>4, <1>5 DEF r

LEMMA HeadOf ==
  ASSUME NEW S, NEW q \in Seq(S), q # <<>>
  PROVE  /\ Head(q) \in S /\ Tail(q) \in Seq(S) /\ Of(q) = {Head(q)} \cup Of(Tail(q))
         /\ Head(q) = q[1] /\ Len(Tail(q)) = Len(q) - 1 /\ Len(q) \in Nat \ {0}
         /\ \A i \in 1 .. Len(q) - 1 : Tail(q)[i] = q[i + 1]
<1>1. Len(q) \in Nat \ {0} /\ Head(q) = q[1] /\ Head(q) \in S
  BY EmptySeq
<1>2. /\ Tail(q) \in Seq(S) /\ Len(Tail(q)) = Len(q) - 1
      /\ \A i \in 1 .. Len(q) - 1 : Tail(q)[i] = q[i + 1]
  BY <1>1
<1> DEFINE t == Tail(q)
           n == Len(q)
<1>3. t \in Seq(S) /\ n \in Nat \ {0} /\ Len(t) = n - 1 /\ \A i \in 1 .. n - 1 : t[i] = q[i + 1]
  BY <1>1, <1>2
<1> HIDE DEF t
<1>4. Of(q) \subseteq {q[1]} \cup Of(t)
  <2>1. ASSUME NEW i \in 1 .. n PROVE q[i] \in {q[1]} \cup Of(t)
    <3>1. CASE i # 1
      <4>1. i - 1 \in 1 .. Len(t) /\ t[i - 1] = q[i]
        BY <1>3, <3>1
      <4> QED BY <4>1 DEF Of
    <3> QED BY <3>1
  <2> QED BY <2>1 DEF Of
<1>5. {q[1]} \cup Of(t) \subseteq Of(q)
  <2>1. 1 \in 1 .. n
    BY <1>3
  <2>2. ASSUME NEW i \in 1 .. Len(t) PROVE t[i] \in Of(q)
    <3>1. i + 1 \in 1 .. n /\ t[i] = q[i + 1]
      BY <1>3
    <3> QED BY <3>1 DEF Of
  <2> QED BY <2>1, <2>2 DEF Of
<1> QED BY <1>1, <1>2, <1>4, <1>5 DEF t

LEMMA PushOf ==
  ASSUME NEW S, NEW q \in Seq(S), NEW x \in S
  PROVE  /\ <<x>> \o q \in Seq(S) /\ Of(<<x>> \o q) = {x} \cup Of(q)
         /\ Len(<<x>> \o q) = Len(q) + 1 /\ (<<x>> \o q)[1] = x
         /\ \A i \in 1 .. Len(q) : (<<x>> \o q)[i + 1] = q[i]
<1>1. <<x>> \in Seq(S) /\ Len(<<x>>) = 1 /\ <<x>>[1] = x /\ Len(q) \in Nat
  OBVIOUS
<1> DEFINE r == <<x>> \o q
<1>2. /\ r \in Seq(S) /\ Len(r) = 1 + Len(q)
      /\ \A k \in 1 .. 1 + Len(q) : r[k] = IF k <= 1 THEN <<x>>[k] ELSE q[k - 1]
  BY <1>1, ConcatProperties
<1> HIDE DEF r
<1>3. r[1] = x /\ Len(r) = Len(q) + 1
  <2>1. 1 \in 1 .. 1 + Len(q)
    BY <1>1
  <2> QED BY <1>1, <1>2, <2>1
<1>4. \A i \in 1 .. Len(q) : i + 1 \in 1 .. Len(r) /\ r[i + 1] = q[i]
  <2>1. ASSUME NEW i \in 1 .. Len(q) PROVE i + 1 \in 1 .. Len(r) /\ r[i + 1] = q[i]
    <3>1. i + 1 \in 1 .. 1 + Len(q) /\ ~(i + 1 <= 1) /\ i + 1 - 1 = i
      BY <1>1
    <3> QED BY <1>2, <3>1
  <2> QED BY <2>1
<1>5. Of(r) \subseteq {x} \cup Of(q)
  <2>1. ASSUME NEW k \in 1 .. Len(r) PROVE r[k] \in {x} \cup Of(q)
    <3>1. CASE k # 1
      <4>1. k - 1 \in 1 .. Len(q) /\ ~(k <= 1)
        BY <1>1, <1>2, <3>1
      <4>2. r[k] = q[k - 1]
        BY <1>1, <1>2, <4>1
      <4> QED BY <4>1, <4>2 DEF Of
    <3> QED BY <1>3, <3>1
  <2> QED BY <2>1 DEF Of
<1>6. {x} \cup Of(q) \subseteq Of(r)
  <2>1. 1 \in 1 .. Len(r)
    BY <1>1, <1>2
  <2> QED BY <1>3, <1>4, <2>1 DEF Of
<1> QED BY <1>2, <1>3, <1>4, <1>5, <1>6 DEF r

(* Without one of its places, a list loses nothing else. *)
LEMMA RemovedOf ==
  ASSUME NEW S, NEW q \in Seq(S), NEW at \in 1 .. Len(q)
  PROVE  LET r == A!RemoveAt(q, at) IN
         /\ r \in Seq(S) /\ Of(r) \subseteq Of(q)
         /\ \A y \in Of(q) : y # q[at] => y \in Of(r)
         /\ \A w : Single(q, w) => Single(r, w)
         /\ Single(q, q[at].who) => \A y \in Of(r) : y.who # q[at].who
<1> DEFINE r == A!RemoveAt(q, at)
           n == Len(q)
<1>1. /\ r \in Seq(S) /\ Len(r) = n - 1
      /\ \A k \in 1 .. n - 1 : r[k] = IF k < at THEN q[k] ELSE q[k + 1]
  BY Removed DEF A!RemoveAt
<1>2. n \in Nat /\ at \in 1 .. n
  OBVIOUS
<1> HIDE DEF r
<1>3. \A k \in 1 .. Len(r) : \E i \in 1 .. n : r[k] = q[i] /\ i = (IF k < at THEN k ELSE k + 1)
  <2>1. ASSUME NEW k \in 1 .. Len(r) PROVE \E i \in 1 .. n : r[k] = q[i] /\ i = (IF k < at THEN k ELSE k + 1)
    <3>1. k \in 1 .. n - 1 /\ k \in 1 .. n /\ k + 1 \in 1 .. n
      BY <1>1, <1>2
    <3> QED BY <1>1, <3>1
  <2> QED BY <2>1
<1>4. Of(r) \subseteq Of(q)
  BY <1>3 DEF Of
<1>5. ASSUME NEW i \in 1 .. n, i # at PROVE q[i] \in Of(r)
  <2>1. CASE i < at
    <3>1. i \in 1 .. n - 1 /\ i \in 1 .. Len(r)
      BY <1>1, <1>2, <2>1
    <3>2. r[i] = q[i]
      BY <1>1, <2>1, <3>1
    <3> QED BY <3>1, <3>2 DEF Of
  <2>2. CASE i > at
    <3>1. i - 1 \in 1 .. n - 1 /\ i - 1 \in 1 .. Len(r) /\ ~(i - 1 < at) /\ (i - 1) + 1 = i
      BY <1>1, <1>2, <2>2
    <3>2. r[i - 1] = q[i]
      BY <1>1, <3>1
    <3> QED BY <3>1, <3>2 DEF Of
  <2> QED BY <1>2, <1>5, <2>1, <2>2
<1>6. ASSUME NEW w, Single(q, w) PROVE Single(r, w)
  <2>1. ASSUME NEW k \in 1 .. Len(r), NEW m \in 1 .. Len(r), r[k].who = w, r[m].who = w
        PROVE  k = m
    <3>1. PICK i \in 1 .. n : r[k] = q[i] /\ i = (IF k < at THEN k ELSE k + 1)
      BY <1>3
    <3>2. PICK j \in 1 .. n : r[m] = q[j] /\ j = (IF m < at THEN m ELSE m + 1)
      BY <1>3
    <3>3. i = j
      BY <1>6, <2>1, <3>1, <3>2 DEF Single
    <3>4. k \in Nat /\ m \in Nat /\ at \in Nat
      BY <1>1, <1>2
    <3> QED BY <3>1, <3>2, <3>3, <3>4
  <2> QED BY <2>1 DEF Single
<1>7. ASSUME Single(q, q[at].who), NEW y \in Of(r) PROVE y.who # q[at].who
  <2>1. PICK k \in 1 .. Len(r) : y = r[k]
    BY <1>7 DEF Of
  <2>2. PICK i \in 1 .. n : r[k] = q[i] /\ i = (IF k < at THEN k ELSE k + 1)
    BY <1>3
  <2>3. i # at
    BY <1>1, <1>2, <2>2
  <2> QED BY <1>2, <1>7, <2>1, <2>2, <2>3 DEF Single
<1> QED BY <1>1, <1>4, <1>5, <1>6, <1>7 DEF r, Of

(* Where a listener comes first, it is removed. *)
LEMMA WithoutOf ==
  ASSUME NEW S, NEW q \in Seq(S), NEW w
  PROVE  LET r == A!Without(q, w) IN
         /\ r \in Seq(S) /\ Of(r) \subseteq Of(q)
         /\ \A y \in Of(q) : y.who # w => y \in Of(r)
         /\ \A v : Single(q, v) => Single(r, v)
         /\ Single(q, w) => \A y \in Of(r) : y.who # w
<1> DEFINE at == {i \in DOMAIN q : q[i].who = w}
<1>1. DOMAIN q = 1 .. Len(q) /\ Len(q) \in Nat
  OBVIOUS
<1>2. CASE at = {}
  <2>1. A!Without(q, w) = q
    BY <1>2 DEF A!Without
  <2>2. \A y \in Of(q) : y.who # w
    BY <1>1, <1>2 DEF Of
  <2> QED BY <2>1, <2>2
<1>3. CASE at # {}
  <2>1. PICK i : i \in at /\ i = CHOOSE k \in at : \A j \in at : k <= j
    <3>1. at \subseteq Nat /\ IsFiniteSet(at)
      <4>1. IsFiniteSet(1 .. Len(q))
        BY <1>1, FS_Interval
      <4> QED BY <1>1, <4>1, FS_Subset
    <3> QED BY <1>3, <3>1, Smallest
  <2>2. A!Without(q, w) = A!RemoveAt(q, i)
    BY <1>3, <2>1 DEF A!Without
  <2>3. i \in 1 .. Len(q) /\ q[i].who = w
    BY <1>1, <2>1
  <2> HIDE DEF at
  <2> QED BY <2>2, <2>3, RemovedOf
<1> QED BY <1>2, <1>3

-----------------------------------------------------------------------------
Entries == [who : A!Listener, once : BOOLEAN]
Frames == [target : A!Target, rest : Seq(Entries), reason : Signal \cup {NoReason}]

Listens(t, w) == \E e \in Of(listeners[t]) : e.who = w

(* A dispatch that runs has yet to call that listener of that target. *)
Pending(t, w) == \E d \in Of(dispatches) : d.target = t /\ \E e \in Of(d.rest) : e.who = w

SignalTypes ==
  /\ abortedFor \in [A!Aborting -> Signal \cup {NoReason}]
  /\ listeners \in [A!Target -> Seq(Entries)]
  /\ dispatches \in Seq(Frames)
  /\ combined \subseteq Signal
  /\ fetches \in [Fetch -> [is : {"unused", "waiting"} \cup A!Answered, on : A!Aborting]]

(* A dispatch of a signal runs for the reason it was aborted for; whoever  *)
(* it has yet to call is the combined signal, or a fetch of that signal.   *)
FramesFit ==
  \A d \in Of(dispatches) :
    /\ d.target \in A!Aborting => d.reason = abortedFor[d.target] /\ d.reason # NoReason
    /\ \A e \in Of(d.rest) :
         /\ e.who = "any" => d.target \in combined
         /\ e.who \in Fetch => e.once /\ d.target = fetches[e.who].on

(* Only a fetch that waits listens, once, and only to its signal. *)
ListenersFit ==
  \A t \in A!Target :
    /\ \A e \in Of(listeners[t]) :
         /\ e.who = "any" => t \in combined
         /\ e.who \in Fetch => /\ e.once /\ t = fetches[e.who].on
                               /\ fetches[e.who].is = "waiting"
    /\ \A f \in Fetch : Single(listeners[t], f)

(* A fetch that waits listens; when its signal is aborted, it is about to  *)
(* be called, or somebody before it threw.                                 *)
FetchesFit ==
  \A f \in Fetch : fetches[f].is = "waiting" =>
    /\ Listens(fetches[f].on, f)
    /\ \/ abortedFor[fetches[f].on] = NoReason
       \/ fetches[f].on \in broke
       \/ Pending(fetches[f].on, f)

(* The same for the combined signal, which is aborted for the reason of    *)
(* one of its signals.                                                     *)
AnyFits ==
  /\ \A s \in combined :
       IF abortedFor[s] = NoReason THEN Listens(s, "any")
       ELSE s \in broke \/ abortedFor[Composite] # NoReason \/ Pending(s, "any")
  /\ abortedFor[Composite] # NoReason =>
       \E s \in combined : abortedFor[s] = abortedFor[Composite]

SignalsInv == SignalTypes /\ FramesFit /\ ListenersFit /\ FetchesFit /\ AnyFits

-----------------------------------------------------------------------------
(* What every step does but those that start a fetch or combine signals,   *)
(* where w is who was called, or whose fetch was answered.                 *)
Matters(w) == w = "any" \/ w \in Fetch

ListsGoOn(w) ==
  \A t \in A!Target :
    /\ \A e \in Of(listeners'[t]) : e \in Of(listeners[t]) \/ ~Matters(e.who)
    /\ \A e \in Of(listeners[t]) :
         Matters(e.who) /\ (e.who = w => w = "any" /\ abortedFor[t] = NoReason) => e \in Of(listeners'[t])
    /\ \A f \in Fetch : Single(listeners[t], f) => Single(listeners'[t], f)
    /\ w \in Fetch => \A e \in Of(listeners'[t]) : e.who # w

Follows(d, d0) == /\ d.target = d0.target /\ d.reason = d0.reason
                  /\ Of(d.rest) \subseteq Of(d0.rest)

DispatchesGoOn(w) ==
  /\ \A d \in Of(dispatches') :
       \/ \E d0 \in Of(dispatches) : Follows(d, d0)
       \/ /\ d.target \in A!Target /\ d.rest = listeners[d.target]
          /\ d.target \in A!Aborting => d.reason = abortedFor'[d.target] /\ d.reason # NoReason
  /\ \A d0 \in Of(dispatches) : d0.target \in A!Aborting /\ Of(d0.rest) # {} =>
       \/ d0.target \in broke'
       \/ \E d \in Of(dispatches') :
            d.target = d0.target /\ \A e \in Of(d0.rest) : e.who # w => e \in Of(d.rest)
  /\ \A t \in A!Aborting : abortedFor[t] = NoReason /\ abortedFor'[t] # NoReason =>
       \E d \in Of(dispatches') : d.target = t /\ d.rest = listeners[t]

AbortsGoOn(w) ==
  /\ \A t \in A!Aborting : abortedFor'[t] = abortedFor[t] \/ abortedFor[t] = NoReason
  /\ w = "any" => abortedFor'[Composite] # NoReason
  /\ abortedFor'[Composite] # NoReason =>
       \/ abortedFor'[Composite] = abortedFor[Composite]
       \/ \E s \in combined : abortedFor[s] = abortedFor'[Composite]

FetchesGoOn(w) ==
  \A f \in Fetch :
    /\ fetches'[f].on = fetches[f].on
    /\ fetches'[f].is = "waiting" <=> fetches[f].is = "waiting" /\ f # w

GoesOn(w) ==
  /\ ListsGoOn(w) /\ DispatchesGoOn(w) /\ AbortsGoOn(w) /\ FetchesGoOn(w)
  /\ combined' = combined /\ broke \subseteq broke'

LEMMA SignalsGoOn ==
  ASSUME SignalsInv, SignalTypes', NEW w, GoesOn(w) PROVE SignalsInv'
<1>1. SignalTypes /\ combined' = combined /\ broke \subseteq broke'
  BY DEF SignalsInv, GoesOn
<1>2. Composite \in A!Aborting /\ combined \subseteq A!Aborting /\ A!Aborting \subseteq A!Target
  BY <1>1 DEF SignalTypes, A!Aborting, A!Target
<1>3. \A f \in Fetch : fetches[f].on \in A!Aborting
  BY <1>1 DEF SignalTypes
<1>4. FramesFit'
  <2>1. ASSUME NEW d \in Of(dispatches')
        PROVE  /\ d.target \in A!Aborting => d.reason = abortedFor'[d.target] /\ d.reason # NoReason
               /\ \A e \in Of(d.rest) :
                    /\ e.who = "any" => d.target \in combined
                    /\ e.who \in Fetch => e.once /\ d.target = fetches[e.who].on
    <3>1. CASE \E d0 \in Of(dispatches) : Follows(d, d0)
      <4>1. PICK d0 \in Of(dispatches) : Follows(d, d0)
        BY <3>1
      <4> QED BY <4>1 DEF SignalsInv, FramesFit, Follows, GoesOn, AbortsGoOn
    <3>2. CASE /\ d.target \in A!Target /\ d.rest = listeners[d.target]
               /\ d.target \in A!Aborting => d.reason = abortedFor'[d.target] /\ d.reason # NoReason
      BY <3>2 DEF SignalsInv, ListenersFit
    <3> QED BY <3>1, <3>2 DEF GoesOn, DispatchesGoOn
  <2>2. ASSUME NEW d \in Of(dispatches'), NEW e \in Of(d.rest), e.who \in Fetch
        PROVE  d.target = fetches'[e.who].on
    BY <2>1, <2>2 DEF GoesOn, FetchesGoOn
  <2>3. Of(dispatches') = Of(dispatches)'
    BY DEF Of
  <2> QED BY <1>1, <2>1, <2>2, <2>3 DEF FramesFit
<1>5. ListenersFit'
  <2>1. ASSUME NEW t \in A!Target, NEW e \in Of(listeners'[t])
        PROVE  /\ e.who = "any" => t \in combined
               /\ e.who \in Fetch => /\ e.once /\ t = fetches'[e.who].on
                                     /\ fetches'[e.who].is = "waiting"
    <3>1. e \in Of(listeners[t]) \/ ~Matters(e.who)
      BY DEF GoesOn, ListsGoOn
    <3>2. e.who \in Fetch => e.who # w
      BY DEF GoesOn, ListsGoOn
    <3> QED BY <3>1, <3>2 DEF Matters, SignalsInv, ListenersFit, GoesOn, FetchesGoOn
  <2>2. \A t \in A!Target : \A f \in Fetch : Single(listeners'[t], f)
    BY DEF GoesOn, ListsGoOn, SignalsInv, ListenersFit
  <2>3. ASSUME NEW t \in A!Target
        PROVE  Of(listeners'[t]) = Of(listeners[t])' /\ \A f \in Fetch : Single(listeners'[t], f) = Single(listeners[t], f)'
    BY DEF Of, Single
  <2> QED BY <1>1, <2>1, <2>2, <2>3 DEF ListenersFit
<1>6. \A t \in A!Target : \A v : Matters(v) /\ v # w /\ Listens(t, v) => \E e \in Of(listeners'[t]) : e.who = v
  BY DEF GoesOn, ListsGoOn, Listens
<1>7. \A t \in A!Aborting : \A v : Pending(t, v) /\ v # w /\ t \notin broke' =>
        \E d \in Of(dispatches') : d.target = t /\ \E e \in Of(d.rest) : e.who = v
  BY DEF GoesOn, DispatchesGoOn, Pending
<1>8. \A t \in A!Aborting : \A v : Listens(t, v) /\ abortedFor[t] = NoReason /\ abortedFor'[t] # NoReason =>
        \E d \in Of(dispatches') : d.target = t /\ \E e \in Of(d.rest) : e.who = v
  BY DEF GoesOn, DispatchesGoOn, Listens
<1>9. FetchesFit'
  <2>1. ASSUME NEW f \in Fetch, fetches'[f].is = "waiting"
        PROVE  /\ \E e \in Of(listeners'[fetches'[f].on]) : e.who = f
               /\ \/ abortedFor'[fetches'[f].on] = NoReason
                  \/ fetches'[f].on \in broke'
                  \/ \E d \in Of(dispatches') : d.target = fetches'[f].on /\ \E e \in Of(d.rest) : e.who = f
    <3>1. fetches'[f].on = fetches[f].on /\ fetches[f].is = "waiting" /\ f # w
      BY <2>1 DEF GoesOn, FetchesGoOn
    <3> DEFINE on == fetches[f].on
    <3>2. /\ Listens(on, f)
          /\ abortedFor[on] = NoReason \/ on \in broke \/ Pending(on, f)
      BY <3>1 DEF SignalsInv, FetchesFit
    <3>3. on \in A!Aborting /\ on \in A!Target /\ Matters(f)
      BY <1>2, <1>3 DEF Matters
    <3>4. abortedFor'[on] = abortedFor[on] \/ abortedFor[on] = NoReason
      BY <3>3 DEF GoesOn, AbortsGoOn
    <3> HIDE DEF on
    <3>5. \E e \in Of(listeners'[on]) : e.who = f
      BY <1>6, <3>1, <3>2, <3>3
    <3>6. \/ abortedFor'[on] = NoReason \/ on \in broke'
          \/ \E d \in Of(dispatches') : d.target = on /\ \E e \in Of(d.rest) : e.who = f
      BY <1>1, <1>7, <1>8, <3>1, <3>2, <3>3, <3>4
    <3> QED BY <3>1, <3>5, <3>6 DEF on
  <2>2. Of(dispatches') = Of(dispatches)'
    BY DEF Of
  <2>3. \A f \in Fetch : Of(listeners'[fetches'[f].on]) = Of(listeners[fetches[f].on])'
    BY DEF Of
  <2> QED BY <2>1, <2>2, <2>3 DEF FetchesFit, Listens, Pending
<1>10. AnyFits'
  <2>1. ASSUME NEW s \in combined
        PROVE  IF abortedFor'[s] = NoReason THEN \E e \in Of(listeners'[s]) : e.who = "any"
               ELSE \/ s \in broke' \/ abortedFor'[Composite] # NoReason
                    \/ \E d \in Of(dispatches') : d.target = s /\ \E e \in Of(d.rest) : e.who = "any"
    <3>1. IF abortedFor[s] = NoReason THEN Listens(s, "any")
          ELSE s \in broke \/ abortedFor[Composite] # NoReason \/ Pending(s, "any")
      BY DEF SignalsInv, AnyFits
    <3>2. s \in A!Aborting /\ s \in A!Target /\ Matters("any")
      BY <1>2 DEF Matters
    <3>3. /\ abortedFor'[s] = abortedFor[s] \/ abortedFor[s] = NoReason
          /\ abortedFor'[Composite] = abortedFor[Composite] \/ abortedFor[Composite] = NoReason
          /\ w = "any" => abortedFor'[Composite] # NoReason
      BY <1>2, <3>2 DEF GoesOn, AbortsGoOn
    <3>4. CASE w # "any"
      BY <1>1, <1>6, <1>7, <1>8, <3>1, <3>2, <3>3, <3>4
    <3>5. CASE w = "any"
      <4>1. abortedFor[s] = NoReason => \E e \in Of(listeners'[s]) : e.who = "any"
        <5>1. \A e \in Of(listeners[s]) :
                e.who = "any" /\ abortedFor[s] = NoReason => e \in Of(listeners'[s])
          BY <3>2, <3>5 DEF GoesOn, ListsGoOn
        <5> QED BY <3>1, <5>1 DEF Listens
      <4> QED BY <3>3, <3>5, <4>1
    <3> QED BY <3>4, <3>5
  <2>2. ASSUME abortedFor'[Composite] # NoReason
        PROVE  \E s \in combined : abortedFor'[s] = abortedFor'[Composite]
    <3>1. CASE abortedFor'[Composite] = abortedFor[Composite]
      <4>1. PICK s \in combined : abortedFor[s] = abortedFor[Composite]
        BY <2>2, <3>1 DEF SignalsInv, AnyFits
      <4>2. abortedFor'[s] = abortedFor[s] \/ abortedFor[s] = NoReason
        BY <1>2 DEF GoesOn, AbortsGoOn
      <4> QED BY <2>2, <3>1, <4>1, <4>2
    <3>2. CASE abortedFor'[Composite] # abortedFor[Composite]
      <4>1. PICK s \in combined : abortedFor[s] = abortedFor'[Composite]
        BY <2>2, <3>2 DEF GoesOn, AbortsGoOn
      <4>2. abortedFor'[s] = abortedFor[s] \/ abortedFor[s] = NoReason
        BY <1>2 DEF GoesOn, AbortsGoOn
      <4> QED BY <2>2, <4>1, <4>2
    <3> QED BY <3>1, <3>2
  <2>3. /\ Of(dispatches') = Of(dispatches)'
        /\ \A s \in combined : Of(listeners'[s]) = Of(listeners[s])'
    BY DEF Of
  <2> QED BY <1>1, <2>1, <2>2, <2>3 DEF AnyFits, Listens, Pending
<1> QED BY <1>4, <1>5, <1>9, <1>10 DEF SignalsInv

(* An abort, the first time: the dispatch is put on top. *)
LEMMA AbortMeans ==
  ASSUME SignalTypes, NEW s \in A!Aborting, NEW r \in Signal, NEW below \in Seq(Frames),
         A!Abort(s, r, below)
  PROVE  /\ abortedFor' \in [A!Aborting -> Signal \cup {NoReason}]
         /\ dispatches' \in Seq(Frames)
         /\ \A t \in A!Aborting :
              abortedFor'[t] = IF t = s /\ abortedFor[s] = NoReason THEN r ELSE abortedFor[t]
         /\ abortedFor[s] # NoReason => Of(dispatches') = Of(below)
         /\ abortedFor[s] = NoReason =>
              Of(dispatches') = {[target |-> s, rest |-> listeners[s], reason |-> r]} \cup Of(below)
<1> DEFINE f == [target |-> s, rest |-> listeners[s], reason |-> r]
<1>1. f \in Frames
  BY DEF SignalTypes, Frames, A!Target
<1>2. CASE abortedFor[s] # NoReason
  BY <1>2 DEF A!Abort, SignalTypes
<1>3. CASE abortedFor[s] = NoReason
  <2>1. dispatches' = <<f>> \o below /\ abortedFor' = [abortedFor EXCEPT ![s] = r]
    BY <1>3 DEF A!Abort, A!Frame
  <2> HIDE DEF f
  <2>2. <<f>> \o below \in Seq(Frames) /\ Of(<<f>> \o below) = {f} \cup Of(below)
    BY <1>1, PushOf
  <2>3. abortedFor' \in [A!Aborting -> Signal \cup {NoReason}]
    BY <2>1 DEF SignalTypes
  <2>4. \A t \in A!Aborting : abortedFor'[t] = IF t = s THEN r ELSE abortedFor[t]
    BY <2>1 DEF SignalTypes
  <2> QED BY <1>3, <2>1, <2>2, <2>3, <2>4 DEF f
<1> QED BY <1>2, <1>3

(* A step that leaves the signals, the lists, the dispatches or the        *)
(* fetches alone.                                                          *)
LEMMA ListsAlone ==
  ASSUME SignalTypes, listeners' = listeners, NEW w, w \notin Fetch PROVE ListsGoOn(w)
BY DEF ListsGoOn

LEMMA AbortsAlone ==
  ASSUME abortedFor' = abortedFor, NEW w, w # "any" PROVE AbortsGoOn(w)
BY DEF AbortsGoOn

LEMMA FetchesAlone ==
  ASSUME fetches' = fetches, NEW w, w \notin Fetch PROVE FetchesGoOn(w)
BY DEF FetchesGoOn

LEMMA DispatchesAlone ==
  ASSUME dispatches' = dispatches, abortedFor' = abortedFor, NEW w PROVE DispatchesGoOn(w)
BY DEF DispatchesGoOn, Follows

LEMMA UsersDoNotMatter ==
  /\ \A u \in A!User : u \notin Fetch /\ u # "any" /\ ~Matters(u) /\ u \in A!Listener
  /\ "any" \notin Fetch
BY SignalsAssumption DEF A!User, A!Listener, Matters

LEMMA NoDispatches ==
  ASSUME SignalTypes, dispatches = <<>> PROVE Of(dispatches) = {} /\ <<>> \in Seq(Frames) /\ Of(<<>>) = {}
BY EmptyOf

LEMMA AddListenerStep ==
  ASSUME SignalsInv, NEW t \in Signal \cup {Plain}, NEW u \in A!User, NEW once \in BOOLEAN,
         A!AddListener(t, u, once)
  PROVE  SignalsInv'
<1> DEFINE e == [who |-> u, once |-> once]
<1>1. /\ UNCHANGED <<abortedFor, dispatches, combined, fetches, broke>>
      /\ listeners' = [listeners EXCEPT ![t] = Append(listeners[t], e)]
  BY DEF A!AddListener, A!Listen, A!Entry
<1>2. SignalTypes /\ t \in A!Target /\ listeners[t] \in Seq(Entries)
  BY DEF SignalsInv, SignalTypes, A!Target, A!Aborting
<1>3. e \in Entries
  BY UsersDoNotMatter DEF Entries
<1>4. e.who = u
  OBVIOUS
<1> HIDE DEF e
<1>5. /\ Append(listeners[t], e) \in Seq(Entries) /\ Of(Append(listeners[t], e)) = Of(listeners[t]) \cup {e}
      /\ \A w : Single(listeners[t], w) /\ e.who # w => Single(Append(listeners[t], e), w)
  BY <1>2, <1>3, AppendOf
<1>6. listeners' \in [A!Target -> Seq(Entries)]
  BY <1>1, <1>2, <1>5 DEF SignalTypes
<1>7. listeners'[t] = Append(listeners[t], e) /\ \A x \in A!Target : x # t => listeners'[x] = listeners[x]
  BY <1>1, <1>2 DEF SignalTypes
<1>8. ListsGoOn(u)
  <2>1. ASSUME NEW x \in A!Target
        PROVE  /\ \A y \in Of(listeners'[x]) : y \in Of(listeners[x]) \/ ~Matters(y.who)
               /\ \A y \in Of(listeners[x]) : y \in Of(listeners'[x])
               /\ \A f \in Fetch : Single(listeners[x], f) => Single(listeners'[x], f)
    <3>1. CASE x = t
      BY <1>4, <1>5, <1>7, <3>1, UsersDoNotMatter
    <3> QED BY <1>7, <3>1
  <2> QED BY <2>1, UsersDoNotMatter DEF ListsGoOn
<1>9. SignalTypes'
  BY <1>1, <1>2, <1>6 DEF SignalTypes
<1>10. GoesOn(u)
  BY <1>1, <1>8, AbortsAlone, FetchesAlone, DispatchesAlone, UsersDoNotMatter DEF GoesOn
<1> QED BY <1>9, <1>10, SignalsGoOn

(* A listener leaves one list. *)
LEMMA ListWithout ==
  ASSUME SignalTypes, NEW t \in A!Target, NEW w, listeners' = [listeners EXCEPT ![t] = A!Without(listeners[t], w)]
  PROVE  /\ listeners' \in [A!Target -> Seq(Entries)]
         /\ \A x \in A!Target :
              /\ Of(listeners'[x]) \subseteq Of(listeners[x])
              /\ \A y \in Of(listeners[x]) : y.who # w \/ x # t => y \in Of(listeners'[x])
              /\ \A v : Single(listeners[x], v) => Single(listeners'[x], v)
         /\ Single(listeners[t], w) => \A y \in Of(listeners'[t]) : y.who # w
<1>1. listeners[t] \in Seq(Entries) /\ listeners \in [A!Target -> Seq(Entries)]
  BY DEF SignalTypes
<1>2. PICK r : /\ r = A!Without(listeners[t], w)
               /\ r \in Seq(Entries) /\ Of(r) \subseteq Of(listeners[t])
               /\ \A y \in Of(listeners[t]) : y.who # w => y \in Of(r)
               /\ \A v : Single(listeners[t], v) => Single(r, v)
               /\ Single(listeners[t], w) => \A y \in Of(r) : y.who # w
  BY <1>1, WithoutOf
<1>3. listeners' = [listeners EXCEPT ![t] = r]
  BY <1>2
<1>4. listeners'[t] = r /\ \A x \in A!Target : x # t => listeners'[x] = listeners[x]
  BY <1>1, <1>3
<1>5. listeners' \in [A!Target -> Seq(Entries)]
  BY <1>1, <1>2, <1>3
<1>6. ASSUME NEW x \in A!Target
      PROVE  /\ Of(listeners'[x]) \subseteq Of(listeners[x])
             /\ \A y \in Of(listeners[x]) : y.who # w \/ x # t => y \in Of(listeners'[x])
             /\ \A v : Single(listeners[x], v) => Single(listeners'[x], v)
  <2>1. CASE x = t
    BY <1>2, <1>4, <2>1
  <2> QED BY <1>4, <2>1
<1> QED BY <1>2, <1>4, <1>5, <1>6

LEMMA RemoveListenerStep ==
  ASSUME SignalsInv, NEW t \in Signal \cup {Plain}, NEW u \in A!User, A!RemoveListener(t, u)
  PROVE  SignalsInv'
<1>1. /\ UNCHANGED <<abortedFor, dispatches, combined, fetches, broke>>
      /\ listeners' = [listeners EXCEPT ![t] = A!Without(listeners[t], u)]
  BY DEF A!RemoveListener
<1>2. SignalTypes /\ t \in A!Target
  BY DEF SignalsInv, A!Target, A!Aborting
<1>3. /\ listeners' \in [A!Target -> Seq(Entries)]
      /\ \A x \in A!Target :
              /\ Of(listeners'[x]) \subseteq Of(listeners[x])
              /\ \A y \in Of(listeners[x]) : y.who # u \/ x # t => y \in Of(listeners'[x])
              /\ \A v : Single(listeners[x], v) => Single(listeners'[x], v)
  BY <1>1, <1>2, ListWithout
<1>4. ListsGoOn(u)
  BY <1>3, UsersDoNotMatter DEF ListsGoOn
<1>5. SignalTypes'
  BY <1>1, <1>2, <1>3 DEF SignalTypes
<1>6. GoesOn(u)
  BY <1>1, <1>4, AbortsAlone, FetchesAlone, DispatchesAlone, UsersDoNotMatter DEF GoesOn
<1> QED BY <1>5, <1>6, SignalsGoOn

LEMMA ScriptAbortsStep ==
  ASSUME SignalsInv, NEW s \in Signal, A!ScriptAborts(s) PROVE SignalsInv'
<1>1. /\ UNCHANGED <<listeners, combined, fetches, broke>> /\ dispatches = <<>> /\ A!Abort(s, s, <<>>)
  BY DEF A!ScriptAborts
<1>2. SignalTypes /\ s \in A!Aborting /\ s \in A!Target /\ s # Composite /\ s # NoReason
  BY SignalsAssumption DEF SignalsInv, A!Target, A!Aborting
<1>3. Of(dispatches) = {} /\ <<>> \in Seq(Frames) /\ Of(<<>>) = {}
  BY <1>1, <1>2, NoDispatches
<1>4. /\ abortedFor' \in [A!Aborting -> Signal \cup {NoReason}]
      /\ dispatches' \in Seq(Frames)
      /\ \A t \in A!Aborting :
           abortedFor'[t] = IF t = s /\ abortedFor[s] = NoReason THEN s ELSE abortedFor[t]
      /\ abortedFor[s] # NoReason => Of(dispatches') = {}
      /\ abortedFor[s] = NoReason =>
           Of(dispatches') = {[target |-> s, rest |-> listeners[s], reason |-> s]}
  BY <1>1, <1>2, <1>3, AbortMeans
<1>5. DispatchesGoOn("stops")
  <2>1. CASE abortedFor[s] # NoReason
    <3>1. Of(dispatches') = {} /\ \A t \in A!Aborting : abortedFor'[t] = abortedFor[t]
      BY <1>4, <2>1
    <3> QED BY <1>3, <3>1 DEF DispatchesGoOn
  <2>2. CASE abortedFor[s] = NoReason
    <3> DEFINE d == [target |-> s, rest |-> listeners[s], reason |-> s]
    <3>1. /\ Of(dispatches') = {d} /\ abortedFor'[s] = s
          /\ \A t \in A!Aborting : t # s => abortedFor'[t] = abortedFor[t]
      BY <1>2, <1>4, <2>2
    <3>2. d.target = s /\ d.rest = listeners[s] /\ d.reason = s
      OBVIOUS
    <3> HIDE DEF d
    <3> QED BY <1>2, <1>3, <3>1, <3>2 DEF DispatchesGoOn
  <2> QED BY <2>1, <2>2
<1>6. AbortsGoOn("stops")
  <2>1. abortedFor'[Composite] = abortedFor[Composite]
    BY <1>2, <1>4 DEF A!Aborting
  <2> QED BY <1>4, <2>1 DEF AbortsGoOn
<1>7. "stops" \in A!User
  BY DEF A!User
<1>8. GoesOn("stops")
  BY <1>1, <1>2, <1>5, <1>6, <1>7, ListsAlone, FetchesAlone, UsersDoNotMatter DEF GoesOn
<1>9. SignalTypes'
  BY <1>1, <1>2, <1>4 DEF SignalTypes
<1> QED BY <1>8, <1>9, SignalsGoOn

LEMMA DispatchStep ==
  ASSUME SignalsInv, A!Dispatch PROVE SignalsInv'
<1> DEFINE d == [target |-> Plain, rest |-> listeners[Plain], reason |-> NoReason]
<1>1. /\ UNCHANGED <<abortedFor, listeners, combined, fetches, broke>> /\ dispatches = <<>>
      /\ dispatches' = <<d>>
  BY DEF A!Dispatch, A!Frame
<1>2. SignalTypes /\ Plain \in A!Target /\ Plain \notin A!Aborting
  BY SignalsAssumption DEF SignalsInv, A!Target, A!Aborting
<1>3. Of(dispatches) = {}
  BY <1>1, <1>2, NoDispatches
<1>4. d \in Frames /\ d.target = Plain /\ d.rest = listeners[Plain]
  BY <1>2 DEF SignalTypes, Frames
<1> HIDE DEF d
<1>5. dispatches' \in Seq(Frames) /\ Of(dispatches') = {d}
  BY <1>1, <1>4 DEF Of
<1>6. DispatchesGoOn("stops")
  BY <1>1, <1>2, <1>3, <1>4, <1>5 DEF DispatchesGoOn
<1>7. "stops" \in A!User
  BY DEF A!User
<1>8. GoesOn("stops")
  BY <1>1, <1>2, <1>6, <1>7, ListsAlone, AbortsAlone, FetchesAlone, UsersDoNotMatter DEF GoesOn
<1>9. SignalTypes'
  BY <1>1, <1>2, <1>5 DEF SignalTypes
<1> QED BY <1>8, <1>9, SignalsGoOn

LEMMA ReturnsStep ==
  ASSUME SignalsInv, A!Returns PROVE SignalsInv'
<1>1. /\ UNCHANGED <<abortedFor, listeners, combined, fetches, broke>> /\ dispatches # <<>>
      /\ Head(dispatches).rest = <<>> /\ dispatches' = Tail(dispatches)
  BY DEF A!Returns
<1>2. SignalTypes
  BY DEF SignalsInv
<1>3. /\ Tail(dispatches) \in Seq(Frames) /\ Of(dispatches) = {Head(dispatches)} \cup Of(Tail(dispatches))
  BY <1>1, <1>2, HeadOf DEF SignalTypes
<1>4. DispatchesGoOn("stops")
  <2>1. Of(Head(dispatches).rest) = {}
    BY <1>1, EmptyOf
  <2> QED BY <1>1, <1>3, <2>1 DEF DispatchesGoOn, Follows
<1>5. SignalTypes'
  BY <1>1, <1>2, <1>3 DEF SignalTypes
<1>6. "stops" \in A!User
  BY DEF A!User
<1>7. GoesOn("stops")
  BY <1>1, <1>2, <1>4, <1>6, ListsAlone, AbortsAlone, FetchesAlone, UsersDoNotMatter DEF GoesOn
<1> QED BY <1>5, <1>7, SignalsGoOn

-----------------------------------------------------------------------------
(* A listener is called: it leaves the list of the dispatch, and the list  *)
(* of the target if it listens once.                                       *)
LEMMA CallMeans ==
  ASSUME SignalsInv, NEW w, A!Calls(w)
  PROVE  LET h == Head(dispatches)
             nh == [h EXCEPT !.rest = Tail(@)]
         IN /\ dispatches # <<>> /\ h \in Frames /\ h \in Of(dispatches)
            /\ Of(dispatches) = {h} \cup Of(Tail(dispatches)) /\ Tail(dispatches) \in Seq(Frames)
            /\ \E e \in Of(h.rest) : e.who = w /\ Of(h.rest) = {e} \cup Of(nh.rest)
            /\ nh.target = h.target /\ nh.reason = h.reason
            /\ A!After \in Seq(Frames) /\ Of(A!After) = {nh} \cup Of(Tail(dispatches))
            /\ Len(A!After) = Len(dispatches)
            /\ \A j \in 1 .. Len(dispatches) : A!After[j].target = dispatches[j].target
            /\ listeners' \in [A!Target -> Seq(Entries)]
            /\ ListsGoOn(w)
<1> DEFINE h == Head(dispatches)
           nh == [h EXCEPT !.rest = Tail(h.rest)]
           e == Head(h.rest)
<1>1. /\ dispatches # <<>> /\ h.rest # <<>> /\ e.who = w
      /\ listeners' = IF e.once THEN [listeners EXCEPT ![h.target] = A!Without(listeners[h.target], w)]
                      ELSE listeners
  BY DEF A!Calls
<1>2. SignalTypes /\ dispatches \in Seq(Frames)
  BY DEF SignalsInv, SignalTypes
<1>3. /\ h \in Frames /\ Tail(dispatches) \in Seq(Frames)
      /\ Of(dispatches) = {h} \cup Of(Tail(dispatches))
      /\ h = dispatches[1] /\ Len(Tail(dispatches)) = Len(dispatches) - 1
      /\ Len(dispatches) \in Nat \ {0}
      /\ \A i \in 1 .. Len(dispatches) - 1 : Tail(dispatches)[i] = dispatches[i + 1]
  BY <1>1, <1>2, HeadOf
<1>4. h.rest \in Seq(Entries) /\ h.target \in A!Target
  BY <1>3 DEF Frames
<1>5. /\ e \in Entries /\ Tail(h.rest) \in Seq(Entries) /\ Of(h.rest) = {e} \cup Of(Tail(h.rest))
  BY <1>1, <1>4, HeadOf
<1>6. nh \in Frames /\ nh.target = h.target /\ nh.reason = h.reason /\ nh.rest = Tail(h.rest)
  BY <1>3, <1>5 DEF Frames
<1>7. A!After = <<nh>> \o Tail(dispatches)
  BY DEF A!After
<1> HIDE DEF nh
<1>8. /\ A!After \in Seq(Frames) /\ Of(A!After) = {nh} \cup Of(Tail(dispatches))
      /\ Len(A!After) = Len(Tail(dispatches)) + 1 /\ A!After[1] = nh
      /\ \A i \in 1 .. Len(Tail(dispatches)) : A!After[i + 1] = Tail(dispatches)[i]
  <2> DEFINE q == Tail(dispatches)
  <2>1. q \in Seq(Frames)
    BY <1>3
  <2> HIDE DEF q
  <2>2. /\ <<nh>> \o q \in Seq(Frames) /\ Of(<<nh>> \o q) = {nh} \cup Of(q)
        /\ Len(<<nh>> \o q) = Len(q) + 1 /\ (<<nh>> \o q)[1] = nh
        /\ \A i \in 1 .. Len(q) : (<<nh>> \o q)[i + 1] = q[i]
    BY <1>6, <2>1, PushOf
  <2> QED BY <1>7, <2>2 DEF q
<1>9. Len(A!After) = Len(dispatches)
  BY <1>3, <1>8
<1>10. ASSUME NEW j \in 1 .. Len(dispatches) PROVE A!After[j].target = dispatches[j].target
  <2>1. CASE j = 1
    BY <1>3, <1>6, <1>8, <2>1
  <2>2. CASE j # 1
    <3>1. PICK i \in 1 .. Len(Tail(dispatches)) : j = i + 1
      <4>1. j - 1 \in 1 .. Len(Tail(dispatches)) /\ j = (j - 1) + 1
        BY <1>3, <2>2
      <4> QED BY <4>1
    <3>2. i \in 1 .. Len(dispatches) - 1
      BY <1>3
    <3> QED BY <1>3, <1>8, <3>1, <3>2
  <2> QED BY <2>1, <2>2
<1>11. e \in Of(h.rest) /\ h \in Of(dispatches)
  BY <1>3, <1>5
<1> HIDE DEF h, e
<1>12. /\ w = "any" => h.target \in combined /\ abortedFor[h.target] # NoReason
       /\ w \in Fetch => e.once /\ h.target = fetches[w].on
  <2>1. /\ w = "any" => h.target \in combined
        /\ w \in Fetch => e.once /\ h.target = fetches[w].on
        /\ h.target \in A!Aborting => h.reason = abortedFor[h.target] /\ h.reason # NoReason
    BY <1>1, <1>11 DEF SignalsInv, FramesFit
  <2>2. combined \subseteq A!Aborting
    BY <1>2 DEF SignalTypes, A!Aborting
  <2> QED BY <2>1, <2>2
<1>13. listeners' \in [A!Target -> Seq(Entries)] /\ ListsGoOn(w)
  <2>1. CASE e.once
    <3>1. /\ listeners' \in [A!Target -> Seq(Entries)]
          /\ \A x \in A!Target :
               /\ Of(listeners'[x]) \subseteq Of(listeners[x])
               /\ \A y \in Of(listeners[x]) : y.who # w \/ x # h.target => y \in Of(listeners'[x])
               /\ \A v : Single(listeners[x], v) => Single(listeners'[x], v)
          /\ Single(listeners[h.target], w) => \A y \in Of(listeners'[h.target]) : y.who # w
      <4> DEFINE t == h.target
      <4>1. t \in A!Target /\ listeners' = [listeners EXCEPT ![t] = A!Without(listeners[t], w)]
        BY <1>1, <1>4, <2>1
      <4> HIDE DEF t
      <4>2. /\ listeners' \in [A!Target -> Seq(Entries)]
            /\ \A x \in A!Target :
                 /\ Of(listeners'[x]) \subseteq Of(listeners[x])
                 /\ \A y \in Of(listeners[x]) : y.who # w \/ x # t => y \in Of(listeners'[x])
                 /\ \A v : Single(listeners[x], v) => Single(listeners'[x], v)
            /\ Single(listeners[t], w) => \A y \in Of(listeners'[t]) : y.who # w
        BY <1>2, <4>1, ListWithout
      <4> QED BY <4>2 DEF t
    <3>2. \A t \in A!Target : \A y \in Of(listeners[t]) :
            Matters(y.who) /\ (y.who = w => w = "any" /\ abortedFor[t] = NoReason) => y \in Of(listeners'[t])
      BY <1>12, <3>1
    <3>3. ASSUME w \in Fetch, NEW t \in A!Target, NEW y \in Of(listeners'[t]) PROVE y.who # w
      <4>1. CASE t = h.target
        <5>1. Single(listeners[h.target], w)
          BY <1>4, <3>3 DEF SignalsInv, ListenersFit
        <5> QED BY <3>1, <3>3, <4>1, <5>1
      <4>2. CASE t # h.target
        <5>1. y \in Of(listeners[t])
          BY <3>1, <3>3
        <5>2. y.who \in Fetch => t = fetches[y.who].on
          BY <5>1 DEF SignalsInv, ListenersFit
        <5> QED BY <1>12, <3>3, <4>2, <5>2
      <4> QED BY <4>1, <4>2
    <3> QED BY <3>1, <3>2, <3>3 DEF ListsGoOn
  <2>2. CASE ~e.once
    BY <1>1, <1>2, <1>12, <2>2 DEF ListsGoOn, SignalTypes
  <2> QED BY <2>1, <2>2
<1> QED BY <1>1, <1>3, <1>5, <1>6, <1>8, <1>9, <1>10, <1>11, <1>13 DEF nh, h, e

(* The stack after a call, with nothing or one dispatch put on it, goes on *)
(* where it was.                                                           *)
LEMMA AfterCall ==
  ASSUME SignalsInv, NEW w, A!Calls(w)
  PROVE  /\ \A d \in Of(A!After) : \E d0 \in Of(dispatches) : Follows(d, d0)
         /\ \A d0 \in Of(dispatches) : \E d \in Of(A!After) :
              d.target = d0.target /\ \A e \in Of(d0.rest) : e.who # w => e \in Of(d.rest)
<1> DEFINE h == Head(dispatches)
           nh == [h EXCEPT !.rest = Tail(@)]
           t == Tail(dispatches)
<1>1. /\ Of(dispatches) = {h} \cup Of(t) /\ h \in Of(dispatches)
      /\ \E e \in Of(h.rest) : e.who = w /\ Of(h.rest) = {e} \cup Of(nh.rest)
      /\ nh.target = h.target /\ nh.reason = h.reason
      /\ Of(A!After) = {nh} \cup Of(t)
  BY CallMeans
<1> HIDE DEF h, nh, t
<1>2. Follows(nh, h) /\ \A d : Follows(d, d)
  BY <1>1 DEF Follows
<1> QED BY <1>1, <1>2

LEMMA CallThrowsStep ==
  ASSUME SignalsInv, A!CallThrows PROVE SignalsInv'
<1>1. /\ UNCHANGED <<abortedFor, combined, fetches>> /\ A!Calls("throws")
      /\ dispatches' = A!Unwound(A!After) /\ broke' = broke \cup A!Left
  BY DEF A!CallThrows
<1>2. SignalTypes /\ dispatches \in Seq(Frames) /\ DOMAIN dispatches = 1 .. Len(dispatches) /\ Len(dispatches) \in Nat
  BY DEF SignalsInv, SignalTypes
<1>3. /\ A!After \in Seq(Frames) /\ Len(A!After) = Len(dispatches)
      /\ \A j \in 1 .. Len(dispatches) : A!After[j].target = dispatches[j].target
      /\ listeners' \in [A!Target -> Seq(Entries)] /\ ListsGoOn("throws")
  BY <1>1, CallMeans
<1>4. /\ A!Unwound(A!After) \in Seq(Frames) /\ Of(A!Unwound(A!After)) \subseteq Of(A!After)
      /\ \A d \in Of(A!After) : d \in Of(A!Unwound(A!After)) \/ d.target \in A!Left
  <2> DEFINE s == A!After
  <2>1. CASE A!Plains = {}
    <3>1. A!Unwound(s) = <<>> /\ Of(<<>>) = {} /\ A!Left = {dispatches[i].target : i \in DOMAIN dispatches}
      BY <2>1, EmptyOf DEF A!Unwound, A!Left
    <3>2. \A d \in Of(s) : d.target \in A!Left
      BY <1>2, <1>3, <3>1 DEF Of
    <3> QED BY <3>1, <3>2
  <2>2. CASE A!Plains # {}
    <3>1. A!Plains \subseteq 1 .. Len(dispatches)
      BY <1>2 DEF A!Plains
    <3>2. IsFiniteSet(A!Plains) /\ A!Plains \subseteq Nat
      <4>1. IsFiniteSet(1 .. Len(dispatches))
        BY <1>2, FS_Interval
      <4>2. IsFiniteSet(A!Plains)
        BY <3>1, <4>1, FS_Subset
      <4>3. A!Plains \subseteq Nat
        BY <1>2, <3>1
      <4> QED BY <4>2, <4>3
    <3>3. PICK m : m \in A!Plains /\ m = (CHOOSE i \in A!Plains : \A j \in A!Plains : i <= j)
                   /\ \A j \in A!Plains : m <= j
      BY <2>2, <3>2, Smallest
    <3>4. A!Unwound(s) = SubSeq(s, m, Len(s))
      BY <2>2, <3>3 DEF A!Unwound
    <3> HIDE DEF s
    <3>5. m \in 1 .. Len(s) /\ Len(s) \in Nat /\ Len(s) = Len(dispatches) /\ s \in Seq(Frames)
      BY <1>2, <1>3, <3>1, <3>3 DEF s
    <3> DEFINE u == SubSeq(s, m, Len(s))
               n == Len(s)
    <3>6. u \in Seq(Frames) /\ Len(u) = n - m + 1 /\ \A k \in 1 .. n - m + 1 : u[k] = s[m + k - 1]
      BY <3>5
    <3> HIDE DEF u
    <3>7. Of(u) \subseteq Of(s)
      <4>1. ASSUME NEW k \in 1 .. Len(u) PROVE u[k] \in Of(s)
        <5>1. m + k - 1 \in 1 .. n /\ k \in 1 .. n - m + 1
          BY <3>5, <3>6
        <5> QED BY <3>6, <5>1 DEF Of
      <4> QED BY <4>1 DEF Of
    <3>8. ASSUME NEW j \in 1 .. n PROVE s[j] \in Of(u) \/ s[j].target \in A!Left
      <4>1. CASE j < m
        <5>1. j \in {i \in DOMAIN dispatches : \A k \in A!Plains : i < k}
          <6>1. \A k \in A!Plains : k \in Nat /\ m <= k
            BY <3>2, <3>3
          <6>2. j \in DOMAIN dispatches
            BY <1>2, <3>5
          <6> QED BY <3>5, <4>1, <6>1, <6>2
        <5>2. A!Left = {dispatches[i].target : i \in {l \in DOMAIN dispatches : \A k \in A!Plains : l < k}}
          BY <2>2 DEF A!Left
        <5>3. s[j].target = dispatches[j].target
          BY <1>3, <3>5 DEF s
        <5> QED BY <5>1, <5>2, <5>3
      <4>2. CASE ~(j < m)
        <5>1. j - m + 1 \in 1 .. n - m + 1 /\ m + (j - m + 1) - 1 = j
          BY <3>5, <4>2
        <5>2. u[j - m + 1] = s[j] /\ j - m + 1 \in 1 .. Len(u)
          BY <3>6, <5>1
        <5> QED BY <5>2 DEF Of
      <4> QED BY <4>1, <4>2
    <3>9. /\ u \in Seq(Frames) /\ Of(u) \subseteq Of(s)
          /\ \A d \in Of(s) : d \in Of(u) \/ d.target \in A!Left
      BY <3>6, <3>7, <3>8 DEF Of
    <3> QED BY <3>4, <3>9 DEF u, s
  <2> QED BY <2>1, <2>2
<1>5. /\ \A d \in Of(A!After) : \E d0 \in Of(dispatches) : Follows(d, d0)
      /\ \A d0 \in Of(dispatches) : \E d \in Of(A!After) :
           d.target = d0.target /\ \A e \in Of(d0.rest) : e.who # "throws" => e \in Of(d.rest)
  BY <1>1, AfterCall
<1>6. DispatchesGoOn("throws")
  BY <1>1, <1>4, <1>5 DEF DispatchesGoOn
<1>7. "throws" \in A!User
  BY DEF A!User
<1>8. GoesOn("throws")
  BY <1>1, <1>3, <1>6, <1>7, AbortsAlone, FetchesAlone, UsersDoNotMatter DEF GoesOn
<1>9. SignalTypes'
  BY <1>1, <1>2, <1>3, <1>4 DEF SignalTypes
<1> QED BY <1>8, <1>9, SignalsGoOn

LEMMA CallStopsStep ==
  ASSUME SignalsInv, A!CallStops PROVE SignalsInv'
<1>1. /\ UNCHANGED <<abortedFor, combined, fetches, broke>> /\ A!Calls("stops")
      /\ dispatches' = IF Head(dispatches).target = Plain THEN Tail(dispatches) ELSE A!After
  BY DEF A!CallStops
<1>2. SignalTypes /\ Plain \notin A!Aborting
  BY SignalsAssumption DEF SignalsInv, A!Aborting
<1>3. /\ A!After \in Seq(Frames)
      /\ Tail(dispatches) \in Seq(Frames)
      /\ Of(dispatches) = {Head(dispatches)} \cup Of(Tail(dispatches))
      /\ listeners' \in [A!Target -> Seq(Entries)] /\ ListsGoOn("stops")
  BY <1>1, CallMeans
<1>4. /\ \A d \in Of(A!After) : \E d0 \in Of(dispatches) : Follows(d, d0)
      /\ \A d0 \in Of(dispatches) : \E d \in Of(A!After) :
           d.target = d0.target /\ \A e \in Of(d0.rest) : e.who # "stops" => e \in Of(d.rest)
  BY <1>1, AfterCall
<1>5. DispatchesGoOn("stops")
  <2>1. CASE Head(dispatches).target = Plain
    <3>1. \A d \in Of(dispatches') : d \in Of(dispatches) /\ Follows(d, d)
      BY <1>1, <1>3, <2>1 DEF Follows
    <3>2. \A d0 \in Of(dispatches) : d0.target \in A!Aborting => d0 \in Of(dispatches')
      BY <1>1, <1>2, <1>3, <2>1
    <3> QED BY <1>1, <3>1, <3>2 DEF DispatchesGoOn
  <2>2. CASE Head(dispatches).target # Plain
    BY <1>1, <1>4, <2>2 DEF DispatchesGoOn
  <2> QED BY <2>1, <2>2
<1>6. "stops" \in A!User
  BY DEF A!User
<1>7. GoesOn("stops")
  BY <1>1, <1>3, <1>5, <1>6, AbortsAlone, FetchesAlone, UsersDoNotMatter DEF GoesOn
<1>8. SignalTypes'
  BY <1>1, <1>2, <1>3 DEF SignalTypes
<1> QED BY <1>7, <1>8, SignalsGoOn

LEMMA CallAbortsStep ==
  ASSUME SignalsInv, NEW s \in Signal, A!CallAborts(s) PROVE SignalsInv'
<1>1. /\ UNCHANGED <<combined, fetches, broke>> /\ A!Calls(s) /\ A!Abort(s, s, A!After)
  BY DEF A!CallAborts
<1>2. SignalTypes /\ s \in A!Aborting /\ s \in A!Target /\ s # Composite /\ s # NoReason /\ s \in A!User
  BY SignalsAssumption DEF SignalsInv, A!Target, A!Aborting, A!User
<1>3. A!After \in Seq(Frames) /\ listeners' \in [A!Target -> Seq(Entries)] /\ ListsGoOn(s)
  BY <1>1, CallMeans
<1>4. /\ \A d \in Of(A!After) : \E d0 \in Of(dispatches) : Follows(d, d0)
      /\ \A d0 \in Of(dispatches) : \E d \in Of(A!After) :
           d.target = d0.target /\ \A e \in Of(d0.rest) : e.who # s => e \in Of(d.rest)
  BY <1>1, AfterCall
<1>5. /\ abortedFor' \in [A!Aborting -> Signal \cup {NoReason}]
      /\ dispatches' \in Seq(Frames)
      /\ \A t \in A!Aborting :
           abortedFor'[t] = IF t = s /\ abortedFor[s] = NoReason THEN s ELSE abortedFor[t]
      /\ abortedFor[s] # NoReason => Of(dispatches') = Of(A!After)
      /\ abortedFor[s] = NoReason =>
           Of(dispatches') = {[target |-> s, rest |-> listeners[s], reason |-> s]} \cup Of(A!After)
  BY <1>1, <1>2, <1>3, AbortMeans
<1>6. DispatchesGoOn(s)
  <2> DEFINE n == [target |-> s, rest |-> listeners[s], reason |-> s]
  <2>1. n.target = s /\ n.rest = listeners[s] /\ n.reason = s
    OBVIOUS
  <2>2. Of(dispatches') = IF abortedFor[s] = NoReason THEN {n} \cup Of(A!After) ELSE Of(A!After)
    BY <1>5
  <2> HIDE DEF n
  <2>3. \A t \in A!Aborting : abortedFor[t] = NoReason /\ abortedFor'[t] # NoReason => n \in Of(dispatches') /\ t = s
    BY <1>5, <2>2
  <2>4. \A d \in Of(dispatches') :
          d \in Of(A!After) \/ (d = n /\ abortedFor'[s] = s)
    BY <1>2, <1>5, <2>2
  <2>5. Of(A!After) \subseteq Of(dispatches')
    BY <2>2
  <2> QED BY <1>2, <1>4, <2>1, <2>3, <2>4, <2>5 DEF DispatchesGoOn
<1>7. AbortsGoOn(s)
  <2>1. abortedFor'[Composite] = abortedFor[Composite]
    BY <1>2, <1>5 DEF A!Aborting
  <2> QED BY <1>2, <1>5, <2>1, UsersDoNotMatter DEF AbortsGoOn
<1>8. GoesOn(s)
  BY <1>1, <1>2, <1>3, <1>6, <1>7, FetchesAlone, UsersDoNotMatter DEF GoesOn
<1>9. SignalTypes'
  BY <1>1, <1>2, <1>3, <1>5 DEF SignalTypes
<1> QED BY <1>8, <1>9, SignalsGoOn

LEMMA CallAnyStep ==
  ASSUME SignalsInv, A!CallAny PROVE SignalsInv'
<1> DEFINE h == Head(dispatches)
<1>1. /\ UNCHANGED <<combined, fetches, broke>> /\ A!Calls("any") /\ A!Abort(Composite, h.reason, A!After)
  BY DEF A!CallAny
<1>2. SignalTypes /\ Composite \in A!Aborting /\ Composite \in A!Target /\ "any" \notin Fetch
  BY UsersDoNotMatter DEF SignalsInv, A!Target, A!Aborting
<1>3. /\ A!After \in Seq(Frames) /\ listeners' \in [A!Target -> Seq(Entries)] /\ ListsGoOn("any")
      /\ h \in Of(dispatches) /\ h \in Frames /\ \E e \in Of(h.rest) : e.who = "any"
  BY <1>1, CallMeans
<1>4. /\ \A d \in Of(A!After) : \E d0 \in Of(dispatches) : Follows(d, d0)
      /\ \A d0 \in Of(dispatches) : \E d \in Of(A!After) :
           d.target = d0.target /\ \A e \in Of(d0.rest) : e.who # "any" => e \in Of(d.rest)
  BY <1>1, AfterCall
<1> HIDE DEF h
<1>5. PICK r \in Signal : r = h.reason /\ h.target \in combined /\ abortedFor[h.target] = r
  <2>1. h.target \in combined
    BY <1>3 DEF SignalsInv, FramesFit
  <2>2. h.target \in A!Aborting
    BY <1>2, <2>1 DEF SignalTypes, A!Aborting
  <2>3. h.reason = abortedFor[h.target] /\ h.reason # NoReason
    BY <1>3, <2>2 DEF SignalsInv, FramesFit
  <2>4. h.reason \in Signal
    BY <1>3, <2>3 DEF Frames
  <2> QED BY <2>1, <2>3, <2>4
<1>6. /\ abortedFor' \in [A!Aborting -> Signal \cup {NoReason}]
      /\ dispatches' \in Seq(Frames)
      /\ \A t \in A!Aborting :
           abortedFor'[t] = IF t = Composite /\ abortedFor[Composite] = NoReason THEN r ELSE abortedFor[t]
      /\ abortedFor[Composite] # NoReason => Of(dispatches') = Of(A!After)
      /\ abortedFor[Composite] = NoReason =>
           Of(dispatches') = {[target |-> Composite, rest |-> listeners[Composite], reason |-> r]} \cup Of(A!After)
  BY <1>1, <1>2, <1>3, <1>5, AbortMeans
<1>7. r # NoReason
  BY SignalsAssumption
<1>8. DispatchesGoOn("any")
  <2> DEFINE n == [target |-> Composite, rest |-> listeners[Composite], reason |-> r]
  <2>1. n.target = Composite /\ n.rest = listeners[Composite] /\ n.reason = r
    OBVIOUS
  <2>2. Of(dispatches') = IF abortedFor[Composite] = NoReason THEN {n} \cup Of(A!After) ELSE Of(A!After)
    BY <1>6
  <2> HIDE DEF n
  <2>3. \A t \in A!Aborting : abortedFor[t] = NoReason /\ abortedFor'[t] # NoReason =>
          n \in Of(dispatches') /\ t = Composite
    BY <1>6, <2>2
  <2>4. \A d \in Of(dispatches') :
          d \in Of(A!After) \/ (d = n /\ abortedFor'[Composite] = r)
    BY <1>2, <1>6, <2>2
  <2>5. Of(A!After) \subseteq Of(dispatches')
    BY <2>2
  <2> QED BY <1>2, <1>4, <1>7, <2>1, <2>3, <2>4, <2>5 DEF DispatchesGoOn
<1>9. AbortsGoOn("any")
  BY <1>2, <1>5, <1>6, <1>7 DEF AbortsGoOn
<1>10. GoesOn("any")
  BY <1>1, <1>2, <1>3, <1>8, <1>9, FetchesAlone DEF GoesOn
<1>11. SignalTypes'
  BY <1>1, <1>2, <1>3, <1>6 DEF SignalTypes
<1> QED BY <1>10, <1>11, SignalsGoOn

LEMMA CallFetchStep ==
  ASSUME SignalsInv, NEW f \in Fetch, A!CallFetch(f) PROVE SignalsInv'
<1>1. /\ UNCHANGED <<abortedFor, combined, broke>> /\ A!Calls(f) /\ dispatches' = A!After
      /\ fetches' = IF fetches[f].is = "waiting" THEN [fetches EXCEPT ![f].is = "aborted"] ELSE fetches
  BY DEF A!CallFetch
<1>2. SignalTypes /\ fetches \in [Fetch -> [is : {"unused", "waiting"} \cup A!Answered, on : A!Aborting]]
  BY DEF SignalsInv, SignalTypes
<1>3. A!After \in Seq(Frames) /\ listeners' \in [A!Target -> Seq(Entries)] /\ ListsGoOn(f)
  BY <1>1, CallMeans
<1>4. /\ \A d \in Of(A!After) : \E d0 \in Of(dispatches) : Follows(d, d0)
      /\ \A d0 \in Of(dispatches) : \E d \in Of(A!After) :
           d.target = d0.target /\ \A e \in Of(d0.rest) : e.who # f => e \in Of(d.rest)
  BY <1>1, AfterCall
<1>5. DispatchesGoOn(f)
  BY <1>1, <1>4 DEF DispatchesGoOn
<1>6. /\ fetches' \in [Fetch -> [is : {"unused", "waiting"} \cup A!Answered, on : A!Aborting]]
      /\ FetchesGoOn(f)
  <2>1. CASE fetches[f].is = "waiting"
    <3>1. [fetches[f] EXCEPT !.is = "aborted"] = [is |-> "aborted", on |-> fetches[f].on]
      BY <1>2
    <3>2. fetches' = [fetches EXCEPT ![f] = [fetches[f] EXCEPT !.is = "aborted"]]
      BY <1>1, <2>1
    <3>3. fetches' = [fetches EXCEPT ![f] = [is |-> "aborted", on |-> fetches[f].on]]
      BY <3>1, <3>2
    <3> QED BY <1>2, <2>1, <3>3 DEF A!Answered, FetchesGoOn
  <2>2. CASE fetches[f].is # "waiting"
    BY <1>1, <1>2, <2>2 DEF FetchesGoOn
  <2> QED BY <2>1, <2>2
<1>7. f # "any"
  BY UsersDoNotMatter
<1>8. GoesOn(f)
  BY <1>1, <1>3, <1>5, <1>6, <1>7, AbortsAlone DEF GoesOn
<1>9. SignalTypes'
  BY <1>1, <1>2, <1>3, <1>6 DEF SignalTypes
<1> QED BY <1>8, <1>9, SignalsGoOn

LEMMA FinishFetchStep ==
  ASSUME SignalsInv, NEW f \in Fetch, NEW how \in {"fulfilled", "rejected"}, A!FinishFetch(f, how)
  PROVE  SignalsInv'
<1> DEFINE on == fetches[f].on
<1>1. /\ UNCHANGED <<abortedFor, dispatches, combined, broke>>
      /\ listeners' = [listeners EXCEPT ![on] = A!Without(listeners[on], f)]
      /\ fetches' = [fetches EXCEPT ![f].is = IF @ = "waiting" THEN how ELSE @]
      /\ dispatches = <<>>
  BY DEF A!FinishFetch
<1>2. /\ SignalTypes /\ fetches \in [Fetch -> [is : {"unused", "waiting"} \cup A!Answered, on : A!Aborting]]
      /\ on \in A!Target
  BY DEF SignalsInv, SignalTypes, A!Target
<1>3. f # "any"
  BY UsersDoNotMatter
<1>4. /\ fetches' \in [Fetch -> [is : {"unused", "waiting"} \cup A!Answered, on : A!Aborting]]
      /\ FetchesGoOn(f)
  <2>1. CASE fetches[f].is = "waiting"
    <3>1. [fetches[f] EXCEPT !.is = how] = [is |-> how, on |-> fetches[f].on]
      BY <1>2
    <3>2. fetches' = [fetches EXCEPT ![f] = [fetches[f] EXCEPT !.is = how]]
      BY <1>1, <2>1
    <3>3. fetches' = [fetches EXCEPT ![f] = [is |-> how, on |-> fetches[f].on]]
      BY <3>1, <3>2
    <3> QED BY <1>2, <2>1, <3>3 DEF A!Answered, FetchesGoOn
  <2>2. CASE fetches[f].is # "waiting"
    <3>1. fetches' = fetches
      BY <1>1, <1>2, <2>2
    <3> QED BY <1>2, <2>2, <3>1 DEF FetchesGoOn
  <2> QED BY <2>1, <2>2
<1> HIDE DEF on
<1>5. /\ listeners' \in [A!Target -> Seq(Entries)]
      /\ \A x \in A!Target :
              /\ Of(listeners'[x]) \subseteq Of(listeners[x])
              /\ \A y \in Of(listeners[x]) : y.who # f \/ x # on => y \in Of(listeners'[x])
              /\ \A v : Single(listeners[x], v) => Single(listeners'[x], v)
      /\ Single(listeners[on], f) => \A y \in Of(listeners'[on]) : y.who # f
  BY <1>1, <1>2, ListWithout
<1>6. ASSUME NEW t \in A!Target, NEW y \in Of(listeners'[t]) PROVE y.who # f
  <2>1. y \in Of(listeners[t]) /\ Single(listeners[on], f)
    BY <1>2, <1>5 DEF SignalsInv, ListenersFit
  <2>2. y.who = f => t = on
    BY <2>1 DEF SignalsInv, ListenersFit, on
  <2> QED BY <1>5, <2>1, <2>2
<1>7. ListsGoOn(f)
  BY <1>3, <1>5, <1>6 DEF ListsGoOn
<1>8. GoesOn(f)
  BY <1>1, <1>3, <1>4, <1>7, AbortsAlone, DispatchesAlone DEF GoesOn
<1>9. SignalTypes'
  BY <1>1, <1>2, <1>4, <1>5 DEF SignalTypes
<1> QED BY <1>8, <1>9, SignalsGoOn

LEMMA StartFetchStep ==
  ASSUME SignalsInv, NEW f \in Fetch, NEW s \in A!Aborting, A!StartFetch(f, s)
  PROVE  SignalsInv'
<1>1. /\ UNCHANGED <<abortedFor, dispatches, combined, broke>> /\ dispatches = <<>>
      /\ fetches[f].is = "unused"
  BY DEF A!StartFetch
<1>2. /\ SignalTypes /\ s \in A!Target
      /\ fetches \in [Fetch -> [is : {"unused", "waiting"} \cup A!Answered, on : A!Aborting]]
  BY DEF SignalsInv, SignalTypes, A!Target
<1>3. Of(dispatches) = {}
  BY <1>1, <1>2, NoDispatches
<1>4. Of(dispatches)' = {} /\ FramesFit'
  BY <1>1, <1>3 DEF FramesFit, Of
<1>5. \A t \in A!Target : \A e \in Of(listeners[t]) : e.who # f
  BY <1>1 DEF SignalsInv, ListenersFit
<1>6. \A g \in Fetch : fetches[g].is = "waiting" =>
        Listens(fetches[g].on, g) /\ (abortedFor[fetches[g].on] = NoReason \/ fetches[g].on \in broke)
  BY <1>3 DEF SignalsInv, FetchesFit, Pending
<1>7. CASE abortedFor[s] # NoReason
  <2>1. listeners' = listeners /\ fetches' = [fetches EXCEPT ![f] = [is |-> "aborted", on |-> s]]
    BY <1>7 DEF A!StartFetch
  <2>2. SignalTypes'
    BY <1>1, <1>2, <2>1 DEF SignalTypes, A!Answered
  <2>3. \A g \in Fetch : g # f => fetches'[g] = fetches[g]
    BY <1>2, <2>1
  <2>4. fetches'[f].is = "aborted"
    BY <1>2, <2>1
  <2>5. ListenersFit'
    <3>1. \A t \in A!Target : Of(listeners[t])' = Of(listeners[t]) /\ \A g \in Fetch : Single(listeners[t], g)' = Single(listeners[t], g)
      BY <2>1 DEF Of, Single
    <3> QED BY <1>1, <1>5, <2>3, <3>1 DEF SignalsInv, ListenersFit
  <2>6. FetchesFit'
    <3>1. ASSUME NEW g \in Fetch, fetches'[g].is = "waiting"
          PROVE  Listens(fetches[g].on, g)' /\ (abortedFor'[fetches'[g].on] = NoReason \/ fetches'[g].on \in broke')
      <4>1. fetches'[g] = fetches[g]
        BY <2>3, <2>4, <3>1
      <4> QED BY <1>1, <1>6, <2>1, <3>1, <4>1 DEF Listens, Of
    <3> QED BY <3>1 DEF FetchesFit
  <2>7. AnyFits'
    BY <1>1, <2>1 DEF SignalsInv, AnyFits, Listens, Pending, Of
  <2> QED BY <1>4, <2>2, <2>5, <2>6, <2>7 DEF SignalsInv
<1>8. CASE abortedFor[s] = NoReason
  <2> DEFINE e == [who |-> f, once |-> TRUE]
  <2>1. /\ listeners' = [listeners EXCEPT ![s] = Append(listeners[s], e)]
        /\ fetches' = [fetches EXCEPT ![f] = [is |-> "waiting", on |-> s]]
    BY <1>8 DEF A!StartFetch, A!Listen, A!Entry
  <2>2. e \in Entries /\ e.who = f /\ e.once = TRUE
    BY DEF Entries, A!Listener
  <2> HIDE DEF e
  <2>3. listeners[s] \in Seq(Entries) /\ listeners \in [A!Target -> Seq(Entries)]
    BY <1>2 DEF SignalTypes
  <2>4. /\ Append(listeners[s], e) \in Seq(Entries) /\ Of(Append(listeners[s], e)) = Of(listeners[s]) \cup {e}
        /\ \A w : Single(listeners[s], w) /\ e.who # w => Single(Append(listeners[s], e), w)
        /\ \A w : (\A y \in Of(listeners[s]) : y.who # w) => Single(Append(listeners[s], e), w)
    BY <2>2, <2>3, AppendOf
  <2>5. /\ listeners' \in [A!Target -> Seq(Entries)] /\ listeners'[s] = Append(listeners[s], e)
        /\ \A t \in A!Target : t # s => listeners'[t] = listeners[t]
    BY <1>2, <2>1, <2>3, <2>4
  <2>6. /\ fetches' \in [Fetch -> [is : {"unused", "waiting"} \cup A!Answered, on : A!Aborting]]
        /\ fetches'[f] = [is |-> "waiting", on |-> s]
        /\ \A g \in Fetch : g # f => fetches'[g] = fetches[g]
    BY <1>2, <2>1
  <2>7. SignalTypes'
    BY <1>1, <1>2, <2>5, <2>6 DEF SignalTypes
  <2>8. \A t \in A!Target : Of(listeners'[t]) = Of(listeners[t]) \cup (IF t = s THEN {e} ELSE {})
    BY <2>4, <2>5
  <2>9. ListenersFit'
    <3>1. ASSUME NEW t \in A!Target, NEW y \in Of(listeners'[t])
          PROVE  /\ y.who = "any" => t \in combined
                 /\ y.who \in Fetch => /\ y.once /\ t = fetches'[y.who].on
                                       /\ fetches'[y.who].is = "waiting"
      <4>1. CASE y \in Of(listeners[t])
        BY <1>5, <2>6, <4>1 DEF SignalsInv, ListenersFit
      <4>2. CASE y = e /\ t = s
        BY <2>2, <2>6, <4>2, UsersDoNotMatter
      <4> QED BY <2>8, <4>1, <4>2
    <3>2. ASSUME NEW t \in A!Target, NEW g \in Fetch PROVE Single(listeners'[t], g)
      <4>1. Single(listeners[t], g)
        BY DEF SignalsInv, ListenersFit
      <4> QED BY <1>2, <1>5, <2>2, <2>4, <2>5, <4>1
    <3>3. ASSUME NEW t \in A!Target
          PROVE  Of(listeners'[t]) = Of(listeners[t])' /\ \A g \in Fetch : Single(listeners'[t], g) = Single(listeners[t], g)'
      BY DEF Of, Single
    <3> QED BY <1>1, <3>1, <3>2, <3>3 DEF ListenersFit
  <2>10. \A t \in A!Target : \A v : Listens(t, v) => \E y \in Of(listeners'[t]) : y.who = v
    BY <2>8 DEF Listens
  <2>11. \A t \in A!Target : \A v : (\E y \in Of(listeners'[t]) : y.who = v) => Listens(t, v)'
    BY DEF Listens, Of
  <2>12. A!Aborting \subseteq A!Target /\ combined \subseteq A!Target
    BY <1>2 DEF SignalTypes, A!Target, A!Aborting
  <2>13. FetchesFit'
    <3>1. ASSUME NEW g \in Fetch, fetches'[g].is = "waiting"
          PROVE  (\E y \in Of(listeners'[fetches'[g].on]) : y.who = g) /\ (abortedFor'[fetches'[g].on] = NoReason \/ fetches'[g].on \in broke')
      <4>1. CASE g = f
        BY <1>1, <1>2, <1>8, <2>2, <2>6, <2>8, <4>1
      <4>2. CASE g # f
        <5>1. fetches'[g] = fetches[g] /\ fetches[g].on \in A!Target
          BY <1>2, <2>6, <2>12, <4>2
        <5> QED BY <1>1, <1>6, <2>10, <3>1, <5>1
      <4> QED BY <4>1, <4>2
    <3>2. \A g \in Fetch : Of(listeners'[fetches'[g].on]) = Of(listeners[fetches[g].on])'
      BY DEF Of
    <3> QED BY <3>1, <3>2 DEF FetchesFit, Listens
  <2>14. AnyFits'
    <3>1. \A t \in combined : Listens(t, "any") => Listens(t, "any")'
      BY <2>10, <2>11, <2>12
    <3> QED BY <1>1, <1>3, <3>1 DEF SignalsInv, AnyFits, Pending
  <2> QED BY <1>4, <2>7, <2>9, <2>13, <2>14 DEF SignalsInv
<1> QED BY <1>7, <1>8

LEMMA CombineStep ==
  ASSUME SignalsInv, NEW list \in A!Lists, A!Combine(list) PROVE SignalsInv'
<1> DEFINE gone == {i \in DOMAIN list : abortedFor[list[i]] # NoReason}
           upTo == IF gone = {} THEN Len(list) ELSE CHOOSE i \in gone : \A j \in gone : i <= j
           into == {list[i] : i \in 1 .. upTo}
           heard == into \ {s \in Signal : abortedFor[s] # NoReason}
           e == [who |-> "any", once |-> TRUE]
<1>1. /\ dispatches = <<>> /\ combined = {} /\ UNCHANGED <<fetches, broke>> /\ combined' = into
      /\ listeners' = [t \in A!Target |-> IF t \in heard THEN Append(listeners[t], e) ELSE listeners[t]]
      /\ IF gone = {} THEN UNCHANGED <<abortedFor, dispatches>>
         ELSE A!Abort(Composite, abortedFor[list[upTo]], <<>>)
  BY DEF A!Combine, A!Entry
<1>2. PICK n \in Nat : list \in [1 .. n -> Signal]
  <2>1. A!Cardinality(Signal) \in Nat
    BY SignalsAssumption, FS_CardinalityType DEF A!Cardinality, Cardinality
  <2>2. list \in [1 .. A!Cardinality(Signal) -> Signal]
    BY DEF A!Lists, A!SetToSeqs
  <2> QED BY <2>1, <2>2
<1>3. DOMAIN list = 1 .. n /\ Len(list) = n /\ list \in Seq(Signal)
  BY <1>2
<1>4. upTo \in 0 .. n /\ (gone # {} => upTo \in gone /\ upTo \in 1 .. upTo)
  <2>1. CASE gone = {}
    BY <1>3, <2>1
  <2>2. CASE gone # {}
    <3>1. gone \subseteq 1 .. n /\ gone \subseteq Nat
      BY <1>3
    <3>2. IsFiniteSet(gone)
      <4>1. IsFiniteSet(1 .. n)
        BY FS_Interval
      <4> QED BY <3>1, <4>1, FS_Subset
    <3>3. PICK m : m \in gone /\ m = CHOOSE i \in gone : \A j \in gone : i <= j
      BY <2>2, <3>1, <3>2, Smallest
    <3>4. upTo = m
      BY <2>2, <3>3
    <3>5. m \in 1 .. n
      BY <3>1, <3>3
    <3> HIDE DEF gone, upTo
    <3> QED BY <3>3, <3>4, <3>5
  <2> QED BY <2>1, <2>2
<1>5. into \subseteq Signal /\ \A i \in 1 .. upTo : i \in 1 .. n
  <2>1. \A i \in 1 .. upTo : i \in 1 .. n
    <3> HIDE DEF upTo, gone
    <3> QED BY <1>4
  <2> HIDE DEF upTo
  <2> QED BY <1>2, <2>1
<1>6. \A s \in into : abortedFor[s] # NoReason => gone # {}
  <2>1. \A i \in 1 .. upTo : abortedFor[list[i]] # NoReason => i \in gone
    <3> HIDE DEF upTo
    <3> QED BY <1>3, <1>5
  <2> HIDE DEF upTo, gone
  <2> QED BY <2>1
<1>7. gone # {} => list[upTo] \in into /\ list[upTo] \in Signal /\ abortedFor[list[upTo]] # NoReason
  <2>1. gone # {} => list[upTo] \in into
    <3> HIDE DEF upTo, gone
    <3> QED BY <1>4
  <2>2. gone # {} => abortedFor[list[upTo]] # NoReason
    <3> HIDE DEF upTo
    <3> QED BY <1>4
  <2> HIDE DEF upTo, gone, into
  <2> QED BY <1>5, <2>1, <2>2
<1>8. /\ heard \subseteq Signal /\ heard \subseteq into
      /\ \A s \in into : abortedFor[s] = NoReason => s \in heard
  <2> HIDE DEF upTo, gone, into
  <2> QED BY <1>5
<1> HIDE DEF gone, upTo, into, heard
<1>9. PICK at : at = list[upTo]
  OBVIOUS
<1>10. SignalTypes /\ Composite \in A!Aborting /\ Composite \in A!Target /\ Composite \notin Signal
       /\ Signal \subseteq A!Aborting /\ A!Aborting \subseteq A!Target
  BY SignalsAssumption DEF SignalsInv, A!Aborting, A!Target
<1>11. abortedFor[Composite] = NoReason
  BY <1>1 DEF SignalsInv, AnyFits
<1>12. Of(dispatches) = {} /\ <<>> \in Seq(Frames) /\ Of(<<>>) = {}
  BY <1>1, <1>10, NoDispatches
<1>13. e \in Entries /\ e.who = "any"
  BY DEF Entries, A!Listener
<1> HIDE DEF e
<1>14. ASSUME NEW t \in A!Target
       PROVE  /\ listeners'[t] \in Seq(Entries)
              /\ Of(listeners'[t]) = Of(listeners[t]) \cup (IF t \in heard THEN {e} ELSE {})
              /\ \A f \in Fetch : Single(listeners[t], f) => Single(listeners'[t], f)
  <2>1. listeners[t] \in Seq(Entries)
    BY <1>10 DEF SignalTypes
  <2>2. CASE t \in heard
    <3>1. listeners'[t] = Append(listeners[t], e)
      BY <1>1, <2>2
    <3> QED BY <1>13, <2>1, <2>2, <3>1, AppendOf, UsersDoNotMatter
  <2>3. CASE t \notin heard
    <3>1. listeners'[t] = listeners[t]
      BY <1>1, <2>3
    <3> QED BY <2>1, <2>3, <3>1
  <2> QED BY <2>2, <2>3
<1>15. listeners' \in [A!Target -> Seq(Entries)]
  BY <1>1, <1>14
<1> DEFINE f0 == [target |-> Composite, rest |-> listeners[Composite], reason |-> abortedFor[at]]
<1>16. /\ abortedFor' \in [A!Aborting -> Signal \cup {NoReason}] /\ dispatches' \in Seq(Frames)
       /\ \A s \in Signal : abortedFor'[s] = abortedFor[s]
       /\ IF gone = {} THEN abortedFor'[Composite] = NoReason /\ Of(dispatches') = {}
          ELSE abortedFor'[Composite] = abortedFor[at] /\ Of(dispatches') = {f0}
  <2>1. CASE gone = {}
    <3>1. UNCHANGED <<abortedFor, dispatches>>
      BY <1>1, <2>1
    <3> QED BY <1>10, <1>11, <1>12, <2>1, <3>1 DEF SignalTypes
  <2>2. CASE gone # {}
    <3>1. PICK r \in Signal : r = abortedFor[at]
      BY <1>7, <1>9, <1>10, <2>2 DEF SignalTypes
    <3>2. A!Abort(Composite, r, <<>>)
      BY <1>1, <1>9, <2>2, <3>1
    <3>3. /\ abortedFor' \in [A!Aborting -> Signal \cup {NoReason}]
          /\ dispatches' \in Seq(Frames)
          /\ \A t \in A!Aborting :
               abortedFor'[t] = IF t = Composite /\ abortedFor[Composite] = NoReason THEN r ELSE abortedFor[t]
          /\ Of(dispatches') = {[target |-> Composite, rest |-> listeners[Composite], reason |-> r]} \cup {}
      BY <1>10, <1>11, <1>12, <3>2, AbortMeans
    <3>4. \A s \in Signal : abortedFor'[s] = abortedFor[s]
      BY <1>10, <3>3
    <3>5. abortedFor'[Composite] = r
      BY <1>10, <1>11, <3>3
    <3>6. Of(dispatches') = {f0}
      BY <3>1, <3>3
    <3> QED BY <2>2, <3>1, <3>3, <3>4, <3>5, <3>6
  <2> QED BY <2>1, <2>2
<1>17. f0.target = Composite /\ f0.rest = listeners[Composite] /\ f0.reason = abortedFor[at]
  OBVIOUS
<1> HIDE DEF f0
<1>18. gone # {} => at \in into /\ at \in Signal /\ abortedFor[at] # NoReason
  BY <1>7, <1>9
<1>19. SignalTypes'
  BY <1>1, <1>5, <1>10, <1>15, <1>16 DEF SignalTypes
<1>20. FramesFit'
  <2>1. ASSUME NEW d \in Of(dispatches')
        PROVE  /\ d.target \in A!Aborting => d.reason = abortedFor'[d.target] /\ d.reason # NoReason
               /\ \A y \in Of(d.rest) :
                    /\ y.who # "any"
                    /\ y.who \in Fetch => y.once /\ d.target = fetches[y.who].on
    <3>1. gone # {} /\ d = f0 /\ abortedFor'[Composite] = abortedFor[at]
      BY <1>16
    <3>2. \A y \in Of(listeners[Composite]) :
            y.who # "any" /\ (y.who \in Fetch => y.once /\ Composite = fetches[y.who].on)
      BY <1>1, <1>10 DEF SignalsInv, ListenersFit
    <3>3. d.target = Composite /\ d.rest = listeners[Composite] /\ d.reason = abortedFor[at]
      BY <1>17, <3>1
    <3>4. Of(d.rest) = Of(listeners[Composite])
      BY <3>3
    <3> QED BY <1>18, <3>1, <3>2, <3>3, <3>4
  <2>2. Of(dispatches') = Of(dispatches)'
    BY DEF Of
  <2> QED BY <1>1, <2>1, <2>2 DEF FramesFit
<1>21. ListenersFit'
  <2>1. ASSUME NEW t \in A!Target, NEW y \in Of(listeners'[t])
        PROVE  /\ y.who = "any" => t \in into
               /\ y.who \in Fetch => /\ y.once /\ t = fetches[y.who].on
                                     /\ fetches[y.who].is = "waiting"
    <3>1. CASE y \in Of(listeners[t])
      BY <1>1, <3>1 DEF SignalsInv, ListenersFit
    <3>2. CASE y = e /\ t \in heard
      BY <1>8, <1>13, <3>2, UsersDoNotMatter
    <3> QED BY <1>14, <3>1, <3>2
  <2>2. \A t \in A!Target : \A f \in Fetch : Single(listeners'[t], f)
    BY <1>14 DEF SignalsInv, ListenersFit
  <2>3. ASSUME NEW t \in A!Target
        PROVE  Of(listeners'[t]) = Of(listeners[t])' /\ \A g \in Fetch : Single(listeners'[t], g) = Single(listeners[t], g)'
    BY DEF Of, Single
  <2> QED BY <1>1, <2>1, <2>2, <2>3 DEF ListenersFit
<1>22. \A t \in A!Target : \A v : Listens(t, v) => Listens(t, v)'
  <2>1. \A t \in A!Target : \A v : Listens(t, v) => \E y \in Of(listeners'[t]) : y.who = v
    BY <1>14 DEF Listens
  <2>2. \A t \in A!Target : \A v : (\E y \in Of(listeners'[t]) : y.who = v) => Listens(t, v)'
    BY DEF Listens, Of
  <2> QED BY <2>1, <2>2
<1>23. FetchesFit'
  <2>1. ASSUME NEW f \in Fetch, fetches[f].is = "waiting"
        PROVE  /\ Listens(fetches[f].on, f)'
               /\ \/ abortedFor'[fetches[f].on] = NoReason \/ fetches[f].on \in broke
                  \/ \E d \in Of(dispatches') : d.target = fetches[f].on /\ \E y \in Of(d.rest) : y.who = f
    <3> DEFINE on == fetches[f].on
    <3>1. on \in A!Aborting
      BY <1>10 DEF SignalTypes
    <3>2. Listens(on, f) /\ (abortedFor[on] = NoReason \/ on \in broke)
      BY <1>12, <2>1 DEF SignalsInv, FetchesFit, Pending
    <3>3. Listens(fetches[f].on, f)'
      BY <1>1, <1>10, <1>22, <3>1, <3>2
    <3> HIDE DEF on
    <3>4. CASE on \in Signal
      BY <1>16, <3>2, <3>3, <3>4 DEF on
    <3>5. CASE on = Composite
      <4>1. CASE gone = {}
        BY <1>16, <3>3, <3>5, <4>1 DEF on
      <4>2. CASE gone # {}
        BY <1>16, <1>17, <3>2, <3>3, <3>5, <4>2 DEF on, Listens
      <4> QED BY <4>1, <4>2
    <3> QED BY <3>1, <3>4, <3>5 DEF A!Aborting
  <2>2. Of(dispatches') = Of(dispatches)'
    BY DEF Of
  <2> QED BY <1>1, <2>1, <2>2 DEF FetchesFit, Pending
<1>24. AnyFits'
  <2>1. ASSUME NEW s \in into
        PROVE  IF abortedFor'[s] = NoReason THEN Listens(s, "any")' ELSE abortedFor'[Composite] # NoReason
    <3>1. s \in Signal /\ abortedFor'[s] = abortedFor[s] /\ s \in A!Target
      BY <1>5, <1>10, <1>16
    <3>2. CASE abortedFor[s] = NoReason
      <4>1. e \in Of(listeners'[s])
        BY <1>8, <1>14, <3>1, <3>2
      <4>2. Listens(s, "any")'
        BY <1>13, <4>1 DEF Listens, Of
      <4> QED BY <3>1, <3>2, <4>2
    <3>3. CASE abortedFor[s] # NoReason
      BY <1>6, <1>16, <1>18, <3>1, <3>3
    <3> QED BY <3>2, <3>3
  <2>2. abortedFor'[Composite] # NoReason => \E s \in into : abortedFor'[s] = abortedFor'[Composite]
    BY <1>16, <1>18
  <2> QED BY <1>1, <2>1, <2>2 DEF AnyFits
<1> QED BY <1>19, <1>20, <1>21, <1>23, <1>24 DEF SignalsInv

LEMMA SignalsInit == A!Init => SignalsInv
<1> SUFFICES ASSUME A!Init PROVE SignalsInv
  OBVIOUS
<1>1. /\ abortedFor = [s \in A!Aborting |-> NoReason] /\ listeners = [t \in A!Target |-> <<>>]
      /\ dispatches = <<>> /\ combined = {}
      /\ fetches = [f \in Fetch |-> [is |-> "unused", on |-> Composite]]
  BY DEF A!Init
<1>2. SignalTypes
  <2>1. <<>> \in Seq(Entries) /\ <<>> \in Seq(Frames)
    OBVIOUS
  <2> QED BY <1>1, <2>1 DEF SignalTypes, A!Aborting
<1>3. Of(dispatches) = {} /\ Composite \in A!Aborting
  BY <1>1, EmptyOf DEF A!Aborting
<1>4. ListenersFit
  BY <1>1, EmptyOf DEF ListenersFit
<1>5. FetchesFit
  BY <1>1 DEF FetchesFit
<1> QED BY <1>1, <1>2, <1>3, <1>4, <1>5 DEF SignalsInv, FramesFit, AnyFits

LEMMA SignalsStep == SignalsInv /\ [A!Next]_(A!vars) => SignalsInv'
<1> SUFFICES ASSUME SignalsInv, [A!Next]_(A!vars) PROVE SignalsInv'
  OBVIOUS
<1>1. CASE A!Next
  <2>1. ASSUME NEW t \in Signal \cup {Plain}, NEW u \in A!User, NEW once \in BOOLEAN,
               A!AddListener(t, u, once) \/ A!RemoveListener(t, u)
        PROVE  SignalsInv'
    BY <2>1, AddListenerStep, RemoveListenerStep
  <2>2. ASSUME NEW s \in A!Aborting,
               \/ s \in Signal /\ (A!CallAborts(s) \/ A!ScriptAborts(s))
               \/ \E f \in Fetch : A!StartFetch(f, s)
        PROVE  SignalsInv'
    BY <2>2, CallAbortsStep, ScriptAbortsStep, StartFetchStep
  <2>3. ASSUME NEW f \in Fetch,
               A!CallFetch(f) \/ \E how \in {"fulfilled", "rejected"} : A!FinishFetch(f, how)
        PROVE  SignalsInv'
    BY <2>3, CallFetchStep, FinishFetchStep
  <2>4. ASSUME NEW list \in A!Lists, A!Combine(list) PROVE SignalsInv'
    BY <2>4, CombineStep
  <2> QED BY <1>1, <2>1, <2>2, <2>3, <2>4, DispatchStep, ReturnsStep, CallThrowsStep,
             CallStopsStep, CallAnyStep DEF A!Next
<1>2. CASE UNCHANGED A!vars
  <2>1. UNCHANGED <<abortedFor, listeners, dispatches, combined, fetches, added, broke>>
    BY <1>2 DEF A!vars
  <2>2. SignalTypes' /\ FramesFit'
    BY <2>1 DEF SignalsInv, SignalTypes, FramesFit, Of
  <2>3. ListenersFit'
    BY <2>1 DEF SignalsInv, ListenersFit, Of, Single
  <2>4. FetchesFit' /\ AnyFits'
    BY <2>1 DEF SignalsInv, FetchesFit, AnyFits, Listens, Pending, Of
  <2> QED BY <2>2, <2>3, <2>4 DEF SignalsInv
<1> QED BY <1>1, <1>2

LEMMA SignalsFit == SignalsInv => A!TypeOK /\ A!FetchFollowsItsSignal /\ A!AnyFollowsItsSignals
<1> SUFFICES ASSUME SignalsInv PROVE A!TypeOK /\ A!FetchFollowsItsSignal /\ A!AnyFollowsItsSignals
  OBVIOUS
<1>1. SignalTypes
  BY DEF SignalsInv
<1>2. ASSUME NEW t \in A!Target
      PROVE  /\ DOMAIN listeners[t] = 1 .. Len(listeners[t])
             /\ \A i \in DOMAIN listeners[t] : listeners[t][i] \in Entries /\ listeners[t][i] \in Of(listeners[t])
  <2>1. listeners[t] \in Seq(Entries)
    BY <1>1 DEF SignalTypes
  <2> QED BY <2>1 DEF Of
<1>3. A!TypeOK
  BY <1>1, <1>2 DEF SignalTypes, Entries, A!TypeOK
<1>4. \A f \in Fetch : fetches[f].on \in A!Aborting /\ fetches[f].on \in A!Target
  BY <1>1 DEF SignalTypes, A!Target
<1>5. dispatches = <<>> => Of(dispatches) = {} /\ \A t, v : ~Pending(t, v)
  BY EmptyOf DEF Pending
<1>6. A!FetchFollowsItsSignal
  <2>1. ASSUME dispatches = <<>>, NEW f \in Fetch
        PROVE  /\ fetches[f].is = "waiting" /\ fetches[f].on \notin broke => abortedFor[fetches[f].on] = NoReason
               /\ fetches[f].is = "waiting" <=>
                    \E i \in DOMAIN listeners[fetches[f].on] : listeners[fetches[f].on][i].who = f
    <3> DEFINE on == fetches[f].on
    <3>1. on \in A!Target
      BY <1>4
    <3>2. fetches[f].is = "waiting" => Listens(on, f) /\ (abortedFor[on] = NoReason \/ on \in broke)
      BY <1>5, <2>1 DEF SignalsInv, FetchesFit
    <3>3. \A y \in Of(listeners[on]) : y.who = f => fetches[f].is = "waiting"
      BY <3>1 DEF SignalsInv, ListenersFit
    <3>4. Listens(on, f) <=> \E i \in DOMAIN listeners[on] : listeners[on][i].who = f
      BY <1>2, <3>1 DEF Listens, Of
    <3> QED BY <1>2, <3>1, <3>2, <3>3, <3>4
  <2> QED BY <2>1 DEF A!FetchFollowsItsSignal
<1>7. A!AnyFollowsItsSignals
  BY <1>5 DEF SignalsInv, AnyFits, A!AnyFollowsItsSignals
<1> QED BY <1>3, <1>6, <1>7

(* An abort reaches the fetch that has its signal and the signal that any  *)
(* combined from others, at any nesting of listeners that abort, throw or  *)
(* stop the dispatch (AbortSignal and EventTarget of web_api.js).          *)
THEOREM AbortsArrive == A!Spec => [](A!FetchFollowsItsSignal /\ A!AnyFollowsItsSignals)
  BY SignalsInit, SignalsStep, SignalsFit, PTL DEF A!Spec

-----------------------------------------------------------------------------
(* Streams: their chunks rise through the answers and then the queue.      *)
Replies == [to : R!Reader, with : {"chunk", "done", "error"}, chunk : Nat]
Streams == [queue : Seq(Nat), waiting : Seq(R!Reader), closing : BOOLEAN, ended : BOOLEAN,
            failed : BOOLEAN, locked : BOOLEAN, made : Nat, answers : Seq(Replies)]

Chunk(s, i) == i \in 1 .. Len(s.answers) /\ s.answers[i].with = "chunk"

StreamRises(s) ==
  /\ \A k \in 1 .. Len(s.queue) : s.queue[k] \in 1 .. s.made
  /\ \A i \in 1 .. Len(s.answers) : Chunk(s, i) => s.answers[i].chunk \in 1 .. s.made
  /\ \A i, j \in 1 .. Len(s.answers) :
       Chunk(s, i) /\ Chunk(s, j) /\ i < j => s.answers[i].chunk < s.answers[j].chunk
  /\ \A i \in 1 .. Len(s.answers), k \in 1 .. Len(s.queue) :
       Chunk(s, i) => s.answers[i].chunk < s.queue[k]
  /\ \A k, l \in 1 .. Len(s.queue) : k < l => s.queue[k] < s.queue[l]
  /\ \A c \in 1 .. s.made : \/ \E i \in 1 .. Len(s.answers) : Chunk(s, i) /\ s.answers[i].chunk = c
                            \/ \E k \in 1 .. Len(s.queue) : s.queue[k] = c

StreamShape(s) ==
  /\ s \in Streams /\ StreamRises(s)
  /\ s.closing => s.ended
  /\ \A i \in 1 .. Len(s.answers) : s.answers[i].with = "done" => s.ended

(* And a read waits only while there is nothing for it and more may come. *)
StreamFits(s) == StreamShape(s) /\ (s.waiting # <<>> => s.queue = <<>> /\ ~s.ended)

(* What the pump was answered after place h, and where it waits. *)
OutOf(a, h) == {i \in 1 .. Len(a) : i > h /\ a[i].to = "pump"}
In(w) == {i \in 1 .. Len(w) : w[i] = "pump"}
AtMostOne(S) == \A x, y \in S : x = y
One(s, h) == /\ AtMostOne(OutOf(s.answers, h)) /\ AtMostOne(In(s.waiting))
             /\ OutOf(s.answers, h) = {} \/ In(s.waiting) = {}
None(s, h) == OutOf(s.answers, h) = {} /\ In(s.waiting) = {}

Extends(s, r) ==
  /\ Len(s.answers) <= Len(r.answers)
  /\ \A i \in 1 .. Len(s.answers) : r.answers[i] = s.answers[i]
  /\ s.ended => r.ended

Keeps(s, r) == \A h \in 0 .. Len(s.answers) : (One(s, h) => One(r, h)) /\ (None(s, h) => None(r, h))

LEMMA OutAppended ==
  ASSUME NEW a \in Seq(Replies), NEW x \in Replies, NEW h \in 0 .. Len(a)
  PROVE  /\ Append(a, x) \in Seq(Replies) /\ Len(a) \in Nat /\ Len(Append(a, x)) = Len(a) + 1
         /\ \A i \in 1 .. Len(a) : Append(a, x)[i] = a[i]
         /\ Append(a, x)[Len(a) + 1] = x
         /\ OutOf(Append(a, x), h) = OutOf(a, h) \cup (IF x.to = "pump" THEN {Len(a) + 1} ELSE {})
<1>1. /\ Append(a, x) \in Seq(Replies) /\ Len(a) \in Nat /\ Len(Append(a, x)) = Len(a) + 1
      /\ \A i \in 1 .. Len(a) : Append(a, x)[i] = a[i]
      /\ Append(a, x)[Len(a) + 1] = x
  OBVIOUS
<1> DEFINE b == Append(a, x)
<1>2. PICK n \in Nat : n = Len(a) /\ Len(b) = n + 1
  BY <1>1
<1>3. /\ \A i \in 1 .. n : b[i] = a[i]
      /\ b[n + 1] = x /\ h \in 0 .. n
  BY <1>1, <1>2
<1> HIDE DEF b
<1>4. OutOf(b, h) = OutOf(a, h) \cup (IF x.to = "pump" THEN {n + 1} ELSE {})
  <2>1. \A i : i \in 1 .. n + 1 <=> i \in 1 .. n \/ i = n + 1
    BY <1>2
  <2>2. n + 1 > h
    BY <1>2, <1>3
  <2> QED BY <1>2, <1>3, <2>1, <2>2 DEF OutOf
<1> QED BY <1>1, <1>2, <1>4 DEF b

LEMMA InChanged ==
  ASSUME NEW w \in Seq(R!Reader)
  PROVE  /\ \A who \in R!Reader : In(Append(w, who)) = In(w) \cup (IF who = "pump" THEN {Len(w) + 1} ELSE {})
         /\ w # <<>> => /\ In(Tail(w)) = {i - 1 : i \in In(w) \ {1}}
                        /\ 1 \in In(w) <=> Head(w) = "pump"
         /\ In(<<>>) = {} /\ In(w) \subseteq Nat
<1>1. ASSUME NEW who \in R!Reader
      PROVE  In(Append(w, who)) = In(w) \cup (IF who = "pump" THEN {Len(w) + 1} ELSE {})
  <2> DEFINE b == Append(w, who)
  <2>1. /\ Len(w) \in Nat /\ Len(b) = Len(w) + 1
        /\ \A i \in 1 .. Len(w) : b[i] = w[i]
        /\ b[Len(w) + 1] = who
    OBVIOUS
  <2> HIDE DEF b
  <2>2. \A i : i \in 1 .. Len(w) + 1 <=> i \in 1 .. Len(w) \/ i = Len(w) + 1
    BY <2>1
  <2>3. In(b) = In(w) \cup (IF who = "pump" THEN {Len(w) + 1} ELSE {})
    BY <2>1, <2>2 DEF In
  <2> QED BY <2>3 DEF b
<1>2. ASSUME w # <<>>
      PROVE  In(Tail(w)) = {i - 1 : i \in In(w) \ {1}} /\ (1 \in In(w) <=> Head(w) = "pump")
  <2>1. Len(w) \in Nat \ {0} /\ Head(w) = w[1]
    BY <1>2, EmptySeq
  <2>2. Len(Tail(w)) = Len(w) - 1 /\ \A i \in 1 .. Len(w) - 1 : Tail(w)[i] = w[i + 1]
    BY <1>2, <2>1
  <2> DEFINE t == Tail(w)
             n == Len(w)
  <2>3. n \in Nat \ {0} /\ Len(t) = n - 1 /\ \A i \in 1 .. n - 1 : t[i] = w[i + 1]
    BY <2>1, <2>2
  <2> HIDE DEF t
  <2>4. \A i \in In(t) : i + 1 \in In(w) \ {1} /\ (i + 1) - 1 = i
    BY <2>3 DEF In
  <2>5. \A i \in In(w) \ {1} : i - 1 \in In(t)
    <3>1. SUFFICES ASSUME NEW i \in In(w) \ {1} PROVE i - 1 \in In(t)
      OBVIOUS
    <3>2. i \in 2 .. n /\ w[i] = "pump"
      BY <2>3 DEF In
    <3>3. i - 1 \in 1 .. n - 1 /\ (i - 1) + 1 = i
      BY <2>3, <3>2
    <3> QED BY <2>3, <3>2, <3>3 DEF In
  <2>6. In(t) = {i - 1 : i \in In(w) \ {1}}
    BY <2>4, <2>5
  <2>7. 1 \in In(w) <=> Head(w) = "pump"
    BY <2>1 DEF In
  <2> QED BY <2>6, <2>7 DEF t
<1>3. In(<<>>) = {} /\ In(w) \subseteq Nat
  BY DEF In
<1> QED BY <1>1, <1>2, <1>3

(* A stream that keeps its queue and chunks. *)
LEMMA RisesAlone ==
  ASSUME NEW s, NEW r, StreamRises(s), r.queue = s.queue, r.made = s.made, r.answers = s.answers
  PROVE  StreamRises(r)
BY DEF StreamRises, Chunk

(* An answer that is no chunk changes no order. *)
LEMMA RisesWithoutChunk ==
  ASSUME NEW s \in Streams, NEW r \in Streams, StreamRises(s), r.queue = s.queue, r.made = s.made,
         Len(s.answers) <= Len(r.answers),
         \A i \in 1 .. Len(s.answers) : r.answers[i] = s.answers[i],
         \A i \in 1 .. Len(r.answers) : i > Len(s.answers) => r.answers[i].with # "chunk"
  PROVE  StreamRises(r)
<1>1. Len(s.answers) \in Nat /\ Len(r.answers) \in Nat
  BY DEF Streams
<1>2. \A i : Chunk(r, i) <=> Chunk(s, i)
  <2>1. ASSUME NEW i, Chunk(r, i) PROVE Chunk(s, i)
    <3>1. i \in 1 .. Len(s.answers)
      BY <1>1, <2>1 DEF Chunk
    <3> QED BY <2>1, <3>1 DEF Chunk
  <2>2. ASSUME NEW i, Chunk(s, i) PROVE Chunk(r, i)
    BY <1>1, <2>2 DEF Chunk
  <2> QED BY <2>1, <2>2
<1>3. \A i : Chunk(s, i) => r.answers[i] = s.answers[i] /\ i \in 1 .. Len(s.answers) /\ i \in 1 .. Len(r.answers)
  BY <1>1 DEF Chunk
<1> QED BY <1>2, <1>3 DEF StreamRises

(* The next chunk is queued, or given to the first read that waits. *)
LEMMA EnqueueKeeps ==
  ASSUME NEW s, StreamFits(s)
  PROVE  LET r == R!Enqueue(s) IN
         /\ StreamFits(r) /\ Extends(s, r) /\ Keeps(s, r)
         /\ r.made = s.made + 1 /\ r.ended = s.ended /\ r.closing = s.closing
<1> DEFINE r == R!Enqueue(s)
           m == s.made + 1
<1>1. /\ s \in Streams /\ s.queue \in Seq(Nat) /\ s.waiting \in Seq(R!Reader) /\ s.made \in Nat
      /\ s.answers \in Seq(Replies) /\ m \in Nat /\ Len(s.queue) \in Nat /\ Len(s.answers) \in Nat
  BY DEF StreamFits, StreamShape, Streams
<1>2. CASE s.waiting = <<>>
  <2>1. r = [s EXCEPT !.queue = Append(s.queue, m), !.made = m]
    BY <1>2 DEF R!Enqueue
  <2>2. /\ r \in Streams /\ r.queue = Append(s.queue, m) /\ r.made = m /\ r.answers = s.answers
        /\ r.waiting = <<>> /\ r.closing = s.closing /\ r.ended = s.ended
    <3> DEFINE q == Append(s.queue, m)
    <3>1. q \in Seq(Nat) /\ m \in Nat
      BY <1>1
    <3> HIDE DEF q, m
    <3>2. r = [s EXCEPT !.queue = q, !.made = m]
      BY <2>1 DEF q
    <3> HIDE DEF r
    <3>3. /\ r \in Streams /\ r.queue = q /\ r.made = m /\ r.answers = s.answers
          /\ r.waiting = s.waiting /\ r.closing = s.closing /\ r.ended = s.ended
      BY <1>1, <3>1, <3>2 DEF Streams
    <3> QED BY <1>2, <3>3 DEF q
  <2>3. /\ Len(r.queue) = Len(s.queue) + 1 /\ r.queue[Len(s.queue) + 1] = m
        /\ \A k \in 1 .. Len(s.queue) : r.queue[k] = s.queue[k]
    BY <1>1, <2>2
  <2> HIDE DEF r, m
  <2>4. \A k : k \in 1 .. Len(r.queue) <=> k \in 1 .. Len(s.queue) \/ k = Len(s.queue) + 1
    BY <1>1, <2>3
  <2>5. \A i : Chunk(r, i) <=> Chunk(s, i)
    BY <2>2 DEF Chunk
  <2>6. StreamRises(s) /\ m = s.made + 1
    BY DEF StreamFits, StreamShape, m
  <2>7. StreamRises(r)
    <3>1. \A k \in 1 .. Len(s.queue) : s.queue[k] \in 1 .. s.made /\ s.queue[k] < m
      BY <1>1, <2>6 DEF StreamRises
    <3>2. \A k \in 1 .. Len(r.queue) : r.queue[k] \in 1 .. r.made
      BY <1>1, <2>2, <2>3, <2>4, <2>6, <3>1
    <3>3. \A i \in 1 .. Len(r.answers) : Chunk(r, i) => r.answers[i].chunk \in 1 .. r.made /\ r.answers[i].chunk < m
      BY <1>1, <2>2, <2>5, <2>6 DEF StreamRises
    <3>4. \A i, j \in 1 .. Len(r.answers) : Chunk(r, i) /\ Chunk(r, j) /\ i < j => r.answers[i].chunk < r.answers[j].chunk
      BY <2>2, <2>5, <2>6 DEF StreamRises
    <3>5. \A i \in 1 .. Len(r.answers), k \in 1 .. Len(r.queue) : Chunk(r, i) => r.answers[i].chunk < r.queue[k]
      BY <2>2, <2>3, <2>4, <2>5, <2>6, <3>3 DEF StreamRises
    <3>6. \A k, l \in 1 .. Len(r.queue) : k < l => r.queue[k] < r.queue[l]
      <4>1. SUFFICES ASSUME NEW k \in 1 .. Len(r.queue), NEW l \in 1 .. Len(r.queue), k < l
                     PROVE  r.queue[k] < r.queue[l]
        OBVIOUS
      <4>2. k \in 1 .. Len(s.queue)
        BY <1>1, <2>3, <4>1
      <4> QED BY <2>3, <2>4, <2>6, <3>1, <4>1, <4>2 DEF StreamRises
    <3>7. ASSUME NEW c \in 1 .. r.made
          PROVE  \/ \E i \in 1 .. Len(r.answers) : Chunk(r, i) /\ r.answers[i].chunk = c
                 \/ \E k \in 1 .. Len(r.queue) : r.queue[k] = c
      <4>1. CASE c = m
        BY <2>3, <2>4, <4>1
      <4>2. CASE c # m
        <5>1. c \in 1 .. s.made
          BY <1>1, <2>2, <2>6, <4>2
        <5>2. \/ \E i \in 1 .. Len(s.answers) : Chunk(s, i) /\ s.answers[i].chunk = c
              \/ \E k \in 1 .. Len(s.queue) : s.queue[k] = c
          BY <2>6, <5>1 DEF StreamRises
        <5> QED BY <2>2, <2>3, <2>4, <2>5, <5>2
      <4> QED BY <4>1, <4>2
    <3> QED BY <3>2, <3>3, <3>4, <3>5, <3>6, <3>7 DEF StreamRises
  <2>8. StreamFits(r)
    BY <2>2, <2>7 DEF StreamFits, StreamShape
  <2>9. Extends(s, r) /\ Keeps(s, r)
    BY <1>1, <1>2, <2>2 DEF Extends, Keeps, One, None
  <2> QED BY <2>2, <2>6, <2>8, <2>9 DEF r
<1>3. CASE s.waiting # <<>>
  <2> DEFINE x == [to |-> Head(s.waiting), with |-> "chunk", chunk |-> m]
  <2>1. s.queue = <<>> /\ ~s.ended
    BY <1>3 DEF StreamFits
  <2>2. Append(s.queue, m) = <<m>> /\ Head(Append(s.queue, m)) = m /\ Tail(Append(s.queue, m)) = <<>>
    BY <1>1, <2>1
  <2>3. r = [s EXCEPT !.made = m, !.waiting = Tail(s.waiting), !.queue = <<>>, !.answers = Append(s.answers, x)]
    BY <1>3, <2>2 DEF R!Enqueue, R!Reply
  <2>4. Tail(s.waiting) \in Seq(R!Reader) /\ Head(s.waiting) \in R!Reader
    BY <1>1, <1>3, HeadOf
  <2>5. x \in Replies /\ x.to = Head(s.waiting) /\ x.with = "chunk" /\ x.chunk = m
    BY <1>1, <2>4 DEF Replies
  <2> HIDE DEF x, m
  <2>6. /\ Append(s.answers, x) \in Seq(Replies) /\ Len(Append(s.answers, x)) = Len(s.answers) + 1
        /\ \A i \in 1 .. Len(s.answers) : Append(s.answers, x)[i] = s.answers[i]
        /\ Append(s.answers, x)[Len(s.answers) + 1] = x
        /\ \A h \in 0 .. Len(s.answers) : OutOf(Append(s.answers, x), h)
             = OutOf(s.answers, h) \cup (IF x.to = "pump" THEN {Len(s.answers) + 1} ELSE {})
    BY <1>1, <2>5, OutAppended
  <2>7. /\ r \in Streams /\ r.queue = <<>> /\ r.made = m /\ r.answers = Append(s.answers, x)
        /\ r.waiting = Tail(s.waiting) /\ r.closing = s.closing /\ r.ended = s.ended
    <3> DEFINE a == Append(s.answers, x)
               w == Tail(s.waiting)
    <3>1. a \in Seq(Replies) /\ w \in Seq(R!Reader) /\ <<>> \in Seq(Nat)
      BY <2>4, <2>6
    <3>2. r = [s EXCEPT !.made = m, !.waiting = w, !.queue = <<>>, !.answers = a]
      BY <2>3
    <3> HIDE DEF r, a, w
    <3>3. /\ r \in Streams /\ r.queue = <<>> /\ r.made = m /\ r.answers = a
          /\ r.waiting = w /\ r.closing = s.closing /\ r.ended = s.ended
      BY <1>1, <3>1, <3>2 DEF Streams
    <3> QED BY <3>3 DEF a, w
  <2> HIDE DEF r
  <2>8. /\ \A i : i \in 1 .. Len(r.answers) <=> i \in 1 .. Len(s.answers) \/ i = Len(s.answers) + 1
        /\ Len(r.queue) = 0
    BY <1>1, <2>6, <2>7
  <2>9. /\ \A i \in 1 .. Len(s.answers) : Chunk(r, i) <=> Chunk(s, i)
        /\ \A i \in 1 .. Len(s.answers) : r.answers[i] = s.answers[i]
        /\ r.answers[Len(s.answers) + 1] = x
    BY <2>6, <2>7, <2>8 DEF Chunk
  <2>10. StreamRises(s) /\ m = s.made + 1
    BY DEF StreamFits, StreamShape, m
  <2>11. StreamRises(r)
    <3>1. \A i \in 1 .. Len(s.answers) : Chunk(s, i) => s.answers[i].chunk \in 1 .. s.made /\ s.answers[i].chunk < m
      BY <1>1, <2>10 DEF StreamRises
    <3>2. \A k \in 1 .. Len(r.queue) : FALSE
      BY <2>8
    <3>3. \A i \in 1 .. Len(r.answers) : Chunk(r, i) => r.answers[i].chunk \in 1 .. r.made
      BY <1>1, <2>5, <2>7, <2>8, <2>9, <2>10, <3>1
    <3>4. ASSUME NEW i \in 1 .. Len(r.answers), NEW j \in 1 .. Len(r.answers), Chunk(r, i), Chunk(r, j), i < j
          PROVE  r.answers[i].chunk < r.answers[j].chunk
      <4>1. i \in 1 .. Len(s.answers)
        BY <1>1, <2>8, <3>4
      <4>2. CASE j \in 1 .. Len(s.answers)
        BY <2>9, <2>10, <3>4, <4>1, <4>2 DEF StreamRises
      <4>3. CASE j = Len(s.answers) + 1
        BY <2>5, <2>9, <3>1, <3>4, <4>1, <4>3
      <4> QED BY <2>8, <4>2, <4>3
    <3>5. ASSUME NEW c \in 1 .. r.made
          PROVE  \E i \in 1 .. Len(r.answers) : Chunk(r, i) /\ r.answers[i].chunk = c
      <4>1. CASE c = m
        BY <2>5, <2>8, <2>9, <4>1 DEF Chunk
      <4>2. CASE c # m
        <5>1. c \in 1 .. s.made
          BY <1>1, <2>7, <2>10, <4>2
        <5>2. \A k \in 1 .. Len(s.queue) : FALSE
          BY <2>1
        <5>3. \E i \in 1 .. Len(s.answers) : Chunk(s, i) /\ s.answers[i].chunk = c
          BY <2>10, <5>1, <5>2 DEF StreamRises
        <5> QED BY <2>8, <2>9, <5>3
      <4> QED BY <4>1, <4>2
    <3> QED BY <3>2, <3>3, <3>4, <3>5 DEF StreamRises
  <2>12. StreamFits(r)
    <3>1. \A i \in 1 .. Len(r.answers) : r.answers[i].with = "done" => r.ended
      BY <2>5, <2>7, <2>8, <2>9 DEF StreamFits, StreamShape
    <3>2. s.closing => s.ended
      BY DEF StreamFits, StreamShape
    <3> QED BY <2>1, <2>7, <2>11, <3>1, <3>2 DEF StreamFits, StreamShape
  <2>13. Extends(s, r)
    BY <1>1, <2>6, <2>7 DEF Extends
  <2>14. Keeps(s, r)
    <3>1. SUFFICES ASSUME NEW h \in 0 .. Len(s.answers)
                   PROVE  (One(s, h) => One(r, h)) /\ (None(s, h) => None(r, h))
      BY DEF Keeps
    <3>2. /\ In(r.waiting) = {i - 1 : i \in In(s.waiting) \ {1}}
          /\ 1 \in In(s.waiting) <=> x.to = "pump"
      BY <1>1, <1>3, <2>5, <2>7, InChanged
    <3>3. OutOf(r.answers, h) = OutOf(s.answers, h) \cup (IF x.to = "pump" THEN {Len(s.answers) + 1} ELSE {})
      BY <2>6, <2>7
    <3>4. CASE x.to = "pump"
      <4>1. One(s, h) => In(s.waiting) = {1} /\ OutOf(s.answers, h) = {}
        BY <3>2, <3>4 DEF One, AtMostOne
      <4>2. One(s, h) => In(r.waiting) = {} /\ OutOf(r.answers, h) = {Len(s.answers) + 1}
        BY <3>2, <3>3, <3>4, <4>1
      <4>3. ~None(s, h)
        BY <3>2, <3>4 DEF None
      <4> QED BY <4>2, <4>3 DEF One, AtMostOne
    <3>5. CASE x.to # "pump"
      <4>1. OutOf(r.answers, h) = OutOf(s.answers, h)
        BY <3>3, <3>5
      <4>2. In(s.waiting) = {} <=> In(r.waiting) = {}
        BY <3>2, <3>5
      <4>3. AtMostOne(In(s.waiting)) => AtMostOne(In(r.waiting))
        BY <3>2 DEF AtMostOne
      <4> QED BY <4>1, <4>2, <4>3 DEF One, None
    <3> QED BY <3>4, <3>5
  <2> QED BY <2>7, <2>10, <2>12, <2>13, <2>14 DEF r
<1> QED BY <1>2, <1>3

(* All who wait get one answer that is no chunk; what was set before, z,   *)
(* is between a stream that fits and one that has ended.                   *)
LEMMA AnswerAllKeeps ==
  ASSUME NEW s, StreamFits(s), NEW z \in Streams, NEW with \in {"done", "error"},
         z.queue = s.queue, z.waiting = s.waiting, z.made = s.made, z.answers = s.answers, z.ended = TRUE
  PROVE  LET r == R!AnswerAll(z, with) IN
         /\ StreamFits(r) /\ Extends(s, r) /\ Keeps(s, r)
         /\ r.made = s.made /\ r.ended = TRUE /\ r.closing = z.closing
<1> DEFINE r == R!AnswerAll(z, with)
           n == Len(s.answers)
           w == Len(s.waiting)
           more == [i \in DOMAIN z.waiting |-> R!Reply(z.waiting[i], with, 0)]
<1>1. /\ s \in Streams /\ s.waiting \in Seq(R!Reader) /\ s.answers \in Seq(Replies)
      /\ n \in Nat /\ w \in Nat /\ StreamRises(s)
  BY DEF StreamFits, StreamShape, Streams
<1>2. more \in Seq(Replies) /\ Len(more) = w /\ \A i \in 1 .. w : more[i] = [to |-> s.waiting[i], with |-> with, chunk |-> 0]
  <2>1. DOMAIN z.waiting = 1 .. w
    BY <1>1
  <2>2. \A i \in 1 .. w : s.waiting[i] \in R!Reader
    BY <1>1
  <2>3. \A i \in 1 .. w : [to |-> s.waiting[i], with |-> with, chunk |-> 0] \in Replies
    BY <2>2 DEF Replies
  <2>4. more = [i \in 1 .. w |-> [to |-> s.waiting[i], with |-> with, chunk |-> 0]]
    BY <2>1 DEF R!Reply
  <2> HIDE DEF more, w
  <2>5. more \in [1 .. w -> Replies]
    BY <2>3, <2>4
  <2> QED BY <1>1, <2>4, <2>5
<1>3. r = [z EXCEPT !.waiting = <<>>, !.answers = s.answers \o more]
  BY DEF R!AnswerAll
<1> HIDE DEF more
<1>4. /\ s.answers \o more \in Seq(Replies) /\ Len(s.answers \o more) = n + w
      /\ \A k \in 1 .. n + w : (s.answers \o more)[k] = IF k <= n THEN s.answers[k] ELSE more[k - n]
  <2> DEFINE p == s.answers
  <2>1. p \in Seq(Replies) /\ more \in Seq(Replies)
    BY <1>1, <1>2
  <2> HIDE DEF p
  <2>2. /\ p \o more \in Seq(Replies) /\ Len(p \o more) = Len(p) + Len(more)
        /\ \A k \in 1 .. Len(p) + Len(more) : (p \o more)[k] = IF k <= Len(p) THEN p[k] ELSE more[k - Len(p)]
    BY <2>1, ConcatProperties
  <2> QED BY <1>2, <2>2 DEF p
<1> DEFINE a == s.answers \o more
<1>5. /\ r \in Streams /\ r.queue = s.queue /\ r.waiting = <<>> /\ r.made = s.made /\ r.answers = a
      /\ r.ended = TRUE /\ r.closing = z.closing
  <2>1. a \in Seq(Replies) /\ <<>> \in Seq(R!Reader)
    BY <1>4
  <2>2. r = [z EXCEPT !.waiting = <<>>, !.answers = a]
    BY <1>3
  <2> HIDE DEF r, a
  <2> QED BY <2>1, <2>2 DEF Streams
<1>6. Len(a) = n + w /\ \A i \in 1 .. n : a[i] = s.answers[i]
  BY <1>1, <1>4
<1> HIDE DEF r, a, n, w
<1>7. ASSUME NEW i \in 1 .. w
      PROVE  n + i \in 1 .. Len(a) /\ a[n + i] = [to |-> s.waiting[i], with |-> with, chunk |-> 0]
  <2>1. n + i \in 1 .. n + w /\ ~(n + i <= n) /\ (n + i) - n = i
    BY <1>1
  <2> QED BY <1>2, <1>4, <1>6, <2>1 DEF a
<1>8. \A k \in 1 .. Len(a) : k \in 1 .. n \/ \E i \in 1 .. w : k = n + i
  <2>1. SUFFICES ASSUME NEW k \in 1 .. Len(a), k \notin 1 .. n PROVE \E i \in 1 .. w : k = n + i
    OBVIOUS
  <2>2. k - n \in 1 .. w /\ k = n + (k - n)
    BY <1>1, <1>6, <2>1
  <2> QED BY <2>2
<1>9. StreamRises(r)
  <2>1. \A i \in 1 .. Len(r.answers) : i > Len(s.answers) => r.answers[i].with # "chunk"
    <3>1. SUFFICES ASSUME NEW k \in 1 .. Len(a), k > n PROVE a[k].with # "chunk"
      BY <1>5 DEF n
    <3>2. PICK i \in 1 .. w : k = n + i
      BY <1>1, <1>8, <3>1
    <3>3. a[k] = [to |-> s.waiting[i], with |-> with, chunk |-> 0] /\ with # "chunk"
      BY <1>7, <3>2
    <3> QED BY <3>3
  <2>2. Len(s.answers) <= Len(r.answers) /\ \A i \in 1 .. Len(s.answers) : r.answers[i] = s.answers[i]
    BY <1>1, <1>5, <1>6 DEF n
  <2> QED BY <1>1, <1>5, <2>1, <2>2, RisesWithoutChunk
<1>10. StreamFits(r)
  BY <1>5, <1>9 DEF StreamFits, StreamShape
<1>11. Extends(s, r)
  BY <1>1, <1>5, <1>6 DEF Extends, n
<1>12. Keeps(s, r)
  <2>1. SUFFICES ASSUME NEW h \in 0 .. n PROVE (One(s, h) => One(r, h)) /\ (None(s, h) => None(r, h))
    BY DEF Keeps, n
  <2>2. In(r.waiting) = {}
    BY <1>1, <1>5, InChanged
  <2>3. \A k \in OutOf(a, h) : k \in OutOf(s.answers, h) \/ \E i \in In(s.waiting) : k = n + i
    <3>1. SUFFICES ASSUME NEW k \in OutOf(a, h), k \notin 1 .. n PROVE \E i \in In(s.waiting) : k = n + i
      BY <1>6 DEF OutOf, n
    <3>2. k \in 1 .. Len(a) /\ a[k].to = "pump"
      BY DEF OutOf
    <3>3. PICK i \in 1 .. w : k = n + i
      BY <1>8, <3>1, <3>2
    <3>4. i \in In(s.waiting)
      <4>1. a[k] = [to |-> s.waiting[i], with |-> with, chunk |-> 0]
        BY <1>7, <3>3
      <4>2. s.waiting[i] = "pump"
        BY <3>2, <4>1
      <4> QED BY <4>2 DEF In, w
    <3> QED BY <3>3, <3>4
  <2>4. One(s, h) => AtMostOne(OutOf(a, h))
    BY <2>3 DEF One, AtMostOne
  <2>5. None(s, h) => OutOf(a, h) = {}
    BY <2>3 DEF None
  <2> QED BY <1>5, <2>2, <2>4, <2>5 DEF One, None, AtMostOne
<1> QED BY <1>5, <1>10, <1>11, <1>12 DEF r

LEMMA CloseKeeps ==
  ASSUME NEW s, StreamFits(s)
  PROVE  LET r == R!Close(s) IN
         StreamFits(r) /\ Extends(s, r) /\ Keeps(s, r) /\ r.made = s.made /\ r.ended = TRUE /\ r.closing = TRUE
<1>1. s \in Streams /\ s.closing \in BOOLEAN /\ s.ended \in BOOLEAN /\ (s.closing => s.ended) /\ Len(s.answers) \in Nat
  BY DEF StreamFits, StreamShape, Streams
<1>2. CASE s.closing
  <2>1. R!Close(s) = s
    BY <1>2 DEF R!Close
  <2> QED BY <1>1, <1>2, <2>1 DEF Extends, Keeps
<1>3. CASE ~s.closing
  <2> DEFINE z == [s EXCEPT !.closing = TRUE, !.ended = TRUE]
  <2>1. R!Close(s) = R!AnswerAll(z, "done")
    BY <1>3 DEF R!Close, R!Done
  <2>2. /\ z \in Streams /\ z.queue = s.queue /\ z.waiting = s.waiting /\ z.made = s.made
        /\ z.answers = s.answers /\ z.ended = TRUE /\ z.closing = TRUE
    BY <1>1 DEF Streams
  <2> HIDE DEF z
  <2>3. LET r == R!AnswerAll(z, "done") IN
        /\ StreamFits(r) /\ Extends(s, r) /\ Keeps(s, r)
        /\ r.made = s.made /\ r.ended = TRUE /\ r.closing = z.closing
    BY <2>2, AnswerAllKeeps
  <2> QED BY <2>1, <2>2, <2>3
<1> QED BY <1>2, <1>3

LEMMA ErrorKeeps ==
  ASSUME NEW s, StreamFits(s)
  PROVE  LET r == R!Error(s) IN
         StreamFits(r) /\ Extends(s, r) /\ Keeps(s, r) /\ r.made = s.made
<1> DEFINE z == [s EXCEPT !.failed = TRUE, !.ended = TRUE]
<1>1. s \in Streams
  BY DEF StreamFits, StreamShape
<1>2. R!Error(s) = R!AnswerAll(z, "error")
  BY DEF R!Error, R!Failure
<1>3. /\ z \in Streams /\ z.queue = s.queue /\ z.waiting = s.waiting /\ z.made = s.made
      /\ z.answers = s.answers /\ z.ended = TRUE
  BY <1>1 DEF Streams
<1> HIDE DEF z
<1>4. LET r == R!AnswerAll(z, "error") IN
      StreamFits(r) /\ Extends(s, r) /\ Keeps(s, r) /\ r.made = s.made
  BY <1>3, AnswerAllKeeps
<1> QED BY <1>2, <1>4

(* What pull does; the last chunk is the bound.                            *)
LEMMA PulledKeeps ==
  ASSUME NEW s, StreamFits(s), s.made <= MaxPulled, NEW what \in R!Pulls
  PROVE  LET r == R!Pulled(s, what) IN
         /\ StreamFits(r) /\ Extends(s, r) /\ Keeps(s, r) /\ r.made <= MaxPulled
         /\ what = "nothing" => r = s
<1>1. s.made \in Nat /\ MaxPulled \in Nat /\ Len(s.answers) \in Nat
  BY StreamsAssumption DEF StreamFits, StreamShape, Streams
<1>2. CASE what = "chunk" /\ ~s.closing /\ s.made < MaxPulled
  <2>1. R!Pulled(s, what) = R!Enqueue(s)
    BY <1>2 DEF R!Pulled
  <2>2. what # "nothing"
    BY <1>2
  <2> QED BY <1>1, <1>2, <2>1, <2>2, EnqueueKeeps
<1>3. CASE what = "close"
  <2>1. R!Pulled(s, what) = R!Close(s)
    BY <1>3 DEF R!Pulled
  <2>2. what # "nothing"
    BY <1>3
  <2> QED BY <2>1, <2>2, CloseKeeps
<1>4. CASE what = "error"
  <2>1. R!Pulled(s, what) = R!Error(s)
    BY <1>4 DEF R!Pulled
  <2>2. what # "nothing"
    BY <1>4
  <2> QED BY <2>1, <2>2, ErrorKeeps
<1>5. CASE ~(what = "chunk" /\ ~s.closing /\ s.made < MaxPulled) /\ what # "close" /\ what # "error"
  <2>1. R!Pulled(s, what) = s
    BY <1>5 DEF R!Pulled
  <2> QED BY <1>1, <2>1 DEF Extends, Keeps
<1> QED BY <1>2, <1>3, <1>4, <1>5

(* A read is answered from the queue, by the end, or it waits. *)
LEMMA AnsweredKeeps ==
  ASSUME NEW s, StreamFits(s), NEW x \in Replies, NEW r \in Streams, NEW w,
         w = x.to, r.answers = Append(s.answers, x), r.waiting = s.waiting, r.ended = s.ended
  PROVE  /\ Extends(s, r)
         /\ x.to # "pump" => Keeps(s, r)
         /\ \A h \in 0 .. Len(s.answers) : None(s, h) => One(r, h)
<1>1. s.answers \in Seq(Replies)
  BY DEF StreamFits, StreamShape, Streams
<1>2. /\ Len(s.answers) \in Nat /\ Len(r.answers) = Len(s.answers) + 1
      /\ \A i \in 1 .. Len(s.answers) : r.answers[i] = s.answers[i]
      /\ \A h \in 0 .. Len(s.answers) : OutOf(r.answers, h)
           = OutOf(s.answers, h) \cup (IF x.to = "pump" THEN {Len(s.answers) + 1} ELSE {})
  BY <1>1, OutAppended
<1>3. Extends(s, r)
  BY <1>2 DEF Extends
<1>4. x.to # "pump" => Keeps(s, r)
  BY <1>2 DEF Keeps, One, None
<1>5. \A h \in 0 .. Len(s.answers) : None(s, h) => One(r, h)
  BY <1>2 DEF One, None, AtMostOne
<1> QED BY <1>3, <1>4, <1>5

LEMMA ServedKeeps ==
  ASSUME NEW s, StreamFits(s), NEW who \in R!Reader
  PROVE  LET r == R!Served(s, who) IN
         /\ StreamFits(r) /\ Extends(s, r) /\ r.made = s.made /\ r.ended = s.ended /\ r.closing = s.closing
         /\ who # "pump" => Keeps(s, r)
         /\ \A h \in 0 .. Len(s.answers) : None(s, h) => One(r, h)
<1> DEFINE r == R!Served(s, who)
<1>1. /\ s \in Streams /\ s.queue \in Seq(Nat) /\ s.waiting \in Seq(R!Reader) /\ s.answers \in Seq(Replies)
      /\ Len(s.answers) \in Nat /\ Len(s.queue) \in Nat /\ StreamRises(s)
      /\ s.closing \in BOOLEAN /\ s.ended \in BOOLEAN
      /\ s.closing => s.ended
      /\ \A i \in 1 .. Len(s.answers) : s.answers[i].with = "done" => s.ended
  BY DEF StreamFits, StreamShape, Streams
<1>2. CASE s.queue # <<>>
  <2> DEFINE c == Head(s.queue)
             q == Tail(s.queue)
             x == [to |-> who, with |-> "chunk", chunk |-> c]
             a == Append(s.answers, x)
  <2>1. /\ c \in Nat /\ q \in Seq(Nat) /\ c = s.queue[1] /\ Len(q) = Len(s.queue) - 1 /\ Len(s.queue) \in Nat \ {0}
        /\ \A k \in 1 .. Len(s.queue) - 1 : q[k] = s.queue[k + 1]
    BY <1>1, <1>2, HeadOf
  <2>2. r = [s EXCEPT !.queue = q, !.answers = a]
    BY <1>2 DEF R!Served, R!Reply
  <2> HIDE DEF c, q
  <2>3. x \in Replies /\ x.to = who /\ x.with = "chunk" /\ x.chunk = c
    BY <2>1 DEF Replies
  <2> HIDE DEF x
  <2>4. /\ a \in Seq(Replies) /\ Len(a) = Len(s.answers) + 1
        /\ \A i \in 1 .. Len(s.answers) : a[i] = s.answers[i]
        /\ a[Len(s.answers) + 1] = x
    BY <1>1, <2>3, OutAppended
  <2> HIDE DEF a, r
  <2>5. /\ r \in Streams /\ r.queue = q /\ r.answers = a /\ r.waiting = s.waiting /\ r.made = s.made
        /\ r.closing = s.closing /\ r.ended = s.ended
    BY <1>1, <2>1, <2>2, <2>4 DEF Streams
  <2>6. /\ \A i : i \in 1 .. Len(r.answers) <=> i \in 1 .. Len(s.answers) \/ i = Len(s.answers) + 1
        /\ \A k \in 1 .. Len(r.queue) : k + 1 \in 1 .. Len(s.queue) /\ k + 1 > 1 /\ r.queue[k] = s.queue[k + 1]
        /\ \A k \in 1 .. Len(s.queue) : k = 1 \/ (k - 1 \in 1 .. Len(r.queue) /\ r.queue[k - 1] = s.queue[k])
        /\ 1 \in 1 .. Len(s.queue)
    <3>1. Len(r.queue) = Len(s.queue) - 1
      BY <2>1, <2>5
    <3>2. \A i : i \in 1 .. Len(r.answers) <=> i \in 1 .. Len(s.answers) \/ i = Len(s.answers) + 1
      BY <1>1, <2>4, <2>5
    <3>3. \A k \in 1 .. Len(r.queue) : k + 1 \in 1 .. Len(s.queue) /\ k + 1 > 1 /\ r.queue[k] = s.queue[k + 1]
      BY <2>1, <2>5, <3>1
    <3>4. ASSUME NEW k \in 1 .. Len(s.queue), k # 1
          PROVE  k - 1 \in 1 .. Len(r.queue) /\ r.queue[k - 1] = s.queue[k]
      <4>1. k - 1 \in 1 .. Len(s.queue) - 1 /\ (k - 1) + 1 = k
        BY <1>1, <3>4
      <4> QED BY <2>1, <2>5, <3>1, <4>1
    <3> QED BY <2>1, <3>2, <3>3, <3>4
  <2>7. /\ \A i \in 1 .. Len(s.answers) : Chunk(r, i) <=> Chunk(s, i)
        /\ \A i \in 1 .. Len(s.answers) : r.answers[i] = s.answers[i]
        /\ r.answers[Len(s.answers) + 1] = x /\ Chunk(r, Len(s.answers) + 1)
    BY <2>3, <2>4, <2>5, <2>6 DEF Chunk
  <2>8. StreamRises(r)
    <3>1. ASSUME NEW k \in 1 .. Len(r.queue) PROVE r.queue[k] \in 1 .. r.made /\ c < r.queue[k]
      <4>1. k + 1 \in 1 .. Len(s.queue) /\ 1 < k + 1 /\ r.queue[k] = s.queue[k + 1]
        BY <1>1, <2>1, <2>6
      <4> DEFINE l == k + 1
      <4>2. l \in 1 .. Len(s.queue) /\ 1 < l /\ r.queue[k] = s.queue[l] /\ 1 \in 1 .. Len(s.queue)
        BY <2>6, <4>1
      <4> HIDE DEF l
      <4>3. s.queue[l] \in 1 .. s.made /\ s.queue[1] < s.queue[l]
        BY <1>1, <4>2 DEF StreamRises
      <4> QED BY <2>1, <2>5, <4>2, <4>3
    <3>2. c \in 1 .. r.made /\ \A i \in 1 .. Len(s.answers) : Chunk(s, i) => s.answers[i].chunk < c
      BY <1>1, <2>1, <2>5, <2>6 DEF StreamRises
    <3>3. \A i \in 1 .. Len(r.answers) : Chunk(r, i) => r.answers[i].chunk \in 1 .. r.made
      BY <1>1, <2>3, <2>5, <2>6, <2>7, <3>2 DEF StreamRises
    <3>4. ASSUME NEW i \in 1 .. Len(r.answers), NEW j \in 1 .. Len(r.answers), Chunk(r, i), Chunk(r, j), i < j
          PROVE  r.answers[i].chunk < r.answers[j].chunk
      <4>1. i \in 1 .. Len(s.answers)
        <5>1. i \in 1 .. Len(s.answers) + 1 /\ j \in 1 .. Len(s.answers) + 1
          BY <2>4, <2>5
        <5> QED BY <1>1, <3>4, <5>1
      <4>2. CASE j \in 1 .. Len(s.answers)
        BY <1>1, <2>7, <3>4, <4>1, <4>2 DEF StreamRises
      <4>3. CASE j = Len(s.answers) + 1
        BY <2>3, <2>7, <3>2, <3>4, <4>1, <4>3
      <4> QED BY <2>6, <4>2, <4>3
    <3>5. ASSUME NEW i \in 1 .. Len(r.answers), NEW k \in 1 .. Len(r.queue), Chunk(r, i)
          PROVE  r.answers[i].chunk < r.queue[k]
      <4>1. CASE i \in 1 .. Len(s.answers)
        <5> DEFINE l == k + 1
        <5>1. l \in 1 .. Len(s.queue) /\ r.queue[k] = s.queue[l]
          BY <2>6
        <5> HIDE DEF l
        <5>2. Chunk(s, i) /\ r.answers[i] = s.answers[i]
          BY <2>7, <3>5, <4>1
        <5>3. s.answers[i].chunk < s.queue[l]
          BY <1>1, <4>1, <5>1, <5>2 DEF StreamRises
        <5> QED BY <5>1, <5>2, <5>3
      <4>2. CASE i = Len(s.answers) + 1
        BY <2>3, <2>7, <3>1, <4>2
      <4> QED BY <2>6, <4>1, <4>2
    <3>6. ASSUME NEW k \in 1 .. Len(r.queue), NEW l \in 1 .. Len(r.queue), k < l PROVE r.queue[k] < r.queue[l]
      <4>1. k + 1 < l + 1 /\ k + 1 \in 1 .. Len(s.queue) /\ l + 1 \in 1 .. Len(s.queue)
        BY <2>6, <3>6
      <4> QED BY <1>1, <2>6, <4>1 DEF StreamRises
    <3>7. ASSUME NEW d \in 1 .. r.made
          PROVE  \/ \E i \in 1 .. Len(r.answers) : Chunk(r, i) /\ r.answers[i].chunk = d
                 \/ \E k \in 1 .. Len(r.queue) : r.queue[k] = d
      <4>1. \/ \E i \in 1 .. Len(s.answers) : Chunk(s, i) /\ s.answers[i].chunk = d
            \/ \E k \in 1 .. Len(s.queue) : s.queue[k] = d
        BY <1>1, <2>5 DEF StreamRises
      <4>2. CASE \E i \in 1 .. Len(s.answers) : Chunk(s, i) /\ s.answers[i].chunk = d
        BY <2>6, <2>7, <4>2
      <4>3. CASE \E k \in 1 .. Len(s.queue) : s.queue[k] = d
        <5>1. PICK k \in 1 .. Len(s.queue) : s.queue[k] = d
          BY <4>3
        <5>2. CASE k = 1
          <6>1. Len(s.answers) + 1 \in 1 .. Len(r.answers) /\ r.answers[Len(s.answers) + 1].chunk = d
            BY <2>1, <2>3, <2>6, <2>7, <5>1, <5>2
          <6> QED BY <2>7, <6>1
        <5> QED BY <2>6, <5>1, <5>2
      <4> QED BY <4>1, <4>2, <4>3
    <3> QED BY <3>1, <3>3, <3>4, <3>5, <3>6, <3>7 DEF StreamRises
  <2>9. s.waiting = <<>>
    BY <1>2 DEF StreamFits
  <2>10. \A i \in 1 .. Len(r.answers) : r.answers[i].with = "done" => r.ended
    BY <1>1, <2>3, <2>5, <2>6, <2>7
  <2>11. StreamFits(r)
    BY <1>1, <2>5, <2>8, <2>9, <2>10 DEF StreamFits, StreamShape
  <2>12. /\ Extends(s, r) /\ (who # "pump" => Keeps(s, r))
         /\ \A h \in 0 .. Len(s.answers) : None(s, h) => One(r, h)
    BY <2>3, <2>5, AnsweredKeeps DEF a
  <2> QED BY <2>5, <2>11, <2>12 DEF r
<1>3. CASE s.queue = <<>> /\ s.ended
  <2> DEFINE x == [to |-> who, with |-> "done", chunk |-> 0]
             a == Append(s.answers, x)
  <2>1. r = [s EXCEPT !.answers = a]
    BY <1>3 DEF R!Served, R!Reply, R!Done
  <2>2. x \in Replies /\ x.to = who /\ x.with = "done"
    BY DEF Replies
  <2> HIDE DEF x
  <2>3. /\ a \in Seq(Replies) /\ Len(a) = Len(s.answers) + 1
        /\ \A i \in 1 .. Len(s.answers) : a[i] = s.answers[i]
        /\ a[Len(s.answers) + 1] = x
    BY <1>1, <2>2, OutAppended
  <2> HIDE DEF a, r
  <2>4. /\ r \in Streams /\ r.queue = s.queue /\ r.answers = a /\ r.waiting = s.waiting /\ r.made = s.made
        /\ r.closing = s.closing /\ r.ended = s.ended
    BY <1>1, <2>1, <2>3 DEF Streams
  <2>5. \A i \in 1 .. Len(r.answers) : i > Len(s.answers) => r.answers[i].with # "chunk"
    <3>1. \A i \in 1 .. Len(r.answers) : i > Len(s.answers) => i = Len(s.answers) + 1
      BY <1>1, <2>3, <2>4
    <3> QED BY <2>2, <2>3, <2>4, <3>1
  <2>6. StreamRises(r)
    BY <1>1, <2>3, <2>4, <2>5, RisesWithoutChunk
  <2>7. StreamFits(r)
    BY <1>1, <1>3, <2>4, <2>6 DEF StreamFits, StreamShape
  <2>8. /\ Extends(s, r) /\ (who # "pump" => Keeps(s, r))
        /\ \A h \in 0 .. Len(s.answers) : None(s, h) => One(r, h)
    BY <2>2, <2>4, AnsweredKeeps DEF a
  <2> QED BY <2>4, <2>7, <2>8 DEF r
<1>4. CASE s.queue = <<>> /\ ~s.ended
  <2> DEFINE w == Append(s.waiting, who)
  <2>1. r = [s EXCEPT !.waiting = w]
    BY <1>4 DEF R!Served
  <2>2. /\ w \in Seq(R!Reader)
        /\ In(w) = In(s.waiting) \cup (IF who = "pump" THEN {Len(s.waiting) + 1} ELSE {})
    BY <1>1, InChanged
  <2> HIDE DEF w, r
  <2>3. /\ r \in Streams /\ r.queue = s.queue /\ r.answers = s.answers /\ r.waiting = w /\ r.made = s.made
        /\ r.closing = s.closing /\ r.ended = s.ended
    BY <1>1, <2>1, <2>2 DEF Streams
  <2>4. StreamRises(r)
    BY <1>1, <2>3, RisesAlone
  <2>5. StreamFits(r)
    BY <1>1, <1>4, <2>3, <2>4 DEF StreamFits, StreamShape
  <2>6. Extends(s, r)
    BY <1>1, <2>3 DEF Extends
  <2>6a. who # "pump" => Keeps(s, r)
    <3>1. SUFFICES ASSUME who # "pump" PROVE Keeps(s, r)
      OBVIOUS
    <3>2. In(r.waiting) = In(s.waiting) /\ r.answers = s.answers
      BY <2>2, <2>3, <3>1
    <3> QED BY <3>2 DEF Keeps, One, None
  <2>7. \A h \in 0 .. Len(s.answers) : None(s, h) => One(r, h)
    BY <2>2, <2>3 DEF One, None, AtMostOne
  <2> QED BY <2>3, <2>5, <2>6, <2>6a, <2>7 DEF r
<1> QED BY <1>2, <1>3, <1>4

(* The pump reads only when it waits for nothing.                          *)
LEMMA ReadKeeps ==
  ASSUME NEW s, StreamFits(s), s.made <= MaxPulled, NEW who \in R!Reader, NEW what \in R!Pulls
  PROVE  LET r == R!Read(s, who, what) IN
         /\ StreamFits(r) /\ Extends(s, r) /\ r.made <= MaxPulled
         /\ who # "pump" => Keeps(s, r)
         /\ \A h \in 0 .. Len(s.answers) : None(s, h) => One(r, h)
<1> DEFINE r == R!Read(s, who, what)
<1>1. /\ s \in Streams /\ s.answers \in Seq(Replies) /\ Len(s.answers) \in Nat /\ StreamRises(s)
      /\ s.closing => s.ended
      /\ \A i \in 1 .. Len(s.answers) : s.answers[i].with = "done" => s.ended
  BY DEF StreamFits, StreamShape, Streams
<1>2. CASE s.failed
  <2> DEFINE x == [to |-> who, with |-> "error", chunk |-> 0]
             a == Append(s.answers, x)
  <2>1. r = [s EXCEPT !.answers = a]
    BY <1>2 DEF R!Read, R!Reply, R!Failure
  <2>2. x \in Replies /\ x.to = who /\ x.with = "error"
    BY DEF Replies
  <2> HIDE DEF x
  <2>3. /\ a \in Seq(Replies) /\ Len(a) = Len(s.answers) + 1
        /\ \A i \in 1 .. Len(s.answers) : a[i] = s.answers[i]
        /\ a[Len(s.answers) + 1] = x
    BY <1>1, <2>2, OutAppended
  <2> HIDE DEF a, r
  <2>4. /\ r \in Streams /\ r.queue = s.queue /\ r.answers = a /\ r.waiting = s.waiting /\ r.made = s.made
        /\ r.closing = s.closing /\ r.ended = s.ended
    BY <1>1, <2>1, <2>3 DEF Streams
  <2>5. /\ \A i \in 1 .. Len(r.answers) : i > Len(s.answers) => r.answers[i].with = "error"
        /\ \A i \in 1 .. Len(r.answers) : i \in 1 .. Len(s.answers) \/ i > Len(s.answers)
    <3>1. \A i \in 1 .. Len(r.answers) : i > Len(s.answers) => i = Len(s.answers) + 1
      BY <1>1, <2>3, <2>4
    <3>2. \A i \in 1 .. Len(r.answers) : i \in 1 .. Len(s.answers) \/ i > Len(s.answers)
      BY <1>1, <2>3, <2>4
    <3> QED BY <2>2, <2>3, <2>4, <3>1, <3>2
  <2>6. StreamRises(r)
    BY <1>1, <2>3, <2>4, <2>5, RisesWithoutChunk
  <2>7. \A i \in 1 .. Len(r.answers) : r.answers[i].with = "done" => r.ended
    BY <1>1, <2>3, <2>4, <2>5
  <2>8. StreamFits(r)
    BY <1>1, <2>4, <2>6, <2>7 DEF StreamFits, StreamShape
  <2>9. /\ Extends(s, r) /\ (who # "pump" => Keeps(s, r))
        /\ \A h \in 0 .. Len(s.answers) : None(s, h) => One(r, h)
    BY <2>2, <2>4, AnsweredKeeps DEF a
  <2> QED BY <2>4, <2>8, <2>9 DEF r
<1>3. CASE ~s.failed /\ (s.queue # <<>> \/ s.ended)
  <2>1. r = R!Served(s, who)
    BY <1>3 DEF R!Read
  <2>2. LET z == R!Served(s, who) IN
         /\ StreamFits(z) /\ Extends(s, z) /\ z.made = s.made
         /\ who # "pump" => Keeps(s, z)
         /\ \A h \in 0 .. Len(s.answers) : None(s, h) => One(z, h)
    BY ServedKeeps
  <2> QED BY <2>1, <2>2
<1>4. CASE ~s.failed /\ ~(s.queue # <<>> \/ s.ended)
  <2> DEFINE p == R!Pulled(s, what)
             z == R!Served(p, who)
  <2>1. r = z
    BY <1>4 DEF R!Read
  <2>2. StreamFits(p) /\ Extends(s, p) /\ Keeps(s, p) /\ p.made <= MaxPulled
    BY PulledKeeps
  <2> HIDE DEF p
  <2>3. /\ StreamFits(z) /\ Extends(p, z) /\ z.made = p.made
        /\ who # "pump" => Keeps(p, z)
        /\ \A h \in 0 .. Len(p.answers) : None(p, h) => One(z, h)
    BY <2>2, ServedKeeps
  <2> HIDE DEF z, r
  <2>4. Len(p.answers) \in Nat /\ Len(z.answers) \in Nat
    <3>1. p \in Streams /\ z \in Streams
      BY <2>2, <2>3 DEF StreamFits, StreamShape
    <3> QED BY <3>1 DEF Streams
  <2>5. \A h \in 0 .. Len(s.answers) : h \in 0 .. Len(p.answers)
    BY <1>1, <2>2, <2>4 DEF Extends
  <2>6. Extends(s, z)
    BY <1>1, <2>2, <2>3, <2>4 DEF Extends
  <2>7. who # "pump" => Keeps(s, z)
    BY <2>2, <2>3, <2>5 DEF Keeps
  <2>8. \A h \in 0 .. Len(s.answers) : None(s, h) => One(z, h)
    BY <2>2, <2>3, <2>5 DEF Keeps
  <2>9. StreamFits(r) /\ Extends(s, r) /\ r.made <= MaxPulled
    BY <2>1, <2>2, <2>3, <2>6
  <2> QED BY <2>1, <2>7, <2>8, <2>9 DEF r
<1> QED BY <1>2, <1>3, <1>4

(* A script reads the output, whose source has no pull. *)
LEMMA OutputReadKeeps ==
  ASSUME NEW s, StreamFits(s), NEW who \in R!Reader, s.made <= MaxPulled
  PROVE  LET r == R!Read(s, who, "nothing") IN
         StreamFits(r) /\ r.made = s.made /\ r.ended = s.ended
<1>1. s \in Streams
  BY DEF StreamFits, StreamShape
<1>2. "nothing" \in R!Pulls
  BY DEF R!Pulls
<1>3. StreamFits(R!Read(s, who, "nothing"))
  BY <1>2, ReadKeeps
<1>4. R!Pulled(s, "nothing") = s
  BY <1>2, PulledKeeps
<1>5. CASE s.failed
  <2>1. R!Read(s, who, "nothing") = [s EXCEPT !.answers = Append(s.answers, R!Reply(who, R!Failure, 0))]
    BY <1>5 DEF R!Read
  <2>2. R!Read(s, who, "nothing").made = s.made /\ R!Read(s, who, "nothing").ended = s.ended
    BY <1>1, <2>1 DEF Streams
  <2> QED BY <1>3, <2>2
<1>6. CASE ~s.failed
  <2>1. R!Read(s, who, "nothing") = R!Served(s, who)
    BY <1>4, <1>6 DEF R!Read
  <2>2. R!Served(s, who).made = s.made /\ R!Served(s, who).ended = s.ended
    BY ServedKeeps
  <2> QED BY <1>3, <2>1, <2>2
<1> QED BY <1>5, <1>6

(* The lock is none of this. *)
LEMMA LockKeeps ==
  ASSUME NEW s, StreamFits(s), NEW b \in BOOLEAN
  PROVE  LET r == [s EXCEPT !.locked = b] IN
         /\ StreamFits(r) /\ Extends(s, r) /\ Keeps(s, r)
         /\ r.made = s.made /\ r.ended = s.ended /\ r.closing = s.closing /\ r.answers = s.answers
<1> DEFINE r == [s EXCEPT !.locked = b]
<1>1. s \in Streams /\ StreamRises(s)
  BY DEF StreamFits, StreamShape
<1>2. /\ r \in Streams /\ r.queue = s.queue /\ r.answers = s.answers /\ r.waiting = s.waiting /\ r.made = s.made
      /\ r.closing = s.closing /\ r.ended = s.ended
  BY <1>1 DEF Streams
<1> HIDE DEF r
<1>3. StreamRises(r)
  BY <1>1, <1>2, RisesAlone
<1>4. StreamFits(r)
  BY <1>2, <1>3 DEF StreamFits, StreamShape
<1>5. Len(s.answers) \in Nat
  BY <1>1 DEF Streams
<1>6. Extends(s, r) /\ Keeps(s, r)
  BY <1>2, <1>5 DEF Extends, Keeps, One, None
<1> QED BY <1>2, <1>4, <1>6 DEF r

-----------------------------------------------------------------------------
(* The pipe: what was written, w, is what the pump was given up to place h. *)
ForPump(s, i) == Chunk(s, i) /\ s.answers[i].to = "pump"

Wrote(w, s, h) ==
  /\ w \in Seq(Nat)
  /\ \A k \in 1 .. Len(w) : k <= w[k]
  /\ \A k, l \in 1 .. Len(w) : k < l => w[k] < w[l]
  /\ \A k \in 1 .. Len(w) : \E i \in 1 .. h : ForPump(s, i) /\ s.answers[i].chunk = w[k]
  /\ \A i \in 1 .. h : ForPump(s, i) => \E k \in 1 .. Len(w) : w[k] = s.answers[i].chunk

(* The pump waits for one answer at most, and for none unless it reads; it *)
(* closes the output, and only after the source ended.                     *)
PipeInv ==
  /\ StreamFits(source) /\ source.made <= MaxPulled
  /\ StreamFits(output)
  /\ pump \in R!Pumps /\ broken \subseteq {"write", "flush", "cancel"}
  /\ handled \in 0 .. Len(source.answers)
  /\ One(source, handled) /\ (pump # "reading" => None(source, handled))
  /\ Wrote(written, source, handled)
  /\ output.made <= Len(written)
  /\ output.ended => pump = "closed" /\ source.ended
  /\ pump = "closed" /\ "flush" \notin broken => output.ended
  /\ broken = {} => output.made = Len(written)

(* The source goes on, and the pipe with it. *)
LEMMA SourceGoesOn ==
  ASSUME PipeInv, NEW r, StreamFits(r), r.made <= MaxPulled, Extends(source, r)
  PROVE  /\ handled \in 0 .. Len(r.answers)
         /\ Wrote(written, r, handled)
         /\ output.ended => r.ended
         /\ Keeps(source, r) => One(r, handled) /\ (pump # "reading" => None(r, handled))
<1>1. source \in Streams /\ r \in Streams
  BY DEF PipeInv, StreamFits, StreamShape
<1>2. /\ Len(source.answers) \in Nat /\ Len(r.answers) \in Nat /\ handled \in 0 .. Len(source.answers)
      /\ Len(source.answers) <= Len(r.answers)
      /\ \A i \in 1 .. Len(source.answers) : r.answers[i] = source.answers[i]
  BY <1>1 DEF PipeInv, Streams, Extends
<1>3. \A i \in 1 .. handled : i \in 1 .. Len(source.answers) /\ i \in 1 .. Len(r.answers)
  BY <1>2
<1>4. \A i \in 1 .. handled : (ForPump(r, i) <=> ForPump(source, i)) /\ r.answers[i] = source.answers[i]
  BY <1>2, <1>3 DEF ForPump, Chunk
<1>5. Wrote(written, r, handled)
  <2>1. Wrote(written, source, handled)
    BY DEF PipeInv
  <2>2. ASSUME NEW k \in 1 .. Len(written)
        PROVE  \E i \in 1 .. handled : ForPump(r, i) /\ r.answers[i].chunk = written[k]
    <3>1. PICK i \in 1 .. handled : ForPump(source, i) /\ source.answers[i].chunk = written[k]
      BY <2>1 DEF Wrote
    <3>2. ForPump(r, i) /\ r.answers[i] = source.answers[i]
      BY <1>4, <3>1
    <3> QED BY <3>1, <3>2
  <2>3. ASSUME NEW i \in 1 .. handled, ForPump(r, i)
        PROVE  \E k \in 1 .. Len(written) : written[k] = r.answers[i].chunk
    <3>1. ForPump(source, i) /\ r.answers[i] = source.answers[i]
      BY <1>4, <2>3
    <3>2. \E k \in 1 .. Len(written) : written[k] = source.answers[i].chunk
      BY <2>1, <3>1 DEF Wrote
    <3> QED BY <3>1, <3>2
  <2> QED BY <2>1, <2>2, <2>3 DEF Wrote
<1>6. handled \in 0 .. Len(r.answers)
  BY <1>2
<1>7. output.ended => r.ended
  BY DEF PipeInv, Extends
<1>8. Keeps(source, r) => One(r, handled) /\ (pump # "reading" => None(r, handled))
  BY <1>2 DEF PipeInv, Keeps
<1> QED BY <1>5, <1>6, <1>7, <1>8

(* The source changes, and keeps what the pump waits for. *)
LEMMA SourceKeeps ==
  ASSUME PipeInv, StreamFits(source'), source'.made <= MaxPulled, Extends(source, source'),
         Keeps(source, source'), UNCHANGED <<output, pump, handled, written, broken>>
  PROVE  PipeInv'
<1>1. /\ handled \in 0 .. Len(source'.answers)
      /\ Wrote(written, source', handled)
      /\ output.ended => source'.ended
      /\ One(source', handled) /\ (pump # "reading" => None(source', handled))
  BY SourceGoesOn
<1> QED BY <1>1 DEF PipeInv

LEMMA MadeMore ==
  ASSUME PipeInv
  PROVE  source.made \in Nat /\ MaxPulled \in Nat /\ output.made \in Nat /\ Len(written) \in Nat
<1>1. source \in Streams /\ output \in Streams /\ written \in Seq(Nat)
  BY DEF PipeInv, StreamFits, StreamShape, Wrote
<1> QED BY <1>1, StreamsAssumption DEF Streams

(* The transform makes no more chunks than it was given. *)
LEMMA OutputBounded ==
  ASSUME PipeInv
  PROVE  output.made <= MaxPulled
<1>1. Wrote(written, source, handled) /\ StreamRises(source) /\ source.made <= MaxPulled
  BY DEF PipeInv, StreamFits, StreamShape
<1>2. source.made \in Nat /\ MaxPulled \in Nat /\ output.made \in Nat /\ Len(written) \in Nat
  BY MadeMore
<1>3. output.made <= Len(written)
  BY DEF PipeInv
<1>4. CASE Len(written) = 0
  BY <1>2, <1>3, <1>4
<1>5. CASE Len(written) # 0
  <2>1. Len(written) \in 1 .. Len(written)
    BY <1>2, <1>5
  <2>2. Len(written) <= written[Len(written)]
    BY <1>1, <2>1 DEF Wrote
  <2>3. PICK i \in 1 .. handled : ForPump(source, i) /\ source.answers[i].chunk = written[Len(written)]
    BY <1>1, <2>1 DEF Wrote
  <2>4. source.answers[i].chunk \in 1 .. source.made
    BY <1>1, <2>3 DEF StreamRises, ForPump, Chunk
  <2> QED BY <1>1, <1>2, <1>3, <2>2, <2>3, <2>4
<1> QED BY <1>4, <1>5

LEMMA SourceActsKeep ==
  ASSUME PipeInv, R!SourceActs
  PROVE  PipeInv'
<1>1. /\ StreamFits(source) /\ source.made <= MaxPulled
      /\ UNCHANGED <<output, pump, handled, written, broken>>
  BY DEF PipeInv, R!SourceActs
<1>2. CASE source.made < MaxPulled /\ source' = R!Enqueue(source)
  <2>1. StreamFits(source') /\ Extends(source, source') /\ Keeps(source, source') /\ source'.made = source.made + 1
    BY <1>1, <1>2, EnqueueKeeps
  <2>2. source'.made <= MaxPulled
    BY <1>2, <2>1, MadeMore
  <2> QED BY <1>1, <2>1, <2>2, SourceKeeps
<1>3. CASE source' = R!Close(source)
  <2>1. StreamFits(source') /\ Extends(source, source') /\ Keeps(source, source') /\ source'.made <= MaxPulled
    BY <1>1, <1>3, CloseKeeps
  <2> QED BY <1>1, <2>1, SourceKeeps
<1>4. CASE source' = R!Error(source)
  <2>1. StreamFits(source') /\ Extends(source, source') /\ Keeps(source, source') /\ source'.made <= MaxPulled
    BY <1>1, <1>4, ErrorKeeps
  <2> QED BY <1>1, <2>1, SourceKeeps
<1> QED BY <1>2, <1>3, <1>4 DEF R!SourceActs

LEMMA LocksKeep ==
  ASSUME PipeInv, R!GetReader \/ R!ReleaseLock
  PROVE  PipeInv'
<1>1. /\ StreamFits(source) /\ source.made <= MaxPulled
      /\ UNCHANGED <<output, pump, handled, written, broken>>
  BY DEF PipeInv, R!GetReader, R!ReleaseLock
<1>2. PICK b \in BOOLEAN : source' = [source EXCEPT !.locked = b]
  BY DEF R!GetReader, R!ReleaseLock
<1>3. StreamFits(source') /\ Extends(source, source') /\ Keeps(source, source') /\ source'.made <= MaxPulled
  BY <1>1, <1>2, LockKeeps
<1> QED BY <1>1, <1>3, SourceKeeps

(* The output changes by no more than what is read from it. *)
LEMMA OutputKeeps ==
  ASSUME PipeInv, StreamFits(output'), output'.made = output.made, output'.ended = output.ended,
         broken' \in {broken, broken \cup {"cancel"}}, UNCHANGED <<source, pump, handled, written>>
  PROVE  PipeInv'
<1>1. broken' \subseteq {"write", "flush", "cancel"} /\ ("flush" \notin broken' => "flush" \notin broken)
      /\ (broken' = {} => broken = {})
  BY DEF PipeInv
<1> QED BY <1>1 DEF PipeInv

LEMMA ScriptReadsKeep ==
  ASSUME PipeInv, R!ScriptReads
  PROVE  PipeInv'
<1>1. /\ StreamFits(source) /\ source.made <= MaxPulled /\ StreamFits(output)
      /\ UNCHANGED <<pump, handled, written, broken>>
  BY DEF PipeInv, R!ScriptReads
<1>2. "script" \in R!Reader /\ "script" # "pump"
  BY DEF R!Reader
<1>3. CASE (\E what \in R!Pulls : source' = R!Read(source, "script", what)) /\ UNCHANGED output
  <2>1. PICK what \in R!Pulls : source' = R!Read(source, "script", what)
    BY <1>3
  <2>2. StreamFits(source') /\ Extends(source, source') /\ Keeps(source, source') /\ source'.made <= MaxPulled
    BY <1>1, <1>2, <2>1, ReadKeeps
  <2> QED BY <1>1, <1>3, <2>2, SourceKeeps
<1>4. CASE output' = R!Read(output, "script", "nothing") /\ UNCHANGED source
  <2>1. output.made <= MaxPulled
    BY OutputBounded
  <2>2. StreamFits(output') /\ output'.made = output.made /\ output'.ended = output.ended
    BY <1>1, <1>2, <1>4, <2>1, OutputReadKeeps
  <2> QED BY <1>1, <1>4, <2>2, OutputKeeps
<1> QED BY <1>3, <1>4 DEF R!ScriptReads

LEMMA CancelKeeps ==
  ASSUME PipeInv, R!CancelOutput
  PROVE  PipeInv'
<1>1. /\ StreamFits(output) /\ output' = [output EXCEPT !.locked = FALSE]
      /\ broken' = broken \cup {"cancel"} /\ UNCHANGED <<source, pump, handled, written>>
  BY DEF PipeInv, R!CancelOutput
<1>2. StreamFits(output') /\ output'.made = output.made /\ output'.ended = output.ended
  BY <1>1, LockKeeps
<1> QED BY <1>1, <1>2, OutputKeeps

(* The pump asks for the next answer when it has none to take. *)
LEMMA PumpAsks ==
  ASSUME PipeInv, None(source, handled), StreamFits(source'), source'.made <= MaxPulled,
         Extends(source, source'), \A h \in 0 .. Len(source.answers) : None(source, h) => One(source', h),
         pump \in {"off", "writing"}, pump' = "reading", UNCHANGED <<output, handled, written, broken>>
  PROVE  PipeInv'
<1>1. /\ handled \in 0 .. Len(source'.answers)
      /\ Wrote(written, source', handled)
      /\ output.ended => source'.ended
  BY SourceGoesOn
<1>2. One(source', handled)
  BY DEF PipeInv
<1>3. pump' \in R!Pumps /\ ~output.ended
  BY DEF PipeInv, R!Pumps
<1> QED BY <1>1, <1>2, <1>3 DEF PipeInv

LEMMA PipeThroughKeeps ==
  ASSUME PipeInv, R!PipeThrough
  PROVE  PipeInv'
<1>1. /\ StreamFits(source) /\ source.made <= MaxPulled /\ None(source, handled)
      /\ pump = "off" /\ pump' = "reading" /\ UNCHANGED <<output, handled, written, broken>>
  BY DEF PipeInv, R!PipeThrough
<1> DEFINE z == [source EXCEPT !.locked = TRUE]
<1>2. PICK what \in R!Pulls : source' = R!Read(z, "pump", what)
  BY DEF R!PipeThrough
<1>3. StreamFits(z) /\ Extends(source, z) /\ Keeps(source, z) /\ z.made <= MaxPulled /\ z.answers = source.answers
      /\ z.ended = source.ended
  BY <1>1, LockKeeps
<1> HIDE DEF z
<1>4. "pump" \in R!Reader
  BY DEF R!Reader
<1>5. /\ StreamFits(source') /\ Extends(z, source') /\ source'.made <= MaxPulled
      /\ \A h \in 0 .. Len(z.answers) : None(z, h) => One(source', h)
  BY <1>2, <1>3, <1>4, ReadKeeps
<1>6. Extends(source, source')
  BY <1>3, <1>5 DEF Extends
<1>7. \A h \in 0 .. Len(source.answers) : None(source, h) => One(source', h)
  BY <1>3, <1>5 DEF Keeps
<1> QED BY <1>1, <1>5, <1>6, <1>7, PumpAsks

LEMMA PumpReadsKeeps ==
  ASSUME PipeInv, R!PumpReads
  PROVE  PipeInv'
<1>1. /\ StreamFits(source) /\ source.made <= MaxPulled /\ None(source, handled) /\ One(source, handled)
      /\ pump = "writing" /\ UNCHANGED <<output, handled, written>>
  BY DEF PipeInv, R!PumpReads
<1>2. CASE pump' = "reading" /\ UNCHANGED broken /\ \E what \in R!Pulls : source' = R!Read(source, "pump", what)
  <2>1. PICK what \in R!Pulls : source' = R!Read(source, "pump", what)
    BY <1>2
  <2>2. "pump" \in R!Reader
    BY DEF R!Reader
  <2>3. /\ StreamFits(source') /\ Extends(source, source') /\ source'.made <= MaxPulled
        /\ \A h \in 0 .. Len(source.answers) : None(source, h) => One(source', h)
    BY <1>1, <2>1, <2>2, ReadKeeps
  <2> QED BY <1>1, <1>2, <2>3, PumpAsks
<1>3. CASE pump' = "failed" /\ broken' = broken \cup {"write"} /\ UNCHANGED source
  <2>1. /\ broken' \subseteq {"write", "flush", "cancel"} /\ broken' # {} /\ ~output.ended
        /\ pump' \in R!Pumps /\ pump' # "closed" /\ pump' # "reading"
    BY <1>1, <1>3 DEF PipeInv, R!Pumps
  <2> QED BY <1>1, <1>3, <2>1 DEF PipeInv
<1> QED BY <1>2, <1>3 DEF R!PumpReads

(* The pump takes the one answer that waits for it. *)
LEMMA PumpTakesOne ==
  ASSUME PipeInv, pump = "reading", NEW i \in R!ToPump
  PROVE  /\ i \in 1 .. Len(source.answers) /\ i > handled /\ source.answers[i].to = "pump"
         /\ i \in Nat /\ Len(source.answers) \in Nat /\ source.answers[i] \in Replies
         /\ None(source, i)
         /\ \A j \in 1 .. i : j \in 1 .. handled \/ j = i \/ source.answers[j].to # "pump"
<1>1. source \in Streams /\ handled \in 0 .. Len(source.answers) /\ One(source, handled)
  BY DEF PipeInv, StreamFits, StreamShape
<1>2. Len(source.answers) \in Nat /\ source.answers \in Seq(Replies)
  BY <1>1 DEF Streams
<1>3. i \in 1 .. Len(source.answers) /\ i > handled /\ source.answers[i].to = "pump"
  BY <1>2 DEF R!ToPump
<1>4. source.answers[i] \in Replies /\ i \in Nat
  BY <1>2, <1>3
<1>5. \A j \in OutOf(source.answers, handled) : j = i
  BY <1>1, <1>3 DEF One, AtMostOne, OutOf
<1>6. OutOf(source.answers, i) = {}
  <2>1. SUFFICES ASSUME NEW j \in OutOf(source.answers, i) PROVE FALSE
    OBVIOUS
  <2>2. j \in 1 .. Len(source.answers) /\ j > i /\ source.answers[j].to = "pump"
    BY DEF OutOf
  <2>3. j > handled
    BY <1>1, <1>2, <1>3, <2>2
  <2> QED BY <1>2, <1>3, <1>5, <2>2, <2>3 DEF OutOf
<1>7. In(source.waiting) = {}
  BY <1>1, <1>3 DEF One, OutOf
<1>8. ASSUME NEW j \in 1 .. i, j \notin 1 .. handled, source.answers[j].to = "pump" PROVE j = i
  <2>1. j \in 1 .. Len(source.answers) /\ j > handled
    BY <1>1, <1>2, <1>3, <1>8
  <2> QED BY <1>5, <1>8, <2>1 DEF OutOf
<1> QED BY <1>2, <1>3, <1>4, <1>6, <1>7, <1>8 DEF None

(* A chunk is written after all that were. *)
LEMMA WriteFollows ==
  ASSUME PipeInv, pump = "reading", NEW i \in R!ToPump, source.answers[i].with = "chunk"
  PROVE  LET w == Append(written, source.answers[i].chunk) IN
         Wrote(w, source, i) /\ Len(w) = Len(written) + 1
<1> DEFINE c == source.answers[i].chunk
           w == Append(written, c)
           n == Len(written)
<1>1. /\ i \in 1 .. Len(source.answers) /\ i > handled /\ source.answers[i].to = "pump"
      /\ i \in Nat /\ Len(source.answers) \in Nat
      /\ \A j \in 1 .. i : j \in 1 .. handled \/ j = i \/ source.answers[j].to # "pump"
  BY PumpTakesOne
<1>2. Wrote(written, source, handled) /\ StreamRises(source) /\ handled \in 0 .. Len(source.answers)
  BY DEF PipeInv, StreamFits, StreamShape
<1>3. ForPump(source, i) /\ Chunk(source, i)
  BY <1>1 DEF ForPump, Chunk
<1>4. c \in 1 .. source.made /\ source.made \in Nat /\ c \in Nat \ {0}
  BY <1>1, <1>2, <1>3, MadeMore DEF StreamRises
<1>5. written \in Seq(Nat) /\ n \in Nat
  BY <1>2 DEF Wrote
<1>6. /\ w \in Seq(Nat) /\ Len(w) = n + 1 /\ w[n + 1] = c
      /\ \A k \in 1 .. n : w[k] = written[k]
  BY <1>4, <1>5
<1> HIDE DEF w, n
<1>7. \A k : k \in 1 .. n + 1 <=> k \in 1 .. n \/ k = n + 1
  BY <1>5
<1>8. ASSUME NEW k \in 1 .. n PROVE written[k] < c /\ k <= written[k] /\ written[k] \in Nat
  <2>1. PICK j \in 1 .. handled : ForPump(source, j) /\ source.answers[j].chunk = written[k]
    BY <1>2 DEF Wrote, n
  <2>2. j < i /\ j \in 1 .. Len(source.answers) /\ Chunk(source, j)
    BY <1>1, <1>2, <2>1 DEF ForPump, Chunk
  <2>3. source.answers[j].chunk < c
    BY <1>1, <1>2, <1>3, <2>2 DEF StreamRises
  <2>4. k <= written[k] /\ written[k] \in Nat
    <3>1. k \in 1 .. Len(written)
      BY DEF n
    <3>2. written[k] \in Nat
      BY <1>5, <3>1
    <3> QED BY <1>2, <3>1, <3>2 DEF Wrote
  <2> QED BY <2>1, <2>3, <2>4
<1>9. n + 1 <= c
  <2>1. CASE n = 0
    BY <1>4, <2>1
  <2>2. CASE n # 0
    <3>1. n \in 1 .. n
      BY <1>5, <2>2
    <3>2. written[n] < c /\ n <= written[n] /\ written[n] \in Nat
      BY <1>8, <3>1
    <3> QED BY <1>4, <1>5, <3>2
  <2> QED BY <2>1, <2>2
<1>10. \A k \in 1 .. n + 1 : k <= w[k]
  BY <1>6, <1>7, <1>8, <1>9
<1>11. ASSUME NEW k \in 1 .. n + 1, NEW l \in 1 .. n + 1, k < l PROVE w[k] < w[l]
  <2>1. k \in 1 .. n
    BY <1>5, <1>11
  <2>2. CASE l \in 1 .. n
    BY <1>2, <1>6, <1>11, <2>1, <2>2 DEF Wrote, n
  <2>3. CASE l = n + 1
    BY <1>6, <1>8, <2>1, <2>3
  <2> QED BY <1>7, <2>2, <2>3
<1>12. \A j \in 1 .. handled : j \in 1 .. i
  BY <1>1, <1>2
<1>13. ASSUME NEW k \in 1 .. n + 1
       PROVE  \E j \in 1 .. i : ForPump(source, j) /\ source.answers[j].chunk = w[k]
  <2>1. CASE k \in 1 .. n
    <3>1. PICK j \in 1 .. handled : ForPump(source, j) /\ source.answers[j].chunk = written[k]
      BY <1>2, <2>1 DEF Wrote, n
    <3> QED BY <1>6, <1>12, <2>1, <3>1
  <2>2. CASE k = n + 1
    <3>1. i \in 1 .. i
      BY <1>1
    <3> QED BY <1>3, <1>6, <2>2, <3>1
  <2> QED BY <1>7, <2>1, <2>2
<1>14. ASSUME NEW j \in 1 .. i, ForPump(source, j)
       PROVE  \E k \in 1 .. n + 1 : w[k] = source.answers[j].chunk
  <2>1. CASE j \in 1 .. handled
    <3>1. PICK k \in 1 .. n : written[k] = source.answers[j].chunk
      BY <1>2, <1>14, <2>1 DEF Wrote, n
    <3> QED BY <1>6, <1>7, <3>1
  <2>2. CASE j = i
    BY <1>6, <1>7, <2>2
  <2> QED BY <1>1, <1>14, <2>1, <2>2 DEF ForPump
<1>15. Wrote(w, source, i)
  BY <1>6, <1>10, <1>11, <1>13, <1>14 DEF Wrote
<1> QED BY <1>6, <1>15 DEF w, n

(* What is no chunk adds nothing. *)
LEMMA SkipFollows ==
  ASSUME PipeInv, pump = "reading", NEW i \in R!ToPump, source.answers[i].with # "chunk"
  PROVE  Wrote(written, source, i)
<1>1. /\ i \in 1 .. Len(source.answers) /\ i > handled /\ i \in Nat
      /\ \A j \in 1 .. i : j \in 1 .. handled \/ j = i \/ source.answers[j].to # "pump"
      /\ Len(source.answers) \in Nat
  BY PumpTakesOne
<1>2. Wrote(written, source, handled) /\ handled \in 0 .. Len(source.answers)
  BY DEF PipeInv
<1>3. \A j \in 1 .. handled : j \in 1 .. i
  BY <1>1, <1>2
<1>4. \A j \in 1 .. i : ForPump(source, j) => j \in 1 .. handled
  BY <1>1 DEF ForPump, Chunk
<1>5. \A k \in 1 .. Len(written) : \E j \in 1 .. i : ForPump(source, j) /\ source.answers[j].chunk = written[k]
  BY <1>2, <1>3 DEF Wrote
<1> QED BY <1>2, <1>4, <1>5 DEF Wrote

LEMMA PumpTakesKeeps ==
  ASSUME PipeInv, R!PumpTakes
  PROVE  PipeInv'
<1>1. pump = "reading" /\ UNCHANGED source
  BY DEF R!PumpTakes
<1>2. PICK i \in R!ToPump :
        /\ handled' = i
        /\ \/ /\ source.answers[i].with = "chunk"
              /\ written' = Append(written, source.answers[i].chunk)
              /\ \/ /\ pump' = "writing"
                    /\ ~output.closing => output' = R!Enqueue(output)
                    /\ output.closing => UNCHANGED output
                    /\ UNCHANGED broken
                 \/ /\ pump' = "failed" /\ broken' = broken \cup {"write"}
                    /\ UNCHANGED output
           \/ /\ source.answers[i].with = "done" /\ pump' = "closed"
              /\ \/ output' = R!Close(output) /\ UNCHANGED broken
                 \/ broken' = broken \cup {"flush"} /\ UNCHANGED output
              /\ UNCHANGED written
           \/ /\ source.answers[i].with = "error" /\ pump' = "failed"
              /\ UNCHANGED <<output, written, broken>>
  BY DEF R!PumpTakes, R!Done, R!Failure
<1>3. i \in 0 .. Len(source.answers) /\ None(source, i) /\ One(source, i)
  <2>1. i \in 1 .. Len(source.answers) /\ i \in Nat /\ Len(source.answers) \in Nat /\ None(source, i)
    BY <1>1, PumpTakesOne
  <2> QED BY <2>1 DEF None, One, AtMostOne
<1>4. /\ StreamFits(source) /\ source.made <= MaxPulled /\ StreamFits(output)
      /\ broken \subseteq {"write", "flush", "cancel"} /\ output.made <= Len(written)
      /\ ~output.ended /\ (broken = {} => output.made = Len(written))
  BY <1>1 DEF PipeInv
<1>5. output.made \in Nat /\ Len(written) \in Nat
  BY MadeMore
<1>6. CASE source.answers[i].with = "chunk" /\ written' = Append(written, source.answers[i].chunk)
  <2>1. Wrote(written', source', handled') /\ Len(written') = Len(written) + 1
    <3>1. Wrote(Append(written, source.answers[i].chunk), source, i)
          /\ Len(Append(written, source.answers[i].chunk)) = Len(written) + 1
      BY <1>1, <1>6, WriteFollows
    <3> QED BY <1>1, <1>2, <1>6, <3>1
  <2>2. CASE pump' = "writing" /\ output' = R!Enqueue(output) /\ UNCHANGED broken
    <3>1. StreamFits(output') /\ output'.made = output.made + 1 /\ output'.ended = output.ended
      BY <1>4, <2>2, EnqueueKeeps
    <3>2. output'.made <= Len(written') /\ (broken' = {} => output'.made = Len(written'))
      BY <1>4, <1>5, <2>1, <2>2, <3>1
    <3>3. pump' \in R!Pumps /\ pump' # "closed" /\ pump' # "reading" /\ ~output'.ended
      BY <1>4, <2>2, <3>1 DEF R!Pumps
    <3> QED BY <1>1, <1>2, <1>3, <1>4, <2>1, <2>2, <3>1, <3>2, <3>3 DEF PipeInv
  <2>3. CASE pump' = "failed" /\ broken' = broken \cup {"write"} /\ UNCHANGED output
    <3>1. output'.made <= Len(written')
      BY <1>4, <1>5, <2>1, <2>3
    <3>2. pump' \in R!Pumps /\ pump' # "closed" /\ pump' # "reading" /\ ~output'.ended
      BY <1>4, <2>3 DEF R!Pumps
    <3>3. broken' \subseteq {"write", "flush", "cancel"} /\ broken' # {}
      BY <1>4, <2>3
    <3> QED BY <1>1, <1>2, <1>3, <1>4, <2>1, <2>3, <3>1, <3>2, <3>3 DEF PipeInv
  <2>4. output.closing = FALSE
    BY <1>4 DEF StreamFits, StreamShape, Streams
  <2> QED BY <1>2, <1>6, <2>2, <2>3, <2>4
<1>7. CASE source.answers[i].with = "done" /\ pump' = "closed" /\ UNCHANGED written
  <2>1. Wrote(written', source', handled')
    <3>1. Wrote(written, source, i)
      BY <1>1, <1>7, SkipFollows
    <3> QED BY <1>1, <1>2, <1>7, <3>1
  <2>2. source.ended
    <3>1. i \in 1 .. Len(source.answers)
      BY <1>1, PumpTakesOne
    <3> QED BY <1>4, <1>7, <3>1 DEF StreamFits, StreamShape
  <2>3. pump' \in R!Pumps /\ pump' # "reading"
    BY <1>7 DEF R!Pumps
  <2>4. CASE output' = R!Close(output) /\ UNCHANGED broken
    <3>1. StreamFits(output') /\ output'.made = output.made /\ output'.ended = TRUE
      BY <1>4, <2>4, CloseKeeps
    <3>2. output'.made <= Len(written') /\ (broken' = {} => output'.made = Len(written'))
      BY <1>4, <1>7, <2>4, <3>1
    <3> QED BY <1>1, <1>2, <1>3, <1>4, <1>7, <2>1, <2>2, <2>3, <2>4, <3>1, <3>2 DEF PipeInv
  <2>5. CASE broken' = broken \cup {"flush"} /\ UNCHANGED output
    <3>1. broken' \subseteq {"write", "flush", "cancel"} /\ broken' # {} /\ "flush" \in broken'
      BY <1>4, <2>5
    <3> QED BY <1>1, <1>2, <1>3, <1>4, <1>7, <2>1, <2>2, <2>3, <2>5, <3>1 DEF PipeInv
  <2> QED BY <1>2, <1>7, <2>4, <2>5
<1>8. CASE source.answers[i].with = "error" /\ pump' = "failed" /\ UNCHANGED <<output, written, broken>>
  <2>1. Wrote(written', source', handled')
    <3>1. Wrote(written, source, i)
      BY <1>1, <1>8, SkipFollows
    <3> QED BY <1>1, <1>2, <1>8, <3>1
  <2>2. pump' \in R!Pumps /\ pump' # "closed" /\ pump' # "reading"
    BY <1>8 DEF R!Pumps
  <2> QED BY <1>1, <1>2, <1>3, <1>4, <1>8, <2>1, <2>2 DEF PipeInv
<1> QED BY <1>2, <1>6, <1>7, <1>8

LEMMA PipeInit == R!Init => PipeInv
<1> SUFFICES ASSUME R!Init PROVE PipeInv
  OBVIOUS
<1>1. /\ source = R!New /\ output = [R!New EXCEPT !.locked = TRUE]
      /\ pump = "off" /\ handled = 0 /\ written = <<>> /\ broken = {}
  BY DEF R!Init
<1>2. /\ R!New \in Streams /\ R!New.queue = <<>> /\ R!New.answers = <<>> /\ R!New.waiting = <<>> /\ R!New.made = 0
      /\ R!New.closing = FALSE /\ R!New.ended = FALSE
  BY DEF R!New, Streams
<1>3. StreamFits(R!New)
  <2>1. \A x : x \notin 1 .. 0
    OBVIOUS
  <2> QED BY <1>2, <2>1 DEF StreamFits, StreamShape, StreamRises
<1>4. StreamFits(output) /\ output.made = 0 /\ output.ended = FALSE
  BY <1>1, <1>2, <1>3, LockKeeps
<1>5. One(source, 0) /\ None(source, 0)
  BY <1>1, <1>2 DEF One, None, OutOf, In, AtMostOne
<1>6. Wrote(written, source, 0)
  BY <1>1 DEF Wrote
<1>7. source.made <= MaxPulled /\ 0 \in 0 .. Len(source.answers) /\ "off" \in R!Pumps
  BY <1>1, <1>2, StreamsAssumption DEF R!Pumps
<1>8. output.made <= Len(written) /\ output.made = Len(written)
  BY <1>1, <1>4
<1> QED BY <1>1, <1>3, <1>4, <1>5, <1>6, <1>7, <1>8 DEF PipeInv

LEMMA PipeStep == PipeInv /\ [R!Next]_(R!vars) => PipeInv'
<1> SUFFICES ASSUME PipeInv, [R!Next]_(R!vars) PROVE PipeInv'
  OBVIOUS
<1>1. CASE R!SourceActs
  BY <1>1, SourceActsKeep
<1>2. CASE R!GetReader \/ R!ReleaseLock
  BY <1>2, LocksKeep
<1>3. CASE R!ScriptReads
  BY <1>3, ScriptReadsKeep
<1>4. CASE R!CancelOutput
  BY <1>4, CancelKeeps
<1>5. CASE R!PipeThrough
  BY <1>5, PipeThroughKeeps
<1>6. CASE R!PumpTakes
  BY <1>6, PumpTakesKeeps
<1>7. CASE R!PumpReads
  BY <1>7, PumpReadsKeeps
<1>8. CASE UNCHANGED R!vars
  BY <1>8 DEF R!vars, PipeInv
<1> QED BY <1>1, <1>2, <1>3, <1>4, <1>5, <1>6, <1>7, <1>8 DEF R!Next

LEMMA StreamFitsItsType ==
  ASSUME NEW s, StreamFits(s), s.made <= MaxPulled
  PROVE  /\ R!StreamOK(s)
         /\ \A i, j \in R!Given(s) : i < j => s.answers[i].chunk < s.answers[j].chunk
         /\ \A i \in R!Given(s), k \in DOMAIN s.queue : s.answers[i].chunk < s.queue[k]
         /\ R!Rising(s.queue)
         /\ {s.answers[i].chunk : i \in R!Given(s)} \cup {s.queue[k] : k \in DOMAIN s.queue} = 1 .. s.made
<1>1. s \in Streams /\ StreamRises(s)
  BY DEF StreamFits, StreamShape
<1>2. /\ s.queue \in Seq(Nat) /\ s.waiting \in Seq(R!Reader) /\ s.answers \in Seq(Replies)
      /\ DOMAIN s.queue = 1 .. Len(s.queue) /\ DOMAIN s.answers = 1 .. Len(s.answers)
  BY <1>1 DEF Streams
<1>3. s.queue \in Seq(1 .. s.made)
  <2> DEFINE q == s.queue
             n == Len(s.queue)
             S == 1 .. s.made
  <2>1. n \in Nat /\ q = [k \in 1 .. n |-> q[k]] /\ \A k \in 1 .. n : q[k] \in S
    BY <1>1, <1>2 DEF StreamRises
  <2> HIDE DEF q, n, S
  <2>2. q \in [1 .. n -> S]
    BY <2>1
  <2>3. q \in Seq(S)
    BY <2>1, <2>2
  <2> QED BY <2>3 DEF q, S
<1>4. \A i \in DOMAIN s.answers : s.answers[i].to \in R!Reader
  <2>1. \A i \in 1 .. Len(s.answers) : s.answers[i] \in Replies
    BY <1>2
  <2>2. \A x \in Replies : x.to \in R!Reader
    BY DEF Replies
  <2> QED BY <1>2, <2>1, <2>2
<1>5. R!StreamOK(s)
  BY <1>2, <1>3, <1>4 DEF R!StreamOK
<1>6. R!Given(s) = {i \in 1 .. Len(s.answers) : Chunk(s, i)}
  BY <1>2 DEF R!Given, Chunk
<1>7. \A i, j \in R!Given(s) : i < j => s.answers[i].chunk < s.answers[j].chunk
  BY <1>1, <1>6 DEF StreamRises
<1>8. \A i \in R!Given(s), k \in DOMAIN s.queue : s.answers[i].chunk < s.queue[k]
  BY <1>1, <1>2, <1>6 DEF StreamRises
<1>9. R!Rising(s.queue)
  BY <1>1, <1>2 DEF StreamRises, R!Rising
<1>10. {s.answers[i].chunk : i \in R!Given(s)} \cup {s.queue[k] : k \in DOMAIN s.queue} \subseteq 1 .. s.made
  BY <1>1, <1>2, <1>6 DEF StreamRises
<1>11. 1 .. s.made \subseteq {s.answers[i].chunk : i \in R!Given(s)} \cup {s.queue[k] : k \in DOMAIN s.queue}
  <2>1. SUFFICES ASSUME NEW c \in 1 .. s.made
                 PROVE  \/ \E i \in R!Given(s) : s.answers[i].chunk = c
                        \/ \E k \in DOMAIN s.queue : s.queue[k] = c
    OBVIOUS
  <2>2. \/ \E i \in 1 .. Len(s.answers) : Chunk(s, i) /\ s.answers[i].chunk = c
        \/ \E k \in 1 .. Len(s.queue) : s.queue[k] = c
    BY <1>1 DEF StreamRises
  <2> QED BY <1>2, <1>6, <2>2
<1> QED BY <1>5, <1>7, <1>8, <1>9, <1>10, <1>11

LEMMA PipeFits ==
  PipeInv => R!TypeOK /\ R!ChunksInOrderOnce /\ R!WaitingIsJustified /\ R!OutputEndsWithSource
<1> SUFFICES ASSUME PipeInv
             PROVE  R!TypeOK /\ R!ChunksInOrderOnce /\ R!WaitingIsJustified /\ R!OutputEndsWithSource
  OBVIOUS
<1>1. /\ StreamFits(source) /\ source.made <= MaxPulled /\ StreamFits(output) /\ output.made <= MaxPulled
      /\ Wrote(written, source, handled) /\ handled \in 0 .. Len(source.answers)
      /\ output.made <= Len(written)
  BY OutputBounded DEF PipeInv
<1>2. source.answers \in Seq(Replies) /\ Len(source.answers) \in Nat /\ DOMAIN source.answers = 1 .. Len(source.answers)
  BY <1>1 DEF StreamFits, StreamShape, Streams
<1>3. handled <= Len(source.answers)
  BY <1>1, <1>2
<1>4. R!StreamOK(source) /\ R!StreamOK(output)
  BY <1>1, StreamFitsItsType
<1>5. R!TypeOK
  BY <1>3, <1>4 DEF R!TypeOK, PipeInv
<1>6. written \in Seq(Nat) /\ DOMAIN written = 1 .. Len(written)
  BY <1>1 DEF Wrote
<1>7. R!Rising(written)
  BY <1>1, <1>6 DEF R!Rising, Wrote
<1>8. R!Taken = {i \in 1 .. handled : ForPump(source, i)}
  <2>1. \A i : i \in 1 .. Len(source.answers) /\ i <= handled <=> i \in 1 .. handled
    BY <1>1, <1>2
  <2> QED BY <1>2, <2>1 DEF R!Taken, R!Given, ForPump, Chunk
<1>9. {written[k] : k \in DOMAIN written} = {source.answers[i].chunk : i \in R!Taken}
  <2>1. ASSUME NEW k \in DOMAIN written
        PROVE  \E i \in R!Taken : source.answers[i].chunk = written[k]
    BY <1>1, <1>6, <1>8 DEF Wrote
  <2>2. ASSUME NEW i \in R!Taken
        PROVE  \E k \in DOMAIN written : written[k] = source.answers[i].chunk
    BY <1>1, <1>6, <1>8 DEF Wrote
  <2> QED BY <2>1, <2>2
<1>10. R!ChunksInOrderOnce
  <2>1. ASSUME NEW s \in {source, output}
        PROVE  /\ \A i, j \in R!Given(s) : i < j => s.answers[i].chunk < s.answers[j].chunk
               /\ \A i \in R!Given(s), k \in DOMAIN s.queue : s.answers[i].chunk < s.queue[k]
               /\ R!Rising(s.queue)
               /\ {s.answers[i].chunk : i \in R!Given(s)} \cup {s.queue[k] : k \in DOMAIN s.queue} = 1 .. s.made
    <3>1. StreamFits(s) /\ s.made <= MaxPulled
      BY <1>1
    <3> QED BY <3>1, StreamFitsItsType
  <2> QED BY <1>1, <1>7, <1>9, <2>1 DEF R!ChunksInOrderOnce
<1>11. R!WaitingIsJustified
  BY <1>1 DEF R!WaitingIsJustified, StreamFits
<1>12. pump = "closed" => R!ToPump = {}
  BY <1>2 DEF PipeInv, None, OutOf, R!ToPump
<1>13. R!OutputEndsWithSource
  BY <1>12 DEF PipeInv, R!OutputEndsWithSource
<1> QED BY <1>5, <1>10, <1>11, <1>13

(* The pipe of web_api.js, for every number of chunks and reads: whatever  *)
(* the source does on its own or in a pull, whoever reads beside the pump, *)
(* and whatever is cancelled, the answers and the queue of each stream     *)
(* are the chunks made, in order and once each; what was written is what   *)
(* the pump took; a read waits only while there is nothing for it; and the *)
(* output ends with the source.                                            *)
THEOREM PipeDelivers ==
  R!Spec => [](R!ChunksInOrderOnce /\ R!WaitingIsJustified /\ R!OutputEndsWithSource)
<1>1. R!Init => PipeInv
  BY PipeInit
<1>2. PipeInv /\ [R!Next]_(R!vars) => PipeInv'
  BY PipeStep
<1>3. PipeInv => R!ChunksInOrderOnce /\ R!WaitingIsJustified /\ R!OutputEndsWithSource
  BY PipeFits
<1> QED BY <1>1, <1>2, <1>3, PTL DEF R!Spec

-----------------------------------------------------------------------------
(* Side by side: one side moves, and the others stay as they are. *)
SidesInv ==
  /\ side \in Sides
  /\ IInv /\ GlobalsInv /\ CallsInv /\ BuiltinsInv /\ PipeInv /\ SignalsInv /\ ChannelsInv

LEMMA SidesHold == SumSpec => []SidesInv
<1>1. SumInit => SidesInv
  BY GatesInit, GlobalsInit, CallsInit, BuiltinsInit, PipeInit, SignalsInit, ChannelsInit
     DEF SumInit, SidesInv
<1>2. SidesInv /\ [SumNext]_<<side, vars, globalVars, callVars, builtinVars, webVars>> => SidesInv'
  <2> SUFFICES ASSUME SidesInv, [SumNext]_<<side, vars, globalVars, callVars, builtinVars, webVars>>
               PROVE  SidesInv'
    OBVIOUS
  <2>1. /\ [Next]_vars /\ [G!Next]_(G!vars) /\ [C!Next]_(C!vars) /\ [B!Next]_(B!vars)
        /\ [R!Next]_(R!vars) /\ [A!Next]_(A!vars) /\ [M!Next]_(M!vars)
    BY DEF SumNext, webVars, globalVars, callVars, builtinVars, pipeVars, signalVars, channelVars,
           G!vars, C!vars, B!vars, R!vars, A!vars, M!vars
  <2>2. side' = side
    BY DEF SumNext
  <2>3. IInv' /\ PipeInv' /\ SignalsInv' /\ ChannelsInv'
    BY <2>1, GatesStep, PipeStep, SignalsStep, ChannelsStep DEF SidesInv
  <2>4. GlobalsInv' /\ CallsInv' /\ BuiltinsInv'
    <3>1. GlobalsInv'
      BY <2>1, GlobalsStep, GlobalsStays DEF SidesInv
    <3>2. CallsInv'
      BY <2>1, CallsStep, CallsStay DEF SidesInv
    <3>3. BuiltinsInv'
      BY <2>1, BuiltinsStep, BuiltinsStay DEF SidesInv, B!vars, builtinVars
    <3> QED BY <3>1, <3>2, <3>3
  <2> QED BY <2>2, <2>3, <2>4 DEF SidesInv
<1> QED BY <1>1, <1>2, PTL DEF SumSpec

(* What MCHost says of the state and of the globals, of every side.        *)
THEOREM HostsGlobals == SumSpec => []GlobalsAreTheHosts
<1>1. SidesInv => GlobalsAreTheHosts
  <2> SUFFICES ASSUME SidesInv PROVE GlobalsAreTheHosts
    OBVIOUS
  <2>1. TypeOK /\ C!TypeOK /\ B!TypeOK
    BY DEF SidesInv, IInv, CallsInv, BuiltinsInv
  <2>2. R!TypeOK /\ A!TypeOK /\ M!TypeOK
    BY PipeFits, SignalsFit, ChannelsFit DEF SidesInv
  <2>3. G!TypeOK /\ G!NothingIsLeftBehind /\ G!OthersStay /\ G!KossJSStays /\ G!InstancesKeepTheirCallback
    BY GlobalsFit DEF SidesInv, GlobalsPlaced
  <2> QED BY <2>1, <2>2, <2>3 DEF GlobalsAreTheHosts, Sides, SidesInv
<1> QED BY <1>1, SidesHold, PTL

(* Code is audited under the directory of its call, answers say what is    *)
(* left, and a built-in module has what it requires or fails.              *)
THEOREM EveryCallAnswersForItsCode == SumSpec => []CallsAnswerForTheirCode
<1>1. SidesInv => CallsAnswerForTheirCode
  BY DEF SidesInv, CallsInv, BuiltinsInv, CallsAnswerForTheirCode
<1> QED BY <1>1, SidesHold, PTL

(* Streams, signals and channels deliver, whatever scripts do with them.   *)
THEOREM TheWebDelivers == SumSpec => []WebDelivers
<1>1. SidesInv => WebDelivers
  BY PipeFits, SignalsFit, ChannelsFit DEF SidesInv, WebDelivers
<1> QED BY <1>1, SidesHold, PTL
=============================================================================
