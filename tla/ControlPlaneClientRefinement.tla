-------------------- MODULE ControlPlaneClientRefinement --------------------
(***************************************************************************)
(* The namespace checks that ask control-plane implement MembershipCheck,  *)
(* for any number of callers, namespaces and versions of the structure.    *)
(***************************************************************************)
EXTENDS ControlPlaneClientProofs

\* A check that does not ask has neither misread an answer nor gone without,
\* and one that does is about a namespace.
Sound(c) ==
  /\ ~Asked(c) => ~fellBack[c] /\ ~rcReused[c]
  /\ Asked(c) => namespace[c] \in Names

SInv == \A c \in Callers : Sound(c)

\* A step of one caller leaves the others sound.
LEMMA OneCallersStep ==
  ASSUME SInv, NEW c \in Callers,
         \A d \in Callers \ {c} :
            /\ pc'[d] = pc[d] /\ namespace'[d] = namespace[d]
            /\ fellBack'[d] = fellBack[d] /\ rcReused'[d] = rcReused[d],
         Sound(c)'
  PROVE  SInv'
BY DEF SInv, Sound, Asked

\* A step of one check, from its call to its reply.
LEMMA ChecksKeepSInv ==
  ASSUME IInv, SInv, NEW c \in Callers,
         \/ \E ns \in Names : Exempt(c, ns) \/ CheckNamespace(c, ns)
         \/ CpAnswers(c) \/ CallFails(c)
         \/ GetCompositeStructureParses(c) \/ StoresAndDecides(c)
         \/ GetCompositeStructureFails(c) \/ FallsBack(c) \/ NothingToFallBackOn(c)
         \/ Reply(c)
  PROVE  SInv'
<1>0. TypeOK /\ RC!RcTypeOK /\ Sound(c) /\ CallsAreChecks
  BY DEF IInv, TypeOK, SInv
<1>1. ASSUME NEW ns \in Names, Exempt(c, ns) \/ CheckNamespace(c, ns) PROVE SInv'
  <2>1. /\ pc[c] = "idle"
        /\ pc' = [pc EXCEPT ![c] = "exempt"] \/ pc' = [pc EXCEPT ![c] = "asking"]
        /\ namespace' = [namespace EXCEPT ![c] = ns]
        /\ UNCHANGED <<fellBack, rcReused>>
    BY <1>1 DEF Exempt, CheckNamespace, Calls, RC!Send, RC!BuildFails, rcVars
  <2>2. Sound(c)'
    BY <1>0, <2>1 DEF TypeOK, Sound, Asked
  <2> QED BY <1>0, <2>1, <2>2, OneCallersStep DEF TypeOK
<1>2. CASE CpAnswers(c) \/ CallFails(c)
  <2>1. UNCHANGED <<pc, namespace, fellBack, rcReused>>
    BY <1>2 DEF CpAnswers, CallFails, RC!Answer, RC!ConnectionFails, localVars,
                callVars
  <2> QED BY <2>1 DEF SInv, Sound, Asked
<1>3. CASE \/ GetCompositeStructureParses(c) \/ StoresAndDecides(c)
           \/ GetCompositeStructureFails(c) \/ FallsBack(c) \/ NothingToFallBackOn(c)
  <2>1. \E p \in {"storing", "falling", "allowed", "denied", "failed"} :
           Asked(c) /\ pc' = [pc EXCEPT ![c] = p]
    BY <1>3, VerdictIsTold
    DEF GetCompositeStructureParses, StoresAndDecides, GetCompositeStructureFails,
        FallsBack, NothingToFallBackOn, Asked
  <2>2. /\ namespace' = namespace /\ rcReused' = rcReused
        /\ \A d \in Callers \ {c} : fellBack'[d] = fellBack[d]
    BY <1>0, <1>3
    DEF GetCompositeStructureParses, StoresAndDecides, GetCompositeStructureFails,
        FallsBack, NothingToFallBackOn, callVars, rcVars, RC!Done, TypeOK
  <2>3. Sound(c)'
    BY <1>0, <2>1, <2>2 DEF TypeOK, Sound, Asked
  <2> QED BY <1>0, <2>1, <2>2, <2>3, OneCallersStep DEF TypeOK
<1>4. CASE Reply(c)
  <2>1. /\ pc' = [pc EXCEPT ![c] = "idle"]
        /\ namespace' = [namespace EXCEPT ![c] = Nil]
        /\ fellBack' = [fellBack EXCEPT ![c] = FALSE]
        /\ rcReused' = [rcReused EXCEPT ![c] = FALSE]
    BY <1>4 DEF Reply, RC!Forget
  <2>2. Sound(c)'
    BY <1>0, <2>1 DEF TypeOK, RC!RcTypeOK, Sound, Asked
  <2> QED BY <1>0, <2>1, <2>2, OneCallersStep DEF TypeOK, RC!RcTypeOK
<1> QED BY <1>1, <1>2, <1>3, <1>4

\* Bytes are overwritten under checks that ask.
LEMMA OverwritingKeepsSInv ==
  ASSUME IInv, SInv, NEW S \in SUBSET RC!Exposed,
         rcReused' = [d \in Callers |-> rcReused[d] \/ d \in S],
         UNCHANGED <<pc, namespace, fellBack>>
  PROVE  SInv'
<1> SUFFICES ASSUME NEW c \in Callers PROVE Sound(c)'
  BY DEF SInv
<1>1. ~Asked(c) => c \notin S
  BY DEF IInv, CallsAreChecks, Asked, RC!Exposed
<1> QED BY <1>1 DEF SInv, Sound, Asked

LEMMA SInvHolds == Spec => []SInv
<1>1. Init => SInv
  BY DEF Init, SInv, Sound, Asked, RC!RcInit
<1>2. IInv /\ SInv /\ [Next]_vars => SInv'
  <2> SUFFICES ASSUME IInv, SInv, [Next]_vars PROVE SInv'
    OBVIOUS
  <2>1. ASSUME NEW c \in Callers, Steps(c) PROVE SInv'
    <3>1. CASE CallReturns(c)
      <4>1. PICK S \in SUBSET RC!Exposed : RC!Return(c, S)
        BY <3>1 DEF CallReturns
      <4> QED BY <3>1, <4>1, OverwritingKeepsSInv
              DEF CallReturns, RC!Return, localVars, callVars
    <3> QED BY <2>1, <3>1, ChecksKeepSInv DEF Steps
  <2>2. CASE BufferReused
    <3>1. PICK S \in SUBSET RC!Exposed, body \in {Garbage, Blank} :
               RC!ForeignRead(S, body)
      BY <2>2 DEF BufferReused
    <3> QED BY <2>2, <3>1, OverwritingKeepsSInv
            DEF BufferReused, RC!ForeignRead, localVars, callVars
  <2>3. CASE CpChanges \/ UNCHANGED vars
    BY <2>3 DEF CpChanges, vars, localVars, callVars, rcVars, SInv, Sound, Asked
  <2>4. CASE Restart
    BY <2>4 DEF Restart, RC!RcRestart, SInv, Sound, Asked
  <2> QED BY <2>1, <2>2, <2>3, <2>4 DEF Next
<1> QED BY <1>1, <1>2, IInvHolds, PTL DEF Spec

-----------------------------------------------------------------------------

\* The abstract state: what the instance Promised puts for it.
listedOf == Members(cpVersion)
everOf == UNION {Members(v) : v \in cpBase..cpVersion}
StateOf(c) ==
  IF pc[c] = "exempt" THEN "idle"
  ELSE IF pc[c] \in {"storing", "falling"} THEN "asking"
  ELSE IF pc[c] = "allowed" /\ namespace[c] = Empty THEN "strayed"
  ELSE pc[c]
ItemOf(c) == IF Asked(c) THEN namespace[c] ELSE Nil
AbsentOf(c) ==
  IF ~Asked(c) THEN {}
  ELSE IF fellBack[c] \/ rcReused[c] THEN Names
  ELSE Outside(start[c]..cpVersion)
stateOf == [c \in Callers |-> StateOf(c)]
itemOf == [c \in Callers |-> ItemOf(c)]
absentOf == [c \in Callers |-> AbsentOf(c)]

\* What a step leaves alone of it that leaves control-plane alone.
LEMMA ListsUnchanged ==
  ASSUME UNCHANGED cpVars
  PROVE  /\ listedOf' = listedOf /\ everOf' = everOf
         /\ \A v : Members(v)' = Members(v)
         /\ \A vs : Outside(vs)' = Outside(vs)
BY DEF cpVars, listedOf, everOf, Outside, Members

\* A caller whose check a step leaves alone is left alone in the abstract.
LEMMA CallerUnchanged ==
  ASSUME UNCHANGED cpVars, NEW c \in Callers,
         pc'[c] = pc[c], namespace'[c] = namespace[c], start'[c] = start[c],
         fellBack'[c] = fellBack[c], rcReused'[c] = rcReused[c]
  PROVE  StateOf(c)' = StateOf(c) /\ ItemOf(c)' = ItemOf(c) /\ AbsentOf(c)' = AbsentOf(c)
<1>1. \A vs : Outside(vs)' = Outside(vs)
  BY ListsUnchanged
<1> QED BY <1>1 DEF StateOf, ItemOf, AbsentOf, Asked, cpVars

LEMMA Stutters ==
  ASSUME UNCHANGED cpVars,
         \A c \in Callers : /\ StateOf(c)' = StateOf(c) /\ ItemOf(c)' = ItemOf(c)
                            /\ AbsentOf(c)' = AbsentOf(c)
  PROVE  UNCHANGED Promised!vars
<1>1. listedOf' = listedOf /\ everOf' = everOf
  BY ListsUnchanged
<1>2. stateOf' = stateOf /\ itemOf' = itemOf /\ absentOf' = absentOf
  BY DEF stateOf, itemOf, absentOf
<1> QED BY <1>1, <1>2
        DEF Promised!vars, listedOf, everOf, stateOf, itemOf, absentOf, StateOf,
            ItemOf, AbsentOf

\* The verdicts of the abstract check.
Results == {"allowed", "strayed", "denied", "failed"}

\* A step of one caller that answers it, in the abstract too.
LEMMA AnswerMaps ==
  ASSUME TypeOK, NEW c \in Callers, NEW result \in Results,
         pc[c] \in {"storing", "falling"},
         \A d \in Callers \ {c} : pc'[d] = pc[d],
         Asked(c)', StateOf(c)' = result,
         UNCHANGED <<cpVars, namespace, start, fellBack, rcReused>>
  PROVE  Promised!Answer(c, result)
<1>1. listedOf' = listedOf /\ everOf' = everOf /\ \A vs : Outside(vs)' = Outside(vs)
  BY ListsUnchanged
<1>2. \A d \in Callers \ {c} : /\ StateOf(d)' = StateOf(d) /\ ItemOf(d)' = ItemOf(d)
                               /\ AbsentOf(d)' = AbsentOf(d)
  BY CallerUnchanged
<1>3. StateOf(c) = "asking" /\ Asked(c)
  BY DEF StateOf, Asked
<1>4. ItemOf(c)' = ItemOf(c) /\ AbsentOf(c)' = AbsentOf(c)
  BY <1>1, <1>3 DEF ItemOf, AbsentOf, cpVars
<1>5. stateOf' = [stateOf EXCEPT ![c] = result] /\ stateOf[c] = "asking"
  BY <1>2, <1>3 DEF stateOf
<1>6. itemOf' = itemOf /\ absentOf' = absentOf
  BY <1>2, <1>4 DEF itemOf, absentOf
<1> QED BY <1>1, <1>5, <1>6
        DEF Promised!Answer, Promised!Asking, listedOf, everOf, stateOf, itemOf,
            absentOf, StateOf, ItemOf, AbsentOf

\* A verdict by structure l, of this lifetime: the abstract check may give it,
\* provided that a denial is justified.
LEMMA VerdictMaps ==
  ASSUME IInv, SInv, NEW c \in Callers, NEW l \in Structures, Recent(l),
         pc[c] \in {"storing", "falling"},
         pc' = [pc EXCEPT ![c] = Verdict(l, namespace[c])],
         UNCHANGED <<cpVars, namespace, start, fellBack, rcReused>>,
         namespace[c] \notin Members(l) => namespace[c] \in AbsentOf(c)
  PROVE  Promised!Allow(c) \/ Promised!Deny(c) \/ Promised!Stray(c)
<1>0. TypeOK /\ Asked(c) /\ namespace[c] \in Names
  BY DEF IInv, SInv, Sound, Asked
<1>1. pc'[c] = Verdict(l, namespace[c]) /\ \A d \in Callers \ {c} : pc'[d] = pc[d]
  BY <1>0 DEF TypeOK
<1>2. pc'[c] \in {"allowed", "denied"} /\ Asked(c)'
  BY <1>1, VerdictIsTold DEF Asked
<1>3. itemOf[c] = namespace[c] /\ absentOf[c] = AbsentOf(c)
  BY <1>0 DEF itemOf, ItemOf, absentOf
<1>4. CASE pc'[c] = "allowed" /\ namespace[c] # Empty
  <2>1. \E v \in cpBase..cpVersion : namespace[c] \in Members(v)
    <3>1. namespace[c] \in Members(l)
      BY <1>1, <1>4, VerdictIsTold
    <3>2. CASE l \in Versions
      BY <3>1, <3>2 DEF Recent
    <3>3. CASE l = Blank
      BY <1>4, <3>1, <3>3 DEF Members
    <3> QED BY <3>2, <3>3 DEF Structures
  <2>2. itemOf[c] \in everOf
    BY <1>3, <2>1 DEF everOf
  <2>3. StateOf(c)' = "allowed" /\ "allowed" \in Results
    BY <1>4 DEF StateOf, Results
  <2>4. Promised!Answer(c, "allowed")
    BY <1>0, <1>1, <1>2, <2>3, AnswerMaps
  <2> QED BY <2>2, <2>4 DEF Promised!Allow, itemOf, ItemOf, everOf
<1>5. CASE pc'[c] = "allowed" /\ namespace[c] = Empty
  <2>1. itemOf[c] \in {Empty}
    BY <1>3, <1>5
  <2>2. StateOf(c)' = "strayed" /\ "strayed" \in Results
    BY <1>5 DEF StateOf, Results
  <2>3. Promised!Answer(c, "strayed")
    BY <1>0, <1>1, <1>2, <2>2, AnswerMaps
  <2> QED BY <2>1, <2>3 DEF Promised!Stray, itemOf, ItemOf
<1>6. CASE pc'[c] = "denied"
  <2>1. itemOf[c] \in absentOf[c]
    BY <1>1, <1>3, <1>6, VerdictIsTold
  <2>2. StateOf(c)' = "denied" /\ "denied" \in Results
    BY <1>6 DEF StateOf, Results
  <2>3. Promised!Answer(c, "denied")
    BY <1>0, <1>1, <1>2, <2>2, AnswerMaps
  <2> QED BY <2>1, <2>3 DEF Promised!Deny, itemOf, ItemOf, absentOf, AbsentOf
<1> QED BY <1>2, <1>4, <1>5, <1>6

\* By the answer, by the cache that stands in for it, by neither.
LEMMA DecisionMaps ==
  ASSUME IInv, SInv, NEW c \in Callers,
         StoresAndDecides(c) \/ FallsBack(c) \/ NothingToFallBackOn(c)
  PROVE  Promised!Allow(c) \/ Promised!Deny(c) \/ Promised!Stray(c) \/ Promised!Fail(c)
<1>0. /\ TypeOK /\ StructuresAreRecent /\ ChecksAreUnderWay /\ AnswersAreYoung
      /\ namespace[c] \in Names
      /\ UNCHANGED <<cpVars, namespace, start, fellBack, rcReused>>
  BY DEF IInv, SInv, Sound, Asked, StoresAndDecides, FallsBack,
         NothingToFallBackOn, callVars, rcVars
<1>1. CASE StoresAndDecides(c)
  <2>1. /\ pc[c] = "storing" /\ pc' = [pc EXCEPT ![c] = Verdict(structure[c], namespace[c])]
        /\ structure[c] \in Structures /\ Recent(structure[c])
    BY <1>0, <1>1 DEF StoresAndDecides, ChecksAreUnderWay, StructuresAreRecent
  <2>2. ~rcReused[c] => structure[c] \in start[c]..cpVersion
    BY <1>0, <2>1 DEF AnswersAreYoung
  <2>3. namespace[c] \notin Members(structure[c]) => namespace[c] \in AbsentOf(c)
    BY <1>0, <2>1, <2>2 DEF AbsentOf, Asked, Outside
  <2> QED BY <1>0, <2>1, <2>3, VerdictMaps
<1>2. CASE FallsBack(c)
  <2>1. /\ pc[c] = "falling" /\ fellBack[c]
        /\ pc' = [pc EXCEPT ![c] = Verdict(compositeStructureCache, namespace[c])]
        /\ compositeStructureCache \in Structures /\ Recent(compositeStructureCache)
    BY <1>0, <1>2 DEF FallsBack, TypeOK, ChecksAreUnderWay, StructuresAreRecent
  <2>2. namespace[c] \in AbsentOf(c)
    BY <1>0, <2>1 DEF AbsentOf, Asked
  <2> QED BY <1>0, <2>1, <2>2, VerdictMaps
<1>3. CASE NothingToFallBackOn(c)
  <2>1. pc[c] = "falling" /\ pc'[c] = "failed" /\ \A d \in Callers \ {c} : pc'[d] = pc[d]
    BY <1>0, <1>3 DEF NothingToFallBackOn, TypeOK
  <2>2. Asked(c)' /\ StateOf(c)' = "failed" /\ "failed" \in Results
    BY <2>1 DEF Asked, StateOf, Results
  <2>3. Promised!Answer(c, "failed")
    BY <1>0, <2>1, <2>2, AnswerMaps
  <2> QED BY <2>3 DEF Promised!Fail
<1> QED BY <1>1, <1>2, <1>3

LEMMA InitMaps == Init => Promised!Init
<1> SUFFICES ASSUME Init PROVE Promised!Init
  OBVIOUS
<1>1. 0 \in Versions /\ cpHistory \in [Versions -> SUBSET Names]
  BY CpAssumption DEF Init, Versions
<1>2. listedOf \in SUBSET Names
  BY <1>1, CpAssumption DEF Init, listedOf, Members
<1>3. everOf = listedOf
  BY DEF Init, everOf, listedOf
<1>4. /\ stateOf = [c \in Callers |-> "idle"] /\ itemOf = [c \in Callers |-> Nil]
      /\ absentOf = [c \in Callers |-> {}]
  BY DEF Init, stateOf, StateOf, itemOf, ItemOf, absentOf, AbsentOf, Asked
<1> QED BY <1>2, <1>3, <1>4
        DEF Promised!Init, listedOf, everOf, stateOf, itemOf, absentOf, StateOf,
            ItemOf, AbsentOf

\* The call of a check that is not exempt is the asking of it.
LEMMA CheckMaps ==
  ASSUME IInv, SInv, NEW c \in Callers, NEW ns \in Names, CheckNamespace(c, ns)
  PROVE  Promised!Ask(c, ns)
<1> USE DEF CheckNamespace, Calls
<1>1. listedOf' = listedOf /\ everOf' = everOf /\ \A vs : Outside(vs)' = Outside(vs)
  BY ListsUnchanged
<1>2. UNCHANGED <<cpVersion, fellBack, rcReused>>
  BY DEF cpVars, RC!Send, RC!BuildFails
<1>3. /\ pc[c] = "idle" /\ pc'[c] = "asking"
      /\ start'[c] = cpVersion /\ namespace'[c] = ns
      /\ \A d \in Callers \ {c} :
            pc'[d] = pc[d] /\ start'[d] = start[d] /\ namespace'[d] = namespace[d]
  BY DEF IInv, TypeOK
<1>4. \A d \in Callers \ {c} : /\ StateOf(d)' = StateOf(d) /\ ItemOf(d)' = ItemOf(d)
                               /\ AbsentOf(d)' = AbsentOf(d)
  BY <1>2, <1>3, CallerUnchanged
<1>5. ~fellBack[c] /\ ~rcReused[c]
  BY <1>3 DEF SInv, Sound, Asked
<1>6. AbsentOf(c)' = Names \ listedOf
  <2>1. cpVersion..cpVersion = {cpVersion}
    BY CpAssumption DEF IInv, TypeOK, Versions
  <2>2. Outside(cpVersion..cpVersion) = Names \ listedOf
    BY <2>1 DEF Outside, listedOf
  <2> QED BY <1>1, <1>2, <1>3, <1>5, <2>2 DEF AbsentOf, Asked
<1>7. StateOf(c) = "idle" /\ StateOf(c)' = "asking" /\ ItemOf(c)' = ns
  BY <1>3 DEF StateOf, ItemOf, Asked
<1>8. /\ stateOf[c] = "idle" /\ stateOf' = [stateOf EXCEPT ![c] = "asking"]
      /\ itemOf' = [itemOf EXCEPT ![c] = ns]
      /\ absentOf' = [absentOf EXCEPT ![c] = Names \ listedOf]
  BY <1>4, <1>6, <1>7 DEF stateOf, itemOf, absentOf
<1> QED BY <1>1, <1>8
        DEF Promised!Ask, listedOf, everOf, stateOf, itemOf, absentOf, StateOf,
            ItemOf, AbsentOf

\* An exempt check is none, and a call's progress changes nothing.
LEMMA OtherStepsStutter ==
  ASSUME IInv, SInv, NEW c \in Callers,
         \/ \E ns \in Names : Exempt(c, ns)
         \/ CpAnswers(c) \/ CallFails(c) \/ GetCompositeStructureParses(c)
         \/ pc[c] = "exempt" /\ Reply(c)
  PROVE  UNCHANGED Promised!vars
<1>0. TypeOK /\ RC!RcTypeOK
  BY DEF IInv, TypeOK
<1>1. /\ UNCHANGED cpVars
      /\ \A d \in Callers \ {c} :
            /\ pc'[d] = pc[d] /\ namespace'[d] = namespace[d] /\ start'[d] = start[d]
            /\ fellBack'[d] = fellBack[d] /\ rcReused'[d] = rcReused[d]
  BY <1>0
  DEF Exempt, Calls, CpAnswers, CallFails, GetCompositeStructureParses, Reply,
      TypeOK, RC!RcTypeOK, RC!Answer, RC!ConnectionFails, RC!Done, RC!Forget,
      localVars, callVars, rcVars
<1>2. \A d \in Callers \ {c} : /\ StateOf(d)' = StateOf(d) /\ ItemOf(d)' = ItemOf(d)
                               /\ AbsentOf(d)' = AbsentOf(d)
  BY <1>1, CallerUnchanged
<1>3. StateOf(c)' = StateOf(c) /\ ItemOf(c)' = ItemOf(c) /\ AbsentOf(c)' = AbsentOf(c)
  <2>1. CASE CpAnswers(c) \/ CallFails(c)
    <3>1. UNCHANGED <<pc, namespace, start, fellBack, rcReused>>
      BY <2>1 DEF CpAnswers, CallFails, RC!Answer, RC!ConnectionFails, localVars,
                  callVars
    <3> QED BY <1>1, <3>1, CallerUnchanged
  <2>2. CASE GetCompositeStructureParses(c)
    <3>1. /\ pc[c] = "asking" /\ pc'[c] = "storing"
          /\ UNCHANGED <<namespace, start, fellBack, rcReused>>
      BY <1>0, <2>2 DEF GetCompositeStructureParses, RC!Done, callVars, TypeOK
    <3>2. \A vs : Outside(vs)' = Outside(vs)
      BY <1>1, ListsUnchanged
    <3> QED BY <1>1, <3>1, <3>2 DEF StateOf, ItemOf, AbsentOf, Asked, cpVars
  <2>3. CASE (\E ns \in Names : Exempt(c, ns)) \/ (pc[c] = "exempt" /\ Reply(c))
    <3>1. pc[c] \in {"idle", "exempt"} /\ pc'[c] \in {"idle", "exempt"}
      BY <1>0, <2>3 DEF Exempt, Calls, Reply, TypeOK
    <3> QED BY <3>1 DEF StateOf, ItemOf, AbsentOf, Asked
  <2> QED BY <2>1, <2>2, <2>3
<1> QED BY <1>1, <1>2, <1>3, Stutters

\* A buffer that is read into under S makes them misread their answers.
LEMMA MisreadMaps ==
  ASSUME IInv, NEW S \in SUBSET RC!Exposed,
         rcReused' = [d \in Callers |-> rcReused[d] \/ d \in S],
         UNCHANGED <<cpVars, localVars>>
  PROVE  Promised!Misread(S) /\ S \in SUBSET {c \in Callers : Promised!Asking(c)}
<1> USE DEF localVars, callVars
<1>1. listedOf' = listedOf /\ everOf' = everOf /\ \A vs : Outside(vs)' = Outside(vs)
  BY ListsUnchanged
<1>2. stateOf' = stateOf /\ itemOf' = itemOf
  BY DEF stateOf, StateOf, itemOf, ItemOf, Asked
<1>3. \A d \in S : d \in Callers /\ pc[d] = "asking"
  BY DEF RC!Exposed, IInv, CallsAreChecks
<1>4. \A d \in Callers : AbsentOf(d)' = IF d \in S THEN Names ELSE AbsentOf(d)
  <2> SUFFICES ASSUME NEW d \in Callers
               PROVE  AbsentOf(d)' = IF d \in S THEN Names ELSE AbsentOf(d)
    OBVIOUS
  <2>1. CASE d \in S
    BY <1>3, <2>1 DEF AbsentOf, Asked
  <2>2. CASE d \notin S
    <3>1. rcReused'[d] = rcReused[d]
      BY <2>2 DEF IInv, TypeOK, RC!RcTypeOK
    <3> QED BY <2>2, <3>1, CallerUnchanged
  <2> QED BY <2>1, <2>2
<1>5. absentOf' = [d \in Callers |-> IF d \in S THEN Names ELSE absentOf[d]]
  BY <1>4 DEF absentOf
<1>6. \A d \in S : stateOf[d] = "asking"
  BY <1>3 DEF stateOf, StateOf
<1> QED BY <1>1, <1>2, <1>3, <1>5, <1>6
        DEF Promised!Misread, Promised!Asking, listedOf, everOf, stateOf, itemOf,
            absentOf, StateOf, ItemOf, AbsentOf

\* A check that gets no answer goes by the cache instead, and by whatever that
\* holds: the abstract check misreads.
LEMMA FallbackMaps ==
  ASSUME IInv, NEW c \in Callers, GetCompositeStructureFails(c)
  PROVE  Promised!Misread({c}) /\ {c} \in SUBSET {d \in Callers : Promised!Asking(d)}
<1>1. /\ pc[c] = "asking" /\ pc'[c] = "falling" /\ fellBack'[c]
      /\ UNCHANGED <<cpVars, namespace, start, rcReused>>
      /\ \A d \in Callers \ {c} : pc'[d] = pc[d] /\ fellBack'[d] = fellBack[d]
  BY DEF GetCompositeStructureFails, RC!Done, callVars, IInv, TypeOK
<1>2. listedOf' = listedOf /\ everOf' = everOf
  BY <1>1, ListsUnchanged
<1>3. \A d \in Callers \ {c} : /\ StateOf(d)' = StateOf(d) /\ ItemOf(d)' = ItemOf(d)
                               /\ AbsentOf(d)' = AbsentOf(d)
  BY <1>1, CallerUnchanged
<1>4. StateOf(c)' = "asking" /\ StateOf(c) = "asking" /\ ItemOf(c)' = ItemOf(c)
        /\ AbsentOf(c)' = Names
  BY <1>1 DEF StateOf, ItemOf, AbsentOf, Asked
<1>5. /\ stateOf' = stateOf /\ stateOf[c] = "asking" /\ itemOf' = itemOf
      /\ absentOf' = [d \in Callers |-> IF d \in {c} THEN Names ELSE absentOf[d]]
  BY <1>3, <1>4 DEF stateOf, itemOf, absentOf
<1> QED BY <1>2, <1>5
        DEF Promised!Misread, Promised!Asking, listedOf, everOf, stateOf, itemOf,
            absentOf, StateOf, ItemOf, AbsentOf

LEMMA ReplyMaps ==
  ASSUME IInv, NEW c \in Callers, Reply(c), pc[c] # "exempt"
  PROVE  Promised!Return(c)
<1>1. /\ pc[c] \in {"allowed", "denied", "failed"} /\ pc'[c] = "idle"
      /\ UNCHANGED cpVars
      /\ \A d \in Callers \ {c} :
            /\ pc'[d] = pc[d] /\ namespace'[d] = namespace[d] /\ start'[d] = start[d]
            /\ fellBack'[d] = fellBack[d] /\ rcReused'[d] = rcReused[d]
  BY DEF Reply, RC!Forget, IInv, TypeOK, RC!RcTypeOK
<1>2. listedOf' = listedOf /\ everOf' = everOf
  BY <1>1, ListsUnchanged
<1>3. \A d \in Callers \ {c} : /\ StateOf(d)' = StateOf(d) /\ ItemOf(d)' = ItemOf(d)
                               /\ AbsentOf(d)' = AbsentOf(d)
  BY <1>1, CallerUnchanged
<1>4. /\ StateOf(c) \in Results /\ StateOf(c)' = "idle"
      /\ ItemOf(c)' = Nil /\ AbsentOf(c)' = {}
  BY <1>1 DEF StateOf, ItemOf, AbsentOf, Asked, Results
<1>5. /\ stateOf[c] \in Results /\ stateOf' = [stateOf EXCEPT ![c] = "idle"]
      /\ itemOf' = [itemOf EXCEPT ![c] = Nil]
      /\ absentOf' = [absentOf EXCEPT ![c] = {}]
  BY <1>3, <1>4 DEF stateOf, itemOf, absentOf
<1> QED BY <1>2, <1>5
        DEF Promised!Return, Promised!Answers, Results, listedOf, everOf, stateOf,
            itemOf, absentOf, StateOf, ItemOf, AbsentOf

\* The next structure is published under the checks that go on.
LEMMA ChangeMaps ==
  ASSUME IInv, CpChanges
  PROVE  Promised!Publish
<1> USE CpAssumption
<1>1. /\ cpVersion \in Nat /\ cpVersion' = cpVersion + 1 /\ cpVersion' \in Versions
      /\ cpBase \in 0..cpVersion /\ start \in [Callers -> 0..cpVersion]
      /\ UNCHANGED <<cpHistory, cpBase, pc, namespace, start, fellBack, rcReused>>
      /\ cpHistory \in [Versions -> SUBSET Names]
  BY DEF IInv, TypeOK, Versions, CpChanges, localVars, callVars, rcVars
<1>2. \A v : Members(v)' = Members(v)
  BY <1>1 DEF Members
<1>3. listedOf' = Members(cpVersion + 1)
  BY <1>1, <1>2 DEF listedOf
<1>4. listedOf' \in SUBSET Names
  BY <1>1, <1>3 DEF Members, Names
<1>5. \A k \in 0..cpVersion : k..cpVersion' = (k..cpVersion) \cup {cpVersion + 1}
  BY <1>1
<1>6. everOf' = everOf \cup listedOf'
  <2>1. everOf' = UNION {Members(v) : v \in cpBase..cpVersion'}
    BY <1>1, <1>2 DEF everOf
  <2>2. cpBase..cpVersion' = (cpBase..cpVersion) \cup {cpVersion + 1}
    BY <1>1, <1>5
  <2> QED BY <1>3, <2>1, <2>2 DEF everOf
<1>7. stateOf' = stateOf /\ itemOf' = itemOf
  BY <1>1 DEF stateOf, StateOf, itemOf, ItemOf, Asked
<1>8. \A d \in Callers :
         AbsentOf(d)' = IF stateOf[d] # "idle" THEN AbsentOf(d) \cup (Names \ listedOf')
                                               ELSE AbsentOf(d)
  <2> SUFFICES ASSUME NEW d \in Callers
               PROVE  AbsentOf(d)' = IF Asked(d) THEN AbsentOf(d) \cup (Names \ listedOf')
                                                 ELSE AbsentOf(d)
    BY DEF stateOf, StateOf, Asked
  <2>1. \A vs : Outside(vs)' = Outside(vs)
    BY <1>2 DEF Outside
  <2>2. Outside(start[d]..cpVersion') =
           Outside(start[d]..cpVersion) \cup (Names \ listedOf')
    <3>1. start[d]..cpVersion' = (start[d]..cpVersion) \cup {cpVersion + 1}
      BY <1>1, <1>5
    <3> QED BY <1>3, <3>1 DEF Outside
  <2> QED BY <1>1, <2>1, <2>2 DEF AbsentOf, Asked
<1>9. absentOf' = [d \in Callers |-> IF stateOf[d] # "idle"
                                     THEN absentOf[d] \cup (Names \ listedOf')
                                     ELSE absentOf[d]]
  BY <1>8 DEF absentOf
<1> QED BY <1>4, <1>6, <1>7, <1>9
        DEF Promised!Publish, Promised!Busy, listedOf, everOf, stateOf, itemOf,
            absentOf, StateOf, ItemOf, AbsentOf

LEMMA RestartMaps ==
  ASSUME IInv, Restart
  PROVE  Promised!Restart
<1> USE DEF Restart
<1>1. \A v : Members(v)' = Members(v)
  BY DEF Members
<1>2. cpVersion' = cpVersion /\ cpBase' = cpVersion /\ cpVersion..cpVersion = {cpVersion}
  BY CpAssumption DEF IInv, TypeOK, Versions
<1>3. listedOf' = listedOf /\ everOf' = listedOf
  BY <1>1, <1>2 DEF listedOf, everOf
<1>4. /\ stateOf' = [c \in Callers |-> "idle"] /\ itemOf' = [c \in Callers |-> Nil]
      /\ absentOf' = [c \in Callers |-> {}]
  BY DEF stateOf, StateOf, itemOf, ItemOf, absentOf, AbsentOf, Asked
<1> QED BY <1>3, <1>4
        DEF Promised!Restart, listedOf, everOf, stateOf, itemOf, absentOf, StateOf,
            ItemOf, AbsentOf

LEMMA StepMaps == IInv /\ SInv /\ [Next]_vars => [Promised!Next]_Promised!vars
<1> SUFFICES ASSUME IInv, SInv, [Next]_vars
             PROVE  Promised!Next \/ UNCHANGED Promised!vars
  OBVIOUS
<1>1. ASSUME NEW c \in Callers, Steps(c)
      PROVE  Promised!Next \/ UNCHANGED Promised!vars
  <2>1. ASSUME NEW ns \in Names, CheckNamespace(c, ns) PROVE Promised!Next
    BY <2>1, CheckMaps DEF Promised!Next
  <2>2. CASE StoresAndDecides(c) \/ FallsBack(c) \/ NothingToFallBackOn(c)
    BY <2>2, DecisionMaps DEF Promised!Next, Promised!Upstream
  <2>3. CASE CallReturns(c)
    <3>1. PICK S \in SUBSET RC!Exposed : RC!Return(c, S)
      BY <2>3 DEF CallReturns
    <3>2. Promised!Misread(S) /\ S \in SUBSET {d \in Callers : Promised!Asking(d)}
      BY <2>3, <3>1, MisreadMaps DEF CallReturns, RC!Return
    <3> QED BY <3>2 DEF Promised!Next, Promised!Upstream
  <2>4. CASE GetCompositeStructureFails(c)
    BY <2>4, FallbackMaps DEF Promised!Next, Promised!Upstream
  <2>5. CASE Reply(c) /\ pc[c] # "exempt"
    BY <2>5, ReplyMaps DEF Promised!Next
  <2> QED BY <1>1, <2>1, <2>2, <2>3, <2>4, <2>5, OtherStepsStutter DEF Steps
<1>2. CASE BufferReused
  <2>1. PICK S \in SUBSET RC!Exposed, body \in {Garbage, Blank} :
             RC!ForeignRead(S, body)
    BY <1>2 DEF BufferReused
  <2>2. Promised!Misread(S) /\ S \in SUBSET {d \in Callers : Promised!Asking(d)}
    BY <1>2, <2>1, MisreadMaps DEF BufferReused, RC!ForeignRead
  <2> QED BY <2>2 DEF Promised!Next, Promised!Upstream
<1>3. CASE CpChanges
  BY <1>3, ChangeMaps DEF Promised!Next, Promised!Upstream
<1>4. CASE Restart
  BY <1>4, RestartMaps DEF Promised!Next
<1>5. CASE UNCHANGED vars
  <2>1. UNCHANGED <<cpVars, pc, namespace, start, fellBack, rcReused>>
    BY <1>5 DEF vars, localVars, callVars, rcVars
  <2> QED BY <2>1, CallerUnchanged, Stutters
<1> QED BY <1>1, <1>2, <1>3, <1>4, <1>5 DEF Next

\* CheckNamespaceIsolation and CheckNamespaceFromClassifier, where they ask
\* control-plane at all, keep the promise the handlers rely on; an old
\* structure that stands in for an answer is part of it, and so is the empty
\* namespace.
THEOREM NamespaceChecksKeepThePromise == Spec => KeepsThePromise
<1> QED BY IInvHolds, SInvHolds, InitMaps, StepMaps, PTL
        DEF Spec, KeepsThePromise, Promised!Spec
=============================================================================
