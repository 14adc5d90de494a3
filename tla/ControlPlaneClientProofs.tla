---------------------- MODULE ControlPlaneClientProofs ----------------------
(***************************************************************************)
(* What the namespace checks decide, and what their cache holds, for any   *)
(* number of callers, namespaces and versions of the composite structure.  *)
(***************************************************************************)
EXTENDS ControlPlaneClient, TLAPS

\* A structure that names a version names one of this process's lifetime.
Recent(l) == l \in Versions => l \in cpBase..cpVersion

\* Wherever a structure may be: in the cache, in the bytes of a response, in
\* what a caller has parsed.
StructuresAreRecent ==
  /\ Recent(compositeStructureCache)
  /\ \A c \in Callers : Recent(rcResp[c].body) /\ Recent(structure[c])

\* A call is made by a check that asks, and by no other.
CallsAreChecks ==
  \A c \in Callers : pc[c] # "asking" =>
     rcPc[c] = "idle" /\ rcResp[c].body = Nil

\* A structure is stored by a check that has one, and a check that has none
\* says so.
ChecksAreUnderWay ==
  \A c \in Callers :
     /\ pc[c] = "storing" => structure[c] \in Structures
     /\ pc[c] = "falling" => fellBack[c]

\* An answer that nobody has written over is younger than the check.
AnswersAreYoung ==
  \A c \in Callers : ~rcReused[c] =>
     /\ rcResp[c].body \in Structures => rcResp[c].body \in start[c]..cpVersion
     /\ pc[c] = "storing" => structure[c] \in start[c]..cpVersion

\* What the verdicts mean.
Verdicts == AdmittedWasMember /\ AnsweredVerdictIsFresh

IInv ==
  /\ TypeOK
  /\ StructuresAreRecent
  /\ CallsAreChecks
  /\ ChecksAreUnderWay
  /\ AnswersAreYoung
  /\ Verdicts

-----------------------------------------------------------------------------

\* A named namespace found in a recent structure has been in the platform.
LEMMA FoundIsMember ==
  ASSUME NEW l \in Structures, Recent(l), NEW ns, ns # Empty, ns \in Members(l)
  PROVE  \E v \in cpBase..cpVersion : ns \in Members(v)
<1>1. CASE l \in Versions
  BY <1>1 DEF Recent
<1>2. CASE l = Blank
  BY <1>2 DEF Members
<1> QED BY <1>1, <1>2 DEF Structures

\* A verdict is one of the two.
LEMMA VerdictIsTold ==
  ASSUME NEW l, NEW ns
  PROVE  /\ Verdict(l, ns) \in {"allowed", "denied"}
         /\ Verdict(l, ns) = "allowed" => ns \in Members(l)
         /\ Verdict(l, ns) = "denied" => ns \notin Members(l)
  BY DEF Verdict

\* Verdicts that have been given stay right while control-plane's structure
\* moves on.
LEMMA VerdictsStay ==
  ASSUME TypeOK, Verdicts,
         cpHistory' = cpHistory, cpBase' = cpBase,
         cpVersion' \in Nat, cpVersion' >= cpVersion,
         \A c \in Callers : pc'[c] \in {"allowed", "denied"} =>
            /\ pc'[c] = pc[c] /\ namespace'[c] = namespace[c]
            /\ start'[c] = start[c] /\ fellBack'[c] = fellBack[c]
            /\ rcReused[c] => rcReused'[c]
  PROVE  Verdicts'
<1> USE CpAssumption DEF TypeOK, Versions
<1>1. \A v : Members(v)' = Members(v)
  BY DEF Members
<1>2. \A v : v \in cpBase..cpVersion => v \in cpBase'..cpVersion'
  OBVIOUS
<1>3. \A c \in Callers : pc'[c] \in {"allowed", "denied"} =>
         \A v : v \in start[c]..cpVersion => v \in start'[c]..cpVersion'
  OBVIOUS
<1>4. AdmittedWasMember'
  BY <1>1, <1>2 DEF Verdicts, AdmittedWasMember
<1>5. AnsweredVerdictIsFresh'
  BY <1>1, <1>3 DEF Verdicts, AnsweredVerdictIsFresh
<1> QED BY <1>4, <1>5 DEF Verdicts

-----------------------------------------------------------------------------

\* Nothing is cached and nothing under way.
LEMMA InitIInv == Init => IInv
<1> SUFFICES ASSUME Init PROVE IInv
  OBVIOUS
<1> USE CpAssumption
<1>1. TypeOK
  BY DEF Init, TypeOK, RC!RcInit, RC!RcTypeOK, RC!NoResponse, RC!Responses,
         RC!StatusOK, RC!StatusError, Versions, Structures
<1>2. StructuresAreRecent /\ CallsAreChecks /\ ChecksAreUnderWay /\ AnswersAreYoung
  BY DEF Init, StructuresAreRecent, Recent, CallsAreChecks, ChecksAreUnderWay,
         AnswersAreYoung, RC!RcInit, RC!NoResponse, Structures
<1>3. Verdicts
  BY DEF Init, Verdicts, AdmittedWasMember, AnsweredVerdictIsFresh
<1> QED BY <1>1, <1>2, <1>3 DEF IInv

\* What a step of the REST client must keep for the checks to keep theirs.
LEMMA CallsKeepIInv ==
  ASSUME IInv, UNCHANGED <<cpVars, compositeStructureCache, localVars>>,
         RC!RcTypeOK', CallsAreChecks',
         \A c \in Callers :
            /\ Recent(rcResp'[c].body)
            /\ rcReused[c] => rcReused'[c]
            /\ ~rcReused'[c] /\ rcResp'[c].body \in Structures =>
                  rcResp'[c].body \in start[c]..cpVersion
  PROVE  IInv'
<1> USE DEF cpVars, localVars, callVars
<1>1. TypeOK'
  BY DEF IInv, TypeOK
<1>2. StructuresAreRecent'
  BY DEF IInv, StructuresAreRecent, Recent
<1>3. ChecksAreUnderWay'
  BY DEF IInv, ChecksAreUnderWay
<1>4. AnswersAreYoung'
  BY DEF IInv, TypeOK, RC!RcTypeOK, AnswersAreYoung
<1>5. Verdicts'
  BY CpAssumption, VerdictsStay DEF IInv, TypeOK, Verdicts, Versions
<1> QED BY <1>1, <1>2, <1>3, <1>4, <1>5 DEF IInv

\* A response holds the structure of the moment it was given, or bytes that
\* were in another response of this process.
LEMMA ResponsesKeepIInv ==
  ASSUME IInv,
         \/ \E c \in Callers : CpAnswers(c) \/ CallFails(c) \/ CallReturns(c)
         \/ BufferReused
  PROVE  IInv'
<1> USE CpAssumption DEF RC!RcTypeOK, RC!Responses, RC!StatusOK, RC!StatusError,
                         RC!NoResponse
<1>1. /\ RC!RcTypeOK /\ CallsAreChecks
      /\ \A d \in Callers :
            /\ Recent(rcResp[d].body)
            /\ ~rcReused[d] /\ rcResp[d].body \in Structures =>
                  rcResp[d].body \in start[d]..cpVersion
  BY DEF IInv, TypeOK, StructuresAreRecent, AnswersAreYoung
<1>2. /\ cpVersion \in Versions /\ Recent(cpVersion)
      /\ Recent(Garbage) /\ Recent(Blank) /\ Recent(Nil)
      /\ Garbage \notin Structures /\ Nil \notin Structures
      /\ \A d \in Callers : cpVersion \in start[d]..cpVersion
  BY DEF IInv, TypeOK, Recent, Structures, Versions
<1>3. ASSUME NEW c \in Callers, CpAnswers(c) PROVE IInv'
  <2>1. PICK code \in {RC!StatusOK, RC!StatusError},
             body \in {cpVersion, Garbage} : RC!Answer(c, code, body)
    BY <1>3 DEF CpAnswers
  <2>2. /\ rcPc[c] = "sent" /\ rcPc' = [rcPc EXCEPT ![c] = "answered"]
        /\ rcResp' = [rcResp EXCEPT ![c] = [code |-> code, body |-> body]]
        /\ rcReused' = rcReused
        /\ UNCHANGED <<cpVars, compositeStructureCache, localVars>>
    BY <1>3, <2>1 DEF RC!Answer, CpAnswers
  <2>3. pc[c] = "asking" /\ pc' = pc
    BY <1>1, <2>2 DEF CallsAreChecks, localVars
  <2>4. RC!RcTypeOK' /\ CallsAreChecks'
    BY <1>1, <1>2, <2>2, <2>3 DEF CallsAreChecks
  <2>5. \A d \in Callers :
           /\ Recent(rcResp'[d].body)
           /\ rcReused[d] => rcReused'[d]
           /\ ~rcReused'[d] /\ rcResp'[d].body \in Structures =>
                 rcResp'[d].body \in start[d]..cpVersion
    BY <1>1, <1>2, <2>2
  <2> QED BY <2>2, <2>4, <2>5, CallsKeepIInv
<1>4. ASSUME NEW c \in Callers, CallFails(c) PROVE IInv'
  <2>1. /\ rcPc[c] \in {"sent", "answered"}
        /\ rcPc' = [rcPc EXCEPT ![c] = "returned"]
        /\ rcResp' = [rcResp EXCEPT ![c] = [code |-> 0, body |-> Nil]]
        /\ rcReused' = rcReused
        /\ UNCHANGED <<cpVars, compositeStructureCache, localVars>>
    BY <1>4 DEF CallFails, RC!ConnectionFails
  <2>2. pc[c] = "asking" /\ pc' = pc
    BY <1>1, <2>1 DEF CallsAreChecks, localVars
  <2>3. RC!RcTypeOK' /\ CallsAreChecks'
    BY <1>1, <2>1, <2>2 DEF CallsAreChecks
  <2>4. \A d \in Callers :
           /\ Recent(rcResp'[d].body)
           /\ rcReused[d] => rcReused'[d]
           /\ ~rcReused'[d] /\ rcResp'[d].body \in Structures =>
                 rcResp'[d].body \in start[d]..cpVersion
    BY <1>1, <1>2, <2>1
  <2> QED BY <2>1, <2>3, <2>4, CallsKeepIInv
<1>5. ASSUME NEW c \in Callers, CallReturns(c) PROVE IInv'
  <2>1. PICK S \in SUBSET RC!Exposed : RC!Return(c, S)
    BY <1>5 DEF CallReturns
  <2>2. /\ rcPc[c] = "answered" /\ rcPc' = [rcPc EXCEPT ![c] = "returned"]
        /\ rcResp' = RC!Overwritten(S, rcResp[c].body)
        /\ rcReused' = [d \in Callers |-> rcReused[d] \/ d \in S]
        /\ UNCHANGED <<cpVars, compositeStructureCache, localVars>>
    BY <1>5, <2>1 DEF RC!Return, CallReturns
  <2>3. pc' = pc /\ \A d \in S \cup {c} : pc[d] = "asking"
    BY <1>1, <2>1, <2>2 DEF CallsAreChecks, RC!Exposed, localVars
  <2>4. \A d \in Callers :
           /\ d \in S => rcResp'[d].body = rcResp[c].body
           /\ d \notin S => rcResp'[d] = rcResp[d]
    BY <2>2 DEF RC!Overwritten
  <2>5. RC!RcTypeOK'
    BY <1>1, <2>2 DEF RC!Overwritten
  <2>6. CallsAreChecks'
    BY <1>1, <2>2, <2>3, <2>4 DEF CallsAreChecks
  <2>7. \A d \in Callers :
           /\ Recent(rcResp'[d].body)
           /\ rcReused[d] => rcReused'[d]
           /\ ~rcReused'[d] /\ rcResp'[d].body \in Structures =>
                 rcResp'[d].body \in start[d]..cpVersion
    <3>1. \A d \in Callers : rcReused'[d] <=> (rcReused[d] \/ d \in S)
      BY <2>2
    <3> QED BY <1>1, <2>4, <3>1
  <2> QED BY <2>2, <2>5, <2>6, <2>7, CallsKeepIInv
<1>6. CASE BufferReused
  <2>1. PICK S \in SUBSET RC!Exposed, body \in {Garbage, Blank} :
             RC!ForeignRead(S, body)
    BY <1>6 DEF BufferReused
  <2>2. /\ rcPc' = rcPc
        /\ rcResp' = RC!Overwritten(S, body)
        /\ rcReused' = [d \in Callers |-> rcReused[d] \/ d \in S]
        /\ UNCHANGED <<cpVars, compositeStructureCache, localVars>>
    BY <1>6, <2>1 DEF RC!ForeignRead, BufferReused
  <2>3. pc' = pc /\ \A d \in S : pc[d] = "asking"
    BY <1>1, <2>1, <2>2 DEF CallsAreChecks, RC!Exposed, localVars
  <2>4. \A d \in Callers :
           /\ d \in S => rcResp'[d].body = body
           /\ d \notin S => rcResp'[d] = rcResp[d]
    BY <2>2 DEF RC!Overwritten
  <2>5. RC!RcTypeOK'
    BY <1>1, <2>2 DEF RC!Overwritten
  <2>6. CallsAreChecks'
    BY <1>1, <2>2, <2>3, <2>4 DEF CallsAreChecks
  <2>7. \A d \in Callers :
           /\ Recent(rcResp'[d].body)
           /\ rcReused[d] => rcReused'[d]
           /\ ~rcReused'[d] /\ rcResp'[d].body \in Structures =>
                 rcResp'[d].body \in start[d]..cpVersion
    <3>1. \A d \in Callers : rcReused'[d] <=> (rcReused[d] \/ d \in S)
      BY <2>2
    <3> QED BY <1>1, <1>2, <2>4, <3>1
  <2> QED BY <2>2, <2>5, <2>6, <2>7, CallsKeepIInv
<1> QED BY <1>3, <1>4, <1>5, <1>6

-----------------------------------------------------------------------------

\* A check that ends with a verdict leaves the others alone.
LEMMA VerdictGiven ==
  ASSUME Verdicts, NEW c \in Callers,
         UNCHANGED <<cpVars, callVars, fellBack, rcReused>>,
         \A d \in Callers \ {c} : pc'[d] = pc[d],
         pc'[c] = "allowed" /\ namespace[c] # Empty =>
            \E v \in cpBase..cpVersion : namespace[c] \in Members(v),
         ~fellBack[c] /\ ~rcReused[c] =>
            /\ pc'[c] = "allowed" =>
                  \E v \in start[c]..cpVersion : namespace[c] \in Members(v)
            /\ pc'[c] = "denied" =>
                  \E v \in start[c]..cpVersion : namespace[c] \notin Members(v)
  PROVE  Verdicts'
<1> USE DEF cpVars, callVars
<1>1. \A v : Members(v)' = Members(v)
  BY DEF Members
<1>2. AdmittedWasMember'
  BY <1>1 DEF Verdicts, AdmittedWasMember
<1>3. AnsweredVerdictIsFresh'
  BY <1>1 DEF Verdicts, AnsweredVerdictIsFresh
<1> QED BY <1>2, <1>3 DEF Verdicts

\* The beginning of a check: exempt, or asking with nothing heard yet.
LEMMA BeginKeepsIInv ==
  ASSUME IInv, NEW c \in Callers, NEW ns \in Names,
         Exempt(c, ns) \/ CheckNamespace(c, ns)
  PROVE  IInv'
<1> USE CpAssumption
    DEF cpVars, callVars, rcVars, Recent, Structures, Versions, RC!RcTypeOK,
        RC!Responses, RC!NoResponse, RC!StatusOK, RC!StatusError
<1>0. /\ TypeOK /\ StructuresAreRecent /\ CallsAreChecks /\ ChecksAreUnderWay
      /\ AnswersAreYoung /\ Verdicts
  BY DEF IInv
<1>1. /\ pc[c] = "idle"
      /\ namespace' = [namespace EXCEPT ![c] = ns]
      /\ start' = [start EXCEPT ![c] = cpVersion]
      /\ UNCHANGED <<cpVars, compositeStructureCache, structure, fellBack>>
      /\ \E p \in {"exempt", "asking"} : pc' = [pc EXCEPT ![c] = p]
  BY DEF Exempt, CheckNamespace, Calls
<1>2. /\ RC!RcTypeOK'
      /\ rcReused' = rcReused
      /\ rcResp'[c].body = Nil
      /\ \A d \in Callers \ {c} : rcPc'[d] = rcPc[d] /\ rcResp'[d] = rcResp[d]
      /\ pc'[c] = "asking" \/ rcPc'[c] = "idle"
  <2>1. CASE Exempt(c, ns)
    BY <1>0, <1>1, <2>1 DEF Exempt, TypeOK, CallsAreChecks
  <2>2. CASE CheckNamespace(c, ns)
    <3>1. pc'[c] = "asking"
      BY <1>0, <2>2 DEF CheckNamespace, TypeOK
    <3>2. CASE RC!Send(c)
      BY <1>0, <3>1, <3>2 DEF RC!Send, TypeOK
    <3>3. CASE RC!BuildFails(c)
      BY <1>0, <3>1, <3>3 DEF RC!BuildFails, TypeOK
    <3> QED BY <2>2, <3>2, <3>3 DEF CheckNamespace
  <2> QED BY <2>1, <2>2
<1>3. TypeOK'
  <2>1. pc' \in [Callers -> {"idle", "exempt", "asking", "storing", "falling",
                            "allowed", "denied", "failed"}]
    BY <1>0, <1>1 DEF TypeOK
  <2>2. namespace' \in [Callers -> Names \cup {Nil}]
          /\ start' \in [Callers -> 0..cpVersion']
    BY <1>0, <1>1 DEF TypeOK
  <2> QED BY <1>0, <1>1, <1>2, <2>1, <2>2 DEF TypeOK
<1>4. StructuresAreRecent'
  BY <1>0, <1>1, <1>2 DEF StructuresAreRecent
<1>5. CallsAreChecks'
  BY <1>0, <1>1, <1>2 DEF TypeOK, CallsAreChecks
<1>6. ChecksAreUnderWay'
  BY <1>0, <1>1 DEF TypeOK, ChecksAreUnderWay
<1>7. AnswersAreYoung'
  <2> SUFFICES ASSUME NEW d \in Callers, ~rcReused'[d]
               PROVE  /\ rcResp'[d].body \in Structures =>
                            rcResp'[d].body \in start'[d]..cpVersion'
                      /\ pc'[d] = "storing" => structure'[d] \in start'[d]..cpVersion'
    BY DEF AnswersAreYoung
  <2>1. CASE d = c
    BY <1>0, <1>1, <1>2, <2>1 DEF TypeOK
  <2>2. CASE d # c
    BY <1>0, <1>1, <1>2, <2>2 DEF TypeOK, AnswersAreYoung
  <2> QED BY <2>1, <2>2
<1>8. Verdicts'
  <2>1. \A d \in Callers : pc'[d] \in {"allowed", "denied"} => d # c
    BY <1>0, <1>1 DEF TypeOK
  <2> QED BY <1>0, <1>1, <1>2, <2>1, VerdictsStay DEF TypeOK
<1> QED BY <1>3, <1>4, <1>5, <1>6, <1>7, <1>8 DEF IInv

\* The end of a call: the answer is taken over, or there is none.
LEMMA CallEndsKeepsIInv ==
  ASSUME IInv, NEW c \in Callers,
         GetCompositeStructureParses(c) \/ GetCompositeStructureFails(c)
  PROVE  IInv'
<1> USE CpAssumption
    DEF cpVars, callVars, rcVars, Recent, Structures, Versions, RC!RcTypeOK,
        RC!Responses, RC!NoResponse, RC!StatusOK, RC!StatusError
<1>0. /\ TypeOK /\ StructuresAreRecent /\ CallsAreChecks /\ ChecksAreUnderWay
      /\ AnswersAreYoung /\ Verdicts
  BY DEF IInv
<1>1. /\ pc[c] = "asking"
      /\ rcPc' = [rcPc EXCEPT ![c] = "idle"]
      /\ rcResp' = [rcResp EXCEPT ![c] = [code |-> 0, body |-> Nil]]
      /\ rcReused' = rcReused
      /\ UNCHANGED <<cpVars, compositeStructureCache, callVars>>
  BY DEF GetCompositeStructureParses, GetCompositeStructureFails, RC!Done
<1> DEFINE Parses ==
             /\ pc' = [pc EXCEPT ![c] = "storing"]
             /\ rcResp[c].body \in Structures
             /\ structure' = [structure EXCEPT ![c] = rcResp[c].body]
             /\ fellBack' = fellBack
           Fails ==
             /\ pc' = [pc EXCEPT ![c] = "falling"]
             /\ fellBack' = [fellBack EXCEPT ![c] = TRUE]
             /\ structure' = structure
<1>2. Parses \/ Fails
  BY DEF GetCompositeStructureParses, GetCompositeStructureFails, Parsed
<1>3. TypeOK'
  <2>1. RC!RcTypeOK'
    BY <1>0, <1>1 DEF TypeOK
  <2>2. CASE Parses
    BY <1>0, <1>1, <2>1, <2>2 DEF TypeOK
  <2>3. CASE Fails
    BY <1>0, <1>1, <2>1, <2>3 DEF TypeOK
  <2> QED BY <1>2, <2>2, <2>3
<1>4. StructuresAreRecent'
  BY <1>0, <1>1, <1>2 DEF TypeOK, StructuresAreRecent
<1>5. CallsAreChecks'
  BY <1>0, <1>1, <1>2 DEF TypeOK, CallsAreChecks
<1>6. ChecksAreUnderWay'
  <2>1. CASE Parses
    BY <1>0, <2>1 DEF TypeOK, ChecksAreUnderWay
  <2>2. CASE Fails
    BY <1>0, <2>2 DEF TypeOK, ChecksAreUnderWay
  <2> QED BY <1>2, <2>1, <2>2
<1>7. AnswersAreYoung'
  BY <1>0, <1>1, <1>2 DEF TypeOK, AnswersAreYoung
<1>8. Verdicts'
  <2>1. \A d \in Callers : pc'[d] \in {"allowed", "denied"} => d # c
    BY <1>0, <1>2 DEF TypeOK
  <2> QED BY <1>0, <1>1, <1>2, <2>1, VerdictsStay DEF TypeOK
<1> QED BY <1>3, <1>4, <1>5, <1>6, <1>7, <1>8 DEF IInv

\* The verdicts: by the answer, by the cache that stands in for it, by none.
LEMMA DecisionKeepsIInv ==
  ASSUME IInv, NEW c \in Callers,
         StoresAndDecides(c) \/ FallsBack(c) \/ NothingToFallBackOn(c)
  PROVE  IInv'
<1> USE CpAssumption DEF cpVars, callVars, rcVars
<1>0. /\ TypeOK /\ StructuresAreRecent /\ CallsAreChecks /\ ChecksAreUnderWay
      /\ AnswersAreYoung /\ Verdicts
  BY DEF IInv
<1>1. ASSUME NEW verdict \in {"allowed", "denied", "failed"},
             pc[c] \in {"storing", "falling"},
             pc' = [pc EXCEPT ![c] = verdict],
             structure' = [structure EXCEPT ![c] = Nil] \/ structure' = structure,
             compositeStructureCache' \in {compositeStructureCache, structure[c]},
             compositeStructureCache' \in Structures \cup {Nil},
             UNCHANGED <<cpVars, callVars, fellBack, rcVars>>
      PROVE  TypeOK' /\ StructuresAreRecent' /\ CallsAreChecks'
               /\ ChecksAreUnderWay' /\ AnswersAreYoung'
  <2>1. /\ structure' \in [Callers -> Structures \cup {Nil}]
        /\ \A d \in Callers : structure'[d] \in {structure[d], Nil}
        /\ \A d \in Callers \ {c} : structure'[d] = structure[d]
    BY <1>0, <1>1 DEF TypeOK
  <2>2. TypeOK'
    BY <1>0, <1>1, <2>1 DEF TypeOK, RC!RcTypeOK
  <2>3. StructuresAreRecent'
    BY <1>0, <1>1, <2>1 DEF StructuresAreRecent, Recent, Structures
  <2>4. CallsAreChecks'
    BY <1>0, <1>1 DEF TypeOK, CallsAreChecks
  <2>5. ChecksAreUnderWay'
    BY <1>0, <1>1, <2>1 DEF TypeOK, ChecksAreUnderWay
  <2>6. AnswersAreYoung'
    BY <1>0, <1>1, <2>1 DEF TypeOK, AnswersAreYoung
  <2> QED BY <2>2, <2>3, <2>4, <2>5, <2>6
<1>2. CASE StoresAndDecides(c)
  <2> DEFINE verdict == Verdict(structure[c], namespace[c])
  <2>1. /\ pc[c] = "storing" /\ pc' = [pc EXCEPT ![c] = verdict]
        /\ structure[c] \in Structures
        /\ structure' = [structure EXCEPT ![c] = Nil]
        /\ compositeStructureCache' = structure[c]
        /\ UNCHANGED <<cpVars, callVars, fellBack, rcVars>>
    BY <1>0, <1>2 DEF StoresAndDecides, ChecksAreUnderWay
  <2>2. /\ verdict \in {"allowed", "denied"}
        /\ verdict = "allowed" => namespace[c] \in Members(structure[c])
        /\ verdict = "denied" => namespace[c] \notin Members(structure[c])
    BY VerdictIsTold
  <2>3. pc'[c] = verdict /\ \A d \in Callers \ {c} : pc'[d] = pc[d]
    BY <1>0, <2>1 DEF TypeOK
  <2>4. TypeOK' /\ StructuresAreRecent' /\ CallsAreChecks' /\ ChecksAreUnderWay'
          /\ AnswersAreYoung'
    <3> HIDE DEF verdict
    <3> QED BY <1>1, <2>1, <2>2
  <2>5. verdict = "allowed" /\ namespace[c] # Empty =>
           \E v \in cpBase..cpVersion : namespace[c] \in Members(v)
    BY <1>0, <2>1, <2>2, FoundIsMember DEF StructuresAreRecent
  <2>6. ~rcReused[c] => structure[c] \in start[c]..cpVersion
    BY <1>0, <2>1 DEF AnswersAreYoung
  <2>7. Verdicts'
    BY <1>0, <2>1, <2>2, <2>3, <2>5, <2>6, VerdictGiven
  <2> QED BY <2>4, <2>7 DEF IInv
<1>3. CASE FallsBack(c)
  <2> DEFINE verdict == Verdict(compositeStructureCache, namespace[c])
  <2>1. /\ pc[c] = "falling" /\ pc' = [pc EXCEPT ![c] = verdict]
        /\ fellBack[c]
        /\ compositeStructureCache \in Structures
        /\ compositeStructureCache' = compositeStructureCache
        /\ structure' = structure
        /\ UNCHANGED <<cpVars, callVars, fellBack, rcVars>>
    BY <1>0, <1>3 DEF FallsBack, TypeOK, ChecksAreUnderWay
  <2>2. /\ verdict \in {"allowed", "denied"}
        /\ verdict = "allowed" => namespace[c] \in Members(compositeStructureCache)
    BY VerdictIsTold
  <2>3. pc'[c] = verdict /\ \A d \in Callers \ {c} : pc'[d] = pc[d]
    BY <1>0, <2>1 DEF TypeOK
  <2>4. TypeOK' /\ StructuresAreRecent' /\ CallsAreChecks' /\ ChecksAreUnderWay'
          /\ AnswersAreYoung'
    <3> HIDE DEF verdict
    <3> QED BY <1>1, <2>1, <2>2
  <2>5. verdict = "allowed" /\ namespace[c] # Empty =>
           \E v \in cpBase..cpVersion : namespace[c] \in Members(v)
    BY <1>0, <2>1, <2>2, FoundIsMember DEF StructuresAreRecent
  <2>6. Verdicts'
    BY <1>0, <2>1, <2>3, <2>5, VerdictGiven
  <2> QED BY <2>4, <2>6 DEF IInv
<1>4. CASE NothingToFallBackOn(c)
  <2>1. /\ pc[c] = "falling" /\ pc' = [pc EXCEPT ![c] = "failed"]
        /\ compositeStructureCache' = compositeStructureCache
        /\ structure' = structure
        /\ UNCHANGED <<cpVars, callVars, fellBack, rcVars>>
    BY <1>4 DEF NothingToFallBackOn
  <2>2. pc'[c] = "failed" /\ \A d \in Callers \ {c} : pc'[d] = pc[d]
    BY <1>0, <2>1 DEF TypeOK
  <2>3. TypeOK' /\ StructuresAreRecent' /\ CallsAreChecks' /\ ChecksAreUnderWay'
          /\ AnswersAreYoung'
    BY <1>0, <1>1, <2>1 DEF TypeOK
  <2>4. Verdicts'
    BY <1>0, <2>1, <2>2, VerdictGiven
  <2> QED BY <2>3, <2>4 DEF IInv
<1> QED BY <1>2, <1>3, <1>4

\* The end of a check, a change of the platform, a restart.
LEMMA OthersKeepIInv ==
  ASSUME IInv,
         (\E c \in Callers : Reply(c)) \/ CpChanges \/ Restart \/ UNCHANGED vars
  PROVE  IInv'
<1> USE CpAssumption
    DEF cpVars, callVars, rcVars, localVars, Recent, Structures, Versions
<1>0. /\ TypeOK /\ StructuresAreRecent /\ CallsAreChecks /\ ChecksAreUnderWay
      /\ AnswersAreYoung /\ Verdicts
  BY DEF IInv
<1>1. ASSUME NEW c \in Callers, Reply(c) PROVE IInv'
  <2>1. TypeOK'
    BY <1>0, <1>1 DEF Reply, RC!Forget, RC!RcTypeOK, TypeOK
  <2>2. StructuresAreRecent' /\ CallsAreChecks' /\ ChecksAreUnderWay'
    BY <1>0, <1>1
    DEF Reply, RC!Forget, TypeOK, StructuresAreRecent, CallsAreChecks,
        ChecksAreUnderWay
  <2>3. /\ pc'[c] = "idle" /\ rcResp'[c].body = Nil
        /\ \A d \in Callers \ {c} :
              /\ pc'[d] = pc[d] /\ rcReused'[d] = rcReused[d]
              /\ start'[d] = start[d] /\ fellBack'[d] = fellBack[d]
              /\ namespace'[d] = namespace[d]
        /\ UNCHANGED <<cpVars, structure, rcResp>>
    BY <1>0, <1>1 DEF Reply, RC!Forget, RC!RcTypeOK, TypeOK, CallsAreChecks
  <2>4. AnswersAreYoung'
    BY <1>0, <2>3 DEF AnswersAreYoung
  <2>5. Verdicts'
    BY <1>0, <2>3, VerdictsStay DEF TypeOK
  <2> QED BY <2>1, <2>2, <2>4, <2>5 DEF IInv
<1>2. CASE CpChanges
  <2>1. /\ cpVersion' = cpVersion + 1 /\ cpVersion' \in Versions
        /\ cpVersion \in Nat
        /\ UNCHANGED <<cpHistory, cpBase, isolation, compositeStructureCache,
                       localVars, rcVars>>
    BY <1>0, <1>2 DEF CpChanges, TypeOK
  <2>2. cpBase' \in 0..cpVersion' /\ start' \in [Callers -> 0..cpVersion']
    BY <1>0, <2>1 DEF TypeOK
  <2>3. TypeOK'
    BY <1>0, <2>1, <2>2 DEF TypeOK, RC!RcTypeOK
  <2>4. StructuresAreRecent' /\ CallsAreChecks' /\ ChecksAreUnderWay'
    BY <1>0, <2>1
    DEF TypeOK, StructuresAreRecent, CallsAreChecks, ChecksAreUnderWay
  <2>5. AnswersAreYoung'
    BY <1>0, <2>1 DEF TypeOK, AnswersAreYoung
  <2>6. Verdicts'
    BY <1>0, <2>1, VerdictsStay
  <2> QED BY <2>3, <2>4, <2>5, <2>6 DEF IInv
<1>3. CASE Restart
  <2>1. TypeOK'
    BY <1>0, <1>3
    DEF Restart, TypeOK, RC!RcRestart, RC!RcTypeOK, RC!Responses, RC!NoResponse,
        RC!StatusOK, RC!StatusError
  <2>2. StructuresAreRecent' /\ CallsAreChecks' /\ ChecksAreUnderWay'
          /\ AnswersAreYoung' /\ Verdicts'
    BY <1>3
    DEF Restart, StructuresAreRecent, CallsAreChecks, ChecksAreUnderWay,
        AnswersAreYoung, Verdicts, AdmittedWasMember, AnsweredVerdictIsFresh,
        RC!RcRestart, RC!NoResponse
  <2> QED BY <2>1, <2>2 DEF IInv
<1>4. CASE UNCHANGED vars
  <2>1. TypeOK' /\ StructuresAreRecent' /\ CallsAreChecks' /\ ChecksAreUnderWay'
          /\ AnswersAreYoung'
    BY <1>0, <1>4
    DEF vars, TypeOK, RC!RcTypeOK, StructuresAreRecent, CallsAreChecks,
        ChecksAreUnderWay, AnswersAreYoung
  <2>2. Verdicts'
    BY <1>0, <1>4, VerdictsStay DEF vars, TypeOK
  <2> QED BY <2>1, <2>2 DEF IInv
<1> QED BY <1>1, <1>2, <1>3, <1>4

-----------------------------------------------------------------------------

\* The invariant holds of the whole specification.
LEMMA IInvHolds == Spec => []IInv
<1>1. Init => IInv
  BY InitIInv
<1>2. IInv /\ [Next]_vars => IInv'
  <2> SUFFICES ASSUME IInv, [Next]_vars PROVE IInv'
    OBVIOUS
  <2>1. ASSUME NEW c \in Callers, Steps(c) PROVE IInv'
    BY <2>1, BeginKeepsIInv, ResponsesKeepIInv, CallEndsKeepsIInv,
       DecisionKeepsIInv, OthersKeepIInv DEF Steps
  <2>2. CASE BufferReused
    BY <2>2, ResponsesKeepIInv
  <2>3. CASE CpChanges \/ Restart \/ UNCHANGED vars
    BY <2>3, OthersKeepIInv
  <2> QED BY <2>1, <2>2, <2>3 DEF Next
<1> QED BY <1>1, <1>2, PTL DEF Spec

\* Every variable of the namespace checks and their cache keeps its type.
THEOREM NamespacesTypeCorrect == Spec => []TypeOK
  BY IInvHolds, PTL DEF IInv

\* CheckNamespaceIsolation and CheckNamespaceFromClassifier admit a named
\* namespace only if control-plane has had it in the platform since the process
\* started, also by a structure that stands in for an answer.
THEOREM AdmittedNamespacesWereMembers == Spec => []AdmittedWasMember
  BY IInvHolds, PTL DEF IInv, Verdicts

\* While control-plane answers, both verdicts rest on a structure it had during
\* that very check: no check is decided by what another one cached.
THEOREM AnsweredVerdictsAreFresh == Spec => []AnsweredVerdictIsFresh
  BY IInvHolds, PTL DEF IInv, Verdicts

\* GetCompositeStructure replaces a younger structure in the cache by an older
\* one only if the check that does so began before the younger one existed.
THEOREM CacheStepsBackOnlyUnderOverlap == Spec => StepsBackOnlyUnderOverlap
<1> DEFINE Overlaps(c) ==
      StoresAndDecides(c) /\ {compositeStructureCache, structure[c]} \subseteq Versions
                          /\ structure[c] < compositeStructureCache
         => start[c] < compositeStructureCache \/ rcReused[c]
<1>1. IInv => \A c \in Callers : Overlaps(c)
  <2> SUFFICES ASSUME IInv, NEW c \in Callers, StoresAndDecides(c), ~rcReused[c],
                      compositeStructureCache \in Versions,
                      structure[c] < compositeStructureCache
               PROVE  start[c] < compositeStructureCache
    OBVIOUS
  <2>1. structure[c] \in start[c]..cpVersion
    BY DEF IInv, AnswersAreYoung, StoresAndDecides
  <2>2. start[c] \in Int /\ compositeStructureCache \in Int
    BY DEF IInv, TypeOK, Versions
  <2> QED BY <2>1, <2>2
<1>2. IInv => [\A c \in Callers : Overlaps(c)]_vars
  BY <1>1
<1> QED BY <1>2, IInvHolds, PTL DEF StepsBackOnlyUnderOverlap
=============================================================================
