------------------- MODULE TenantManagerClientRefinement -------------------
(***************************************************************************)
(* A tenant is denied only if it was missing from the list while it was    *)
(* asked for, and the tenant check implements MembershipCheck: for any     *)
(* number of callers, tenants and versions.                                *)
(***************************************************************************)
EXTENDS TenantManagerClientProofs

\* A call is made by a check that asks, and by no other.
CallIsTheChecks(c) == pc[c] # "asking" => rcPc[c] = "idle" /\ rcResp[c].body = Nil

\* A check that has not asked yet has had no bytes to be overwritten.
UntouchedBefore(c) == pc[c] \in {"idle", "loading"} => ~rcReused[c]

\* What a check parses or has parsed is no older than the check itself.
AnswerIsYoung(c) ==
  /\ rcResp[c].body \in Lists => rcResp[c].body \in start[c]..tmVersion
  /\ pc[c] = "storing" => newList[c] \in start[c]..tmVersion

\* A denial rests on a list that was current during the check.
DenialIsFresh(c) ==
  pc[c] = "denied" => \E v \in start[c]..tmVersion : tenantId[c] \notin Listed(v)

Young(c) ==
  /\ CallIsTheChecks(c)
  /\ UntouchedBefore(c)
  /\ ~rcReused[c] => AnswerIsYoung(c) /\ DenialIsFresh(c)

\* The cache does not occur here: a denial never rests on it.
YInv == \A c \in Callers : Young(c)

-----------------------------------------------------------------------------

\* While tenant-manager's list moves on, what was young stays young.
LEMMA YoungStays ==
  ASSUME TypeOK, NEW c \in Callers, Young(c),
         tmHistory' = tmHistory, tmVersion' \in Nat, tmVersion' >= tmVersion,
         pc'[c] = pc[c], tenantId'[c] = tenantId[c], start'[c] = start[c],
         newList'[c] = newList[c],
         rcPc'[c] = rcPc[c], rcResp'[c] = rcResp[c], rcReused'[c] = rcReused[c]
  PROVE  Young(c)'
<1> USE TmAssumption DEF TypeOK, Versions
<1>1. \A v : Listed(v)' = Listed(v)
  BY DEF Listed, Elements
<1>2. \A v : v \in start[c]..tmVersion => v \in start'[c]..tmVersion'
  OBVIOUS
<1>3. CallIsTheChecks(c)' /\ UntouchedBefore(c)'
  BY DEF Young, CallIsTheChecks, UntouchedBefore
<1>4. ASSUME ~rcReused[c] PROVE AnswerIsYoung(c)' /\ DenialIsFresh(c)'
  BY <1>1, <1>2, <1>4 DEF Young, AnswerIsYoung, DenialIsFresh, Lists
<1> QED BY <1>3, <1>4 DEF Young

\* A step of one caller leaves the others young.
LEMMA OneCallersStep ==
  ASSUME TypeOK, YInv, NEW c \in Callers, UNCHANGED tmVars,
         \A d \in Callers \ {c} :
            /\ pc'[d] = pc[d] /\ tenantId'[d] = tenantId[d] /\ start'[d] = start[d]
            /\ newList'[d] = newList[d]
            /\ rcPc'[d] = rcPc[d] /\ rcResp'[d] = rcResp[d]
            /\ rcReused'[d] = rcReused[d],
         Young(c)'
  PROVE  YInv'
<1> SUFFICES ASSUME NEW d \in Callers \ {c} PROVE Young(d)'
  BY DEF YInv
<1>1. tmHistory' = tmHistory /\ tmVersion' \in Nat /\ tmVersion' >= tmVersion
  BY TmAssumption DEF tmVars, TypeOK, Versions
<1> QED BY <1>1, YoungStays DEF YInv

\* Nothing is asked for.
LEMMA InitYInv == Init => YInv
<1> SUFFICES ASSUME Init, NEW c \in Callers PROVE Young(c)
  BY DEF YInv
<1>1. /\ pc[c] = "idle" /\ rcPc[c] = "idle" /\ rcReused[c] = FALSE
      /\ rcResp[c].body = Nil
  BY DEF Init, RC!RcInit, RC!NoResponse
<1> QED BY <1>1, TmAssumption
        DEF Young, CallIsTheChecks, UntouchedBefore, AnswerIsYoung, DenialIsFresh

-----------------------------------------------------------------------------

\* The call of the check, the copy of the cache and what it decides.
LEMMA CacheStepsKeepYInv ==
  ASSUME IInv, YInv, NEW c \in Callers,
         \/ \E t \in Tenants : CheckTenantIdExist(c, t)
         \/ LoadPtr(c) \/ LoadLen(c)
         \/ Hit(c) \/ Strays(c) \/ Miss(c)
  PROVE  YInv'
<1> USE DEF tmVars, cacheVars, callVars, viewVars, rcVars
<1>0. TypeOK /\ Young(c) /\ RC!RcTypeOK
  BY DEF IInv, TypeOK, YInv
<1>1. ASSUME NEW t \in Tenants, CheckTenantIdExist(c, t) PROVE YInv'
  <2>1. Young(c)'
    BY <1>0, <1>1, TmAssumption
    DEF CheckTenantIdExist, TypeOK, Young, CallIsTheChecks, UntouchedBefore,
        AnswerIsYoung, DenialIsFresh, Lists
  <2> QED BY <1>0, <1>1, <2>1, OneCallersStep DEF CheckTenantIdExist, TypeOK
<1>2. CASE LoadPtr(c) \/ LoadLen(c)
  <2>1. UNCHANGED <<tmVars, pc, callVars, newList, rcVars>>
    BY <1>2 DEF LoadPtr, LoadLen
  <2>2. Young(c)'
    BY <1>0, <2>1, TmAssumption, YoungStays DEF TypeOK, Versions
  <2> QED BY <1>0, <2>1, <2>2, OneCallersStep
<1>3. CASE Hit(c) \/ Strays(c)
  <2>1. /\ pc[c] = "loading"
        /\ pc' = [pc EXCEPT ![c] = "allowed"] \/ pc' = [pc EXCEPT ![c] = "strayed"]
        /\ UNCHANGED <<tmVars, callVars, newList, rcVars>>
    BY <1>3 DEF Hit, Strays, Loaded
  <2>2. Young(c)'
    BY <1>0, <2>1, TmAssumption
    DEF TypeOK, Young, CallIsTheChecks, UntouchedBefore, AnswerIsYoung,
        DenialIsFresh, Lists
  <2> QED BY <1>0, <2>1, <2>2, OneCallersStep DEF TypeOK
<1>4. CASE Miss(c)
  <2>1. /\ pc[c] = "loading" /\ pc' = [pc EXCEPT ![c] = "asking"]
        /\ UNCHANGED <<tmVars, callVars, newList>>
    BY <1>4 DEF Miss, Loaded
  <2>2. /\ rcResp'[c].body = Nil /\ rcReused' = rcReused
        /\ \A d \in Callers \ {c} : rcPc'[d] = rcPc[d] /\ rcResp'[d] = rcResp[d]
    BY <1>0, <1>4 DEF Miss, RC!Send, RC!BuildFails, RC!NoResponse, RC!RcTypeOK
  <2>3. Young(c)'
    BY <1>0, <2>1, <2>2, TmAssumption
    DEF TypeOK, Young, CallIsTheChecks, UntouchedBefore, AnswerIsYoung,
        DenialIsFresh, Lists
  <2> QED BY <1>0, <2>1, <2>2, <2>3, OneCallersStep DEF TypeOK
<1> QED BY <1>1, <1>2, <1>3, <1>4

\* Whatever becomes of responses, those that are not overwritten stay young.
LEMMA ResponsesKeepYInv ==
  ASSUME IInv, YInv,
         \/ \E c \in Callers : TmAnswers(c) \/ CallFails(c) \/ CallReturns(c)
         \/ BufferReused
  PROVE  YInv'
<1> USE DEF tmVars, cacheVars, localVars, callVars, viewVars
<1>0. TypeOK /\ RC!RcTypeOK /\ \A d \in Callers : Young(d)
  BY DEF IInv, TypeOK, YInv
<1>1. ASSUME NEW c \in Callers, TmAnswers(c) PROVE YInv'
  <2>1. PICK code \in {RC!StatusOK, RC!StatusError},
             body \in {tmVersion, Garbage} : RC!Answer(c, code, body)
    BY <1>1 DEF TmAnswers
  <2>2. /\ rcPc[c] = "sent" /\ rcPc' = [rcPc EXCEPT ![c] = "answered"]
        /\ rcResp' = [rcResp EXCEPT ![c] = [code |-> code, body |-> body]]
        /\ rcReused' = rcReused
        /\ UNCHANGED <<tmVars, localVars>>
    BY <1>1, <2>1 DEF RC!Answer, TmAnswers
  <2>3. pc[c] = "asking" /\ rcResp'[c].body = body
    BY <1>0, <2>2 DEF Young, CallIsTheChecks, RC!RcTypeOK
  <2>4. Young(c)'
    BY <1>0, <2>2, <2>3, TmAssumption
    DEF TypeOK, Young, CallIsTheChecks, UntouchedBefore, AnswerIsYoung,
        DenialIsFresh, Lists, Versions
  <2> QED BY <1>0, <2>2, <2>4, OneCallersStep DEF RC!RcTypeOK, YInv
<1>2. ASSUME NEW c \in Callers, CallFails(c) PROVE YInv'
  <2>1. /\ rcPc[c] \in {"sent", "answered"}
        /\ rcPc' = [rcPc EXCEPT ![c] = "returned"]
        /\ rcResp' = [rcResp EXCEPT ![c] = [code |-> 0, body |-> Nil]]
        /\ rcReused' = rcReused
        /\ UNCHANGED <<tmVars, localVars>>
    BY <1>2 DEF CallFails, RC!ConnectionFails, RC!NoResponse
  <2>2. pc[c] = "asking" /\ rcResp'[c].body = Nil
    BY <1>0, <2>1 DEF Young, CallIsTheChecks, RC!RcTypeOK
  <2>3. Young(c)'
    BY <1>0, <2>1, <2>2, TmAssumption
    DEF TypeOK, Young, CallIsTheChecks, UntouchedBefore, AnswerIsYoung,
        DenialIsFresh, Lists
  <2> QED BY <1>0, <2>1, <2>3, OneCallersStep DEF RC!RcTypeOK, YInv
<1>3. ASSUME NEW S \in SUBSET RC!Exposed, NEW body, NEW c,
             rcPc' = rcPc \/ (c \in Callers /\ rcPc[c] = "answered"
                                /\ rcPc' = [rcPc EXCEPT ![c] = "returned"]),
             rcResp' = RC!Overwritten(S, body),
             rcReused' = [d \in Callers |-> rcReused[d] \/ d \in S],
             UNCHANGED <<tmVars, localVars>>
      PROVE  YInv'
  <2> SUFFICES ASSUME NEW d \in Callers PROVE Young(d)'
    BY DEF YInv
  <2>1. /\ d \in S => rcPc[d] = "returned" /\ rcReused'[d]
        /\ d \notin S => rcResp'[d] = rcResp[d] /\ rcReused'[d] = rcReused[d]
        /\ rcPc[d] = "idle" => rcPc'[d] = "idle"
    BY <1>0, <1>3 DEF RC!Exposed, RC!Overwritten, RC!RcTypeOK
  <2>2. CASE d \in S
    <3>1. pc[d] = "asking" /\ pc' = pc
      BY <1>0, <1>3, <2>1, <2>2 DEF Young, CallIsTheChecks
    <3> QED BY <2>1, <2>2, <3>1 DEF Young, CallIsTheChecks, UntouchedBefore
  <2>3. CASE d \notin S
    <3>1. UNCHANGED <<pc, tenantId, start, newList, tmHistory, tmVersion>>
      BY <1>3
    <3>2. \A v : Listed(v)' = Listed(v)
      BY <3>1 DEF Listed, Elements
    <3> QED BY <1>0, <2>1, <2>3, <3>1, <3>2
            DEF Young, CallIsTheChecks, UntouchedBefore, AnswerIsYoung,
                DenialIsFresh, Lists
  <2> QED BY <2>2, <2>3
<1>4. ASSUME NEW c \in Callers, CallReturns(c) PROVE YInv'
  <2>1. PICK S \in SUBSET RC!Exposed : RC!Return(c, S)
    BY <1>4 DEF CallReturns
  <2> QED BY <1>3, <1>4, <2>1 DEF RC!Return, CallReturns
<1>5. CASE BufferReused
  <2>1. PICK S \in SUBSET RC!Exposed, body \in {Garbage, Blank} :
             RC!ForeignRead(S, body)
    BY <1>5 DEF BufferReused
  <2> QED BY <1>3, <1>5, <2>1 DEF RC!ForeignRead, BufferReused
<1> QED BY <1>1, <1>2, <1>4, <1>5

\* The end of the call, the decision by its answer, and the reply.
LEMMA DecisionsKeepYInv ==
  ASSUME IInv, YInv, NEW c \in Callers,
         \/ GetTenantsListFails(c) \/ GetTenantsListParses(c)
         \/ Decides(c) \/ Reply(c)
  PROVE  YInv'
<1> USE TmAssumption DEF tmVars, cacheVars, callVars, viewVars, rcVars
<1>0. TypeOK /\ Young(c) /\ RC!RcTypeOK
  BY DEF IInv, TypeOK, YInv
<1>1. CASE GetTenantsListFails(c) \/ GetTenantsListParses(c)
  <2>1. /\ pc[c] = "asking" /\ rcReused' = rcReused
        /\ rcPc' = [rcPc EXCEPT ![c] = "idle"]
        /\ rcResp' = [rcResp EXCEPT ![c] = [code |-> 0, body |-> Nil]]
        /\ UNCHANGED <<tmVars, callVars>>
        /\ \/ pc' = [pc EXCEPT ![c] = "failed"] /\ newList' = newList
           \/ /\ pc' = [pc EXCEPT ![c] = "storing"] /\ rcResp[c].body \in Lists
              /\ newList' = [newList EXCEPT ![c] = rcResp[c].body]
    BY <1>1 DEF GetTenantsListFails, GetTenantsListParses, Parsed, RC!Done,
                RC!NoResponse
  <2>2. rcPc'[c] = "idle" /\ rcResp'[c].body = Nil
    BY <1>0, <2>1 DEF RC!RcTypeOK
  <2>3. Young(c)'
    BY <1>0, <2>1, <2>2
    DEF TypeOK, Young, CallIsTheChecks, UntouchedBefore, AnswerIsYoung,
        DenialIsFresh, Lists
  <2> QED BY <1>0, <2>1, <2>3, OneCallersStep DEF TypeOK, RC!RcTypeOK
<1>2. CASE Decides(c)
  <2>1. /\ pc[c] = "storing"
        /\ pc' = [pc EXCEPT ![c] = IF tenantId[c] \in Listed(newList[c])
                                   THEN "allowed" ELSE "denied"]
        /\ newList' = [newList EXCEPT ![c] = Nil]
        /\ UNCHANGED <<tmVars, callVars, rcVars>>
    BY <1>2 DEF Decides
  <2>2. pc'[c] = IF tenantId[c] \in Listed(newList[c]) THEN "allowed" ELSE "denied"
    BY <1>0, <2>1 DEF TypeOK
  <2>3. \A v : Listed(v)' = Listed(v)
    BY <2>1 DEF Listed, Elements
  <2>4. ~rcReused[c] => DenialIsFresh(c)'
    BY <1>0, <2>1, <2>2, <2>3 DEF Young, AnswerIsYoung, DenialIsFresh
  <2>5. Young(c)'
    BY <1>0, <2>1, <2>2, <2>4
    DEF Young, CallIsTheChecks, UntouchedBefore, AnswerIsYoung, Lists
  <2> QED BY <1>0, <2>1, <2>5, OneCallersStep DEF TypeOK
<1>3. CASE Reply(c)
  <2>1. /\ pc[c] # "asking" /\ pc' = [pc EXCEPT ![c] = "idle"]
        /\ tenantId' = [tenantId EXCEPT ![c] = Nil]
        /\ start' = [start EXCEPT ![c] = 0]
        /\ rcReused' = [rcReused EXCEPT ![c] = FALSE]
        /\ UNCHANGED <<tmVars, newList, rcPc, rcResp>>
    BY <1>3 DEF Reply, Outcomes, RC!Forget
  <2>2. Young(c)'
    BY <1>0, <2>1
    DEF TypeOK, RC!RcTypeOK, Young, CallIsTheChecks, UntouchedBefore,
        AnswerIsYoung, DenialIsFresh, Lists
  <2> QED BY <1>0, <2>1, <2>2, OneCallersStep DEF TypeOK, RC!RcTypeOK
<1> QED BY <1>1, <1>2, <1>3

\* The cache, the ticker, tenant-manager's list, a restart.
LEMMA OthersKeepYInv ==
  ASSUME IInv, YInv,
         \/ \E x \in Writers : StorePtr(x) \/ StoreLen(x)
         \/ CleanCacheJob \/ TmChanges \/ Restart \/ UNCHANGED vars
  PROVE  YInv'
<1> USE TmAssumption DEF tmVars, cacheVars, callVars, viewVars, rcVars, localVars
<1>0. TypeOK /\ \A d \in Callers : Young(d)
  BY DEF IInv, YInv
<1>1. CASE \/ \E x \in Writers : StorePtr(x) \/ StoreLen(x)
           \/ CleanCacheJob \/ TmChanges \/ UNCHANGED vars
  <2>1. /\ tmHistory' = tmHistory /\ tmVersion' \in Nat /\ tmVersion' >= tmVersion
        /\ UNCHANGED <<pc, callVars, newList, rcVars>>
    BY <1>0, <1>1
    DEF StorePtr, StoreLen, CleanCacheJob, TmChanges, vars, TypeOK, Versions
  <2> QED BY <1>0, <2>1, YoungStays DEF YInv
<1>2. CASE Restart
  BY <1>2
  DEF Restart, YInv, Young, CallIsTheChecks, UntouchedBefore, AnswerIsYoung,
      DenialIsFresh, RC!RcRestart, RC!NoResponse, Lists
<1> QED BY <1>1, <1>2

LEMMA YInvHolds == Spec => []YInv
<1>1. Init => YInv
  BY InitYInv
<1>2. IInv /\ YInv /\ [Next]_vars => YInv'
  <2> SUFFICES ASSUME IInv, YInv, [Next]_vars PROVE YInv'
    OBVIOUS
  <2>1. ASSUME NEW c \in Callers, Steps(c) PROVE YInv'
    BY <2>1, CacheStepsKeepYInv, ResponsesKeepYInv, DecisionsKeepYInv,
       OthersKeepYInv DEF Steps, Writers
  <2>2. CASE BufferReused
    BY <2>2, ResponsesKeepYInv
  <2>3. CASE Cleaning
    BY <2>3, OthersKeepYInv DEF Cleaning, Writers
  <2>4. CASE TmChanges \/ Restart \/ UNCHANGED vars
    BY <2>4, OthersKeepYInv
  <2> QED BY <2>1, <2>2, <2>3, <2>4 DEF Next
<1> QED BY <1>1, <1>2, IInvHolds, PTL DEF Spec

\* CheckTenantIdExist denies a tenant only if tenant-manager did not list it at
\* some moment of that very request, however old or torn the cache was: short
\* of the response's bytes being overwritten.
THEOREM DeniedTenantsWereAbsent == Spec => []DeniedWasAbsent
<1>1. YInv => DeniedWasAbsent
  BY DEF YInv, Young, DenialIsFresh, DeniedWasAbsent
<1> QED BY <1>1, YInvHolds, PTL

-----------------------------------------------------------------------------

\* The abstract state: what the instance Promised puts for it.
listedOf == Listed(tmVersion)
everOf == UNION {Listed(v) : v \in tmBase..tmVersion}
StateOf(c) == IF pc[c] \in {"loading", "asking", "storing"} THEN "asking" ELSE pc[c]
stateOf == [c \in Callers |-> StateOf(c)]
AbsentOf(c) ==
  IF pc[c] = "idle" THEN {}
  ELSE IF rcReused[c] THEN Tenants
  ELSE Unlisted(start[c]..tmVersion)
absentOf == [c \in Callers |-> AbsentOf(c)]

\* What a step leaves alone of it that leaves tenant-manager's list alone.
LEMMA ListsUnchanged ==
  ASSUME UNCHANGED tmVars
  PROVE  /\ listedOf' = listedOf /\ everOf' = everOf
         /\ \A v : Listed(v)' = Listed(v)
         /\ \A vs : Unlisted(vs)' = Unlisted(vs)
BY DEF tmVars, listedOf, everOf, Unlisted, Listed, Elements

LEMMA Stutters ==
  ASSUME UNCHANGED <<tmVars, tenantId>>,
         \A c \in Callers : StateOf(c)' = StateOf(c) /\ AbsentOf(c)' = AbsentOf(c)
  PROVE  UNCHANGED Promised!vars
<1>1. listedOf' = listedOf /\ everOf' = everOf
  BY ListsUnchanged
<1>2. stateOf' = stateOf /\ absentOf' = absentOf
  BY DEF stateOf, absentOf
<1> QED BY <1>1, <1>2
        DEF Promised!vars, listedOf, everOf, stateOf, absentOf, StateOf, AbsentOf

\* A step of one caller that answers it, in the abstract too.
LEMMA AnswerMaps ==
  ASSUME TypeOK, NEW c \in Callers, NEW result \in Outcomes,
         pc[c] \in {"loading", "asking", "storing"},
         pc' = [pc EXCEPT ![c] = result],
         UNCHANGED <<tmVars, callVars, rcReused>>
  PROVE  Promised!Answer(c, result)
<1> USE DEF callVars
<1>1. listedOf' = listedOf /\ everOf' = everOf /\ \A vs : Unlisted(vs)' = Unlisted(vs)
  BY ListsUnchanged
<1>2. pc'[c] = result /\ \A d \in Callers \ {c} : pc'[d] = pc[d]
  BY DEF TypeOK
<1>3. StateOf(c) = "asking" /\ StateOf(c)' = result
  BY <1>2 DEF StateOf, Outcomes
<1>4. stateOf' = [stateOf EXCEPT ![c] = result]
  BY <1>2, <1>3 DEF stateOf, StateOf
<1>5. \A d \in Callers : AbsentOf(d)' = AbsentOf(d)
  BY <1>1, <1>2 DEF AbsentOf, Outcomes, tmVars
<1>6. absentOf' = absentOf
  BY <1>5 DEF absentOf
<1>7. stateOf[c] = "asking"
  BY <1>3 DEF stateOf
<1> QED BY <1>1, <1>4, <1>6, <1>7
        DEF Promised!Answer, Promised!Asking, listedOf, everOf, stateOf, absentOf,
            StateOf, AbsentOf

\* Whoever is let in by a list of this lifetime may be let in.
LEMMA AllowMaps ==
  ASSUME IInv, NEW c \in Callers,
         pc[c] \in {"loading", "asking", "storing"},
         pc' = [pc EXCEPT ![c] = "allowed"],
         UNCHANGED <<tmVars, callVars, rcReused>>,
         NEW l \in Lists, Recent(l), tenantId[c] \in Listed(l)
  PROVE  Promised!Allow(c)
<1>1. TypeOK /\ tenantId[c] \in Tenants
  BY DEF IInv, ChecksAreUnderWay
<1>2. \E v \in tmBase..tmVersion : tenantId[c] \in Listed(v)
  BY <1>1, FoundIsListed
<1>3. tenantId[c] \in everOf
  BY <1>2 DEF everOf
<1>4. Promised!Answer(c, "allowed")
  <2>1. "allowed" \in Outcomes
    BY DEF Outcomes
  <2> QED BY <1>1, <2>1, AnswerMaps
<1> QED BY <1>3, <1>4 DEF Promised!Allow, everOf

\* Whoever is turned away by the list a request has fetched may be.
LEMMA DenyMaps ==
  ASSUME IInv, YInv, NEW c \in Callers, pc[c] = "storing",
         pc' = [pc EXCEPT ![c] = "denied"],
         UNCHANGED <<tmVars, callVars, rcReused>>,
         tenantId[c] \notin Listed(newList[c])
  PROVE  Promised!Deny(c)
<1>1. TypeOK /\ tenantId[c] \in Tenants
  BY DEF IInv, ChecksAreUnderWay
<1>2. ~rcReused[c] => newList[c] \in start[c]..tmVersion
  BY DEF YInv, Young, AnswerIsYoung
<1>3. tenantId[c] \in AbsentOf(c)
  BY <1>1, <1>2 DEF AbsentOf, Unlisted
<1>4. tenantId[c] \in absentOf[c]
  BY <1>3 DEF absentOf
<1>5. Promised!Answer(c, "denied")
  <2>1. "denied" \in Outcomes
    BY DEF Outcomes
  <2> QED BY <1>1, <2>1, AnswerMaps
<1> QED BY <1>4, <1>5 DEF Promised!Deny, absentOf, AbsentOf

LEMMA InitMaps == Init => Promised!Init
<1> SUFFICES ASSUME Init PROVE Promised!Init
  OBVIOUS
<1>1. 0 \in Versions /\ tmHistory \in [Versions -> Seq(Tenants)]
  BY TmAssumption DEF Init, Versions
<1>2. tmHistory[0] \in Seq(Tenants)
  BY <1>1
<1>3. listedOf \in SUBSET Tenants
  BY <1>1, <1>2, TmAssumption DEF Init, listedOf, Listed, Elements
<1>4. everOf = listedOf
  BY DEF Init, everOf, listedOf
<1>5. stateOf = [c \in Callers |-> "idle"] /\ absentOf = [c \in Callers |-> {}]
  BY DEF Init, stateOf, StateOf, absentOf, AbsentOf
<1> QED BY <1>3, <1>4, <1>5
        DEF Init, Promised!Init, listedOf, everOf, stateOf, absentOf, StateOf, AbsentOf

\* The call of a check is the asking of it.
LEMMA CheckMaps ==
  ASSUME IInv, YInv, NEW c \in Callers, NEW t \in Tenants, CheckTenantIdExist(c, t)
  PROVE  Promised!Ask(c, t)
<1> USE DEF CheckTenantIdExist, rcVars
<1>1. listedOf' = listedOf /\ everOf' = everOf /\ \A vs : Unlisted(vs)' = Unlisted(vs)
  BY ListsUnchanged
<1>2. /\ pc[c] = "idle" /\ pc'[c] = "loading" /\ start'[c] = tmVersion
      /\ \A d \in Callers \ {c} : pc'[d] = pc[d] /\ start'[d] = start[d]
      /\ UNCHANGED <<tmVersion, rcReused>>
  BY DEF IInv, TypeOK, tmVars
<1>3. stateOf[c] = "idle" /\ stateOf' = [stateOf EXCEPT ![c] = "asking"]
  BY <1>2 DEF stateOf, StateOf
<1>4. ~rcReused[c]
  BY <1>2 DEF YInv, Young, UntouchedBefore
<1>5. AbsentOf(c)' = Tenants \ listedOf
  <2>1. tmVersion..tmVersion = {tmVersion}
    BY TmAssumption DEF IInv, TypeOK, Versions
  <2>2. Unlisted(tmVersion..tmVersion) = Tenants \ listedOf
    BY <2>1 DEF Unlisted, listedOf
  <2> QED BY <1>1, <1>2, <1>4, <2>2 DEF AbsentOf
<1>6. \A d \in Callers \ {c} : AbsentOf(d)' = AbsentOf(d)
  BY <1>1, <1>2 DEF AbsentOf
<1>7. absentOf' = [absentOf EXCEPT ![c] = Tenants \ listedOf]
  BY <1>5, <1>6 DEF absentOf
<1> QED BY <1>1, <1>3, <1>7
        DEF Promised!Ask, listedOf, everOf, stateOf, absentOf, StateOf, AbsentOf

\* A caller's steps between the call and the verdict concern nobody else.
LEMMA AskingStutters ==
  ASSUME IInv, NEW c \in Callers,
         \/ LoadPtr(c) \/ LoadLen(c) \/ Miss(c)
         \/ TmAnswers(c) \/ CallFails(c) \/ GetTenantsListParses(c)
  PROVE  UNCHANGED Promised!vars
<1>1. /\ UNCHANGED <<tmVars, callVars, rcReused>>
      /\ \/ pc' = pc
         \/ pc[c] = "loading" /\ pc' = [pc EXCEPT ![c] = "asking"]
         \/ pc[c] = "asking" /\ pc' = [pc EXCEPT ![c] = "storing"]
  BY DEF LoadPtr, LoadLen, Miss, Loaded, TmAnswers, CallFails,
         GetTenantsListParses, localVars, callVars, rcVars, RC!Send,
         RC!BuildFails, RC!Answer, RC!ConnectionFails, RC!Done
<1>2. \A d \in Callers : StateOf(d)' = StateOf(d) /\ (pc'[d] = "idle" <=> pc[d] = "idle")
  BY <1>1 DEF IInv, TypeOK, StateOf
<1>3. \A vs : Unlisted(vs)' = Unlisted(vs)
  BY <1>1, ListsUnchanged
<1>4. \A d \in Callers : AbsentOf(d)' = AbsentOf(d)
  BY <1>1, <1>2, <1>3 DEF AbsentOf, tmVars, callVars
<1> QED BY <1>1, <1>2, <1>4, Stutters DEF callVars

\* The cache is nobody's but the tenant check's.
LEMMA CacheStutters ==
  ASSUME \/ \E x \in Writers : StorePtr(x) \/ StoreLen(x)
         \/ CleanCacheJob \/ UNCHANGED vars
  PROVE  UNCHANGED Promised!vars
<1>1. UNCHANGED <<tmVars, pc, tenantId, start, rcReused>>
  BY DEF StorePtr, StoreLen, CleanCacheJob, vars, callVars, rcVars
<1>2. \A vs : Unlisted(vs)' = Unlisted(vs)
  BY <1>1, ListsUnchanged
<1>3. \A d \in Callers : StateOf(d)' = StateOf(d) /\ AbsentOf(d)' = AbsentOf(d)
  BY <1>1, <1>2 DEF StateOf, AbsentOf, tmVars
<1> QED BY <1>1, <1>3, Stutters

\* A buffer that is read into under S makes them misread their answers.
LEMMA MisreadMaps ==
  ASSUME IInv, YInv, NEW S \in SUBSET RC!Exposed,
         rcReused' = [d \in Callers |-> rcReused[d] \/ d \in S],
         UNCHANGED <<tmVars, pc, callVars>>
  PROVE  Promised!Misread(S) /\ S \in SUBSET {c \in Callers : Promised!Asking(c)}
<1> USE DEF callVars
<1>1. listedOf' = listedOf /\ everOf' = everOf /\ \A vs : Unlisted(vs)' = Unlisted(vs)
  BY ListsUnchanged
<1>2. stateOf' = stateOf
  BY DEF stateOf, StateOf
<1>3. \A d \in S : d \in Callers /\ pc[d] = "asking"
  BY DEF RC!Exposed, YInv, Young, CallIsTheChecks
<1>4. \A d \in Callers : AbsentOf(d)' = IF d \in S THEN Tenants ELSE AbsentOf(d)
  <2> SUFFICES ASSUME NEW d \in Callers
               PROVE  AbsentOf(d)' = IF d \in S THEN Tenants ELSE AbsentOf(d)
    OBVIOUS
  <2>1. CASE d \in S
    BY <1>3, <2>1 DEF AbsentOf
  <2>2. CASE d \notin S
    <3>1. rcReused'[d] = rcReused[d]
      BY <2>2 DEF IInv, TypeOK, RC!RcTypeOK
    <3> QED BY <1>1, <2>2, <3>1 DEF AbsentOf, tmVars
  <2> QED BY <2>1, <2>2
<1>5. absentOf' = [d \in Callers |-> IF d \in S THEN Tenants ELSE absentOf[d]]
  BY <1>4 DEF absentOf
<1>6. \A d \in S : stateOf[d] = "asking"
  BY <1>3 DEF stateOf, StateOf
<1> QED BY <1>1, <1>2, <1>3, <1>5, <1>6
        DEF Promised!Misread, Promised!Asking, listedOf, everOf, stateOf, absentOf,
            StateOf, AbsentOf

\* A verdict is the abstract one.
LEMMA VerdictMaps ==
  ASSUME IInv, YInv, NEW c \in Callers,
         Hit(c) \/ Strays(c) \/ GetTenantsListFails(c) \/ Decides(c)
  PROVE  Promised!Allow(c) \/ Promised!Deny(c) \/ Promised!Fail(c) \/ Promised!Stray(c)
<1>0. TypeOK /\ ListsAreRecent /\ ChecksAreUnderWay
  BY DEF IInv
<1>1. CASE Hit(c)
  <2>1. /\ pc[c] = "loading" /\ pc' = [pc EXCEPT ![c] = "allowed"]
        /\ UNCHANGED <<tmVars, callVars, rcReused>>
    BY <1>1 DEF Hit, Loaded, rcVars
  <2>2. /\ viewPtr[c] \in Lists /\ Recent(viewPtr[c])
        /\ tenantId[c] \in Listed(viewPtr[c])
    BY <1>0, <1>1, ScannedIsListed DEF Hit, Found, TypeOK, ListsAreRecent
  <2> QED BY <2>1, <2>2, AllowMaps
<1>2. CASE Strays(c)
  <2>1. /\ pc[c] = "loading" /\ pc' = [pc EXCEPT ![c] = "strayed"]
        /\ UNCHANGED <<tmVars, callVars, rcReused>>
    BY <1>2 DEF Strays, Loaded, rcVars
  <2>2. "strayed" \in Outcomes /\ tenantId[c] \in Tenants
    BY <1>0, <2>1 DEF Outcomes, ChecksAreUnderWay
  <2>3. Promised!Answer(c, "strayed")
    BY <1>0, <2>1, <2>2, AnswerMaps
  <2> QED BY <2>2, <2>3 DEF Promised!Stray
<1>3. CASE GetTenantsListFails(c)
  <2>1. /\ pc[c] = "asking" /\ pc' = [pc EXCEPT ![c] = "failed"]
        /\ UNCHANGED <<tmVars, callVars, rcReused>>
    BY <1>3 DEF GetTenantsListFails, RC!Done
  <2>2. "failed" \in Outcomes
    BY DEF Outcomes
  <2>3. Promised!Answer(c, "failed")
    BY <1>0, <2>1, <2>2, AnswerMaps
  <2> QED BY <2>3 DEF Promised!Fail
<1>4. CASE Decides(c)
  <2>1. /\ pc[c] = "storing" /\ UNCHANGED <<tmVars, callVars, rcReused>>
        /\ newList[c] \in Lists /\ Recent(newList[c])
    BY <1>0, <1>4 DEF Decides, rcVars, ChecksAreUnderWay, ListsAreRecent
  <2>2. CASE tenantId[c] \in Listed(newList[c])
    <3>1. pc' = [pc EXCEPT ![c] = "allowed"]
      BY <1>4, <2>2 DEF Decides
    <3> QED BY <2>1, <2>2, <3>1, AllowMaps
  <2>3. CASE tenantId[c] \notin Listed(newList[c])
    <3>1. pc' = [pc EXCEPT ![c] = "denied"]
      BY <1>4, <2>3 DEF Decides
    <3> QED BY <2>1, <2>3, <3>1, DenyMaps
  <2> QED BY <2>2, <2>3
<1> QED BY <1>1, <1>2, <1>3, <1>4

LEMMA ReplyMaps ==
  ASSUME IInv, NEW c \in Callers, Reply(c)
  PROVE  Promised!Return(c)
<1> USE DEF Reply
<1>1. listedOf' = listedOf /\ everOf' = everOf /\ \A vs : Unlisted(vs)' = Unlisted(vs)
  BY ListsUnchanged
<1>2. /\ pc[c] \in Outcomes /\ pc'[c] = "idle"
      /\ \A d \in Callers \ {c} :
            pc'[d] = pc[d] /\ start'[d] = start[d] /\ rcReused'[d] = rcReused[d]
      /\ tmVersion' = tmVersion
  BY DEF IInv, TypeOK, RC!RcTypeOK, RC!Forget, tmVars
<1>3. stateOf[c] \in Outcomes /\ stateOf' = [stateOf EXCEPT ![c] = "idle"]
  BY <1>2 DEF stateOf, StateOf, Outcomes
<1>4. AbsentOf(c)' = {} /\ \A d \in Callers \ {c} : AbsentOf(d)' = AbsentOf(d)
  BY <1>1, <1>2 DEF AbsentOf
<1>5. absentOf' = [absentOf EXCEPT ![c] = {}]
  BY <1>4 DEF absentOf
<1> QED BY <1>1, <1>3, <1>5
        DEF Promised!Return, Promised!Answers, Outcomes, listedOf, everOf, stateOf,
            absentOf, StateOf, AbsentOf

\* tenant-manager's next list is published under the checks that go on.
LEMMA ChangeMaps ==
  ASSUME IInv, TmChanges
  PROVE  Promised!Publish
<1> USE TmAssumption
<1>1. /\ tmVersion \in Nat /\ tmVersion' = tmVersion + 1 /\ tmVersion' \in Versions
      /\ tmBase \in 0..tmVersion /\ start \in [Callers -> 0..tmVersion]
      /\ UNCHANGED <<tmHistory, tmBase, pc, tenantId, start, rcReused>>
      /\ tmHistory \in [Versions -> Seq(Tenants)]
  BY DEF IInv, TypeOK, Versions, TmChanges, localVars, callVars, rcVars
<1>2. \A v : Listed(v)' = Listed(v)
  BY <1>1 DEF Listed, Elements
<1>3. listedOf' = Listed(tmVersion + 1)
  BY <1>1, <1>2 DEF listedOf
<1>4. listedOf' \in SUBSET Tenants
  <2>1. tmHistory[tmVersion + 1] \in Seq(Tenants)
    BY <1>1
  <2> QED BY <1>1, <1>3, <2>1 DEF Listed, Elements
<1>5. \A k \in 0..tmVersion : k..tmVersion' = (k..tmVersion) \cup {tmVersion + 1}
  BY <1>1
<1>6. everOf' = everOf \cup listedOf'
  <2>1. everOf' = UNION {Listed(v) : v \in tmBase..tmVersion'}
    BY <1>1, <1>2 DEF everOf
  <2>2. tmBase..tmVersion' = (tmBase..tmVersion) \cup {tmVersion + 1}
    BY <1>1, <1>5
  <2> QED BY <1>3, <2>1, <2>2 DEF everOf
<1>7. stateOf' = stateOf
  BY <1>1 DEF stateOf, StateOf
<1>8. \A d \in Callers :
         AbsentOf(d)' = IF stateOf[d] # "idle" THEN AbsentOf(d) \cup (Tenants \ listedOf')
                                               ELSE AbsentOf(d)
  <2> SUFFICES ASSUME NEW d \in Callers
               PROVE  AbsentOf(d)' = IF pc[d] # "idle"
                                     THEN AbsentOf(d) \cup (Tenants \ listedOf')
                                     ELSE AbsentOf(d)
    BY DEF stateOf, StateOf
  <2>1. \A vs : Unlisted(vs)' = Unlisted(vs)
    BY <1>2 DEF Unlisted
  <2>2. Unlisted(start[d]..tmVersion') =
           Unlisted(start[d]..tmVersion) \cup (Tenants \ listedOf')
    <3>1. start[d]..tmVersion' = (start[d]..tmVersion) \cup {tmVersion + 1}
      BY <1>1, <1>5
    <3> QED BY <1>3, <3>1 DEF Unlisted
  <2> QED BY <1>1, <2>1, <2>2 DEF AbsentOf
<1>9. absentOf' = [d \in Callers |-> IF stateOf[d] # "idle"
                                     THEN absentOf[d] \cup (Tenants \ listedOf')
                                     ELSE absentOf[d]]
  BY <1>8 DEF absentOf
<1> QED BY <1>1, <1>4, <1>6, <1>7, <1>9
        DEF Promised!Publish, Promised!Busy, listedOf, everOf, stateOf, absentOf,
            StateOf, AbsentOf

LEMMA RestartMaps ==
  ASSUME IInv, Restart
  PROVE  Promised!Restart
<1> USE DEF Restart
<1>1. \A v : Listed(v)' = Listed(v)
  BY DEF Listed, Elements
<1>2. tmVersion' = tmVersion /\ tmBase' = tmVersion /\ tmVersion..tmVersion = {tmVersion}
  BY TmAssumption DEF IInv, TypeOK, Versions
<1>3. listedOf' = listedOf /\ everOf' = listedOf
  BY <1>1, <1>2 DEF listedOf, everOf
<1>4. stateOf' = [c \in Callers |-> "idle"] /\ absentOf' = [c \in Callers |-> {}]
  BY DEF stateOf, StateOf, absentOf, AbsentOf
<1> QED BY <1>3, <1>4
        DEF Promised!Restart, listedOf, everOf, stateOf, absentOf, StateOf, AbsentOf

LEMMA StepMaps == IInv /\ YInv /\ [Next]_vars => [Promised!Next]_Promised!vars
<1> SUFFICES ASSUME IInv, YInv, [Next]_vars
             PROVE  Promised!Next \/ UNCHANGED Promised!vars
  OBVIOUS
<1>1. ASSUME NEW c \in Callers, Steps(c)
      PROVE  Promised!Next \/ UNCHANGED Promised!vars
  <2>1. ASSUME NEW t \in Tenants, CheckTenantIdExist(c, t) PROVE Promised!Next
    BY <2>1, CheckMaps DEF Promised!Next
  <2>2. CASE Hit(c) \/ Strays(c) \/ GetTenantsListFails(c) \/ Decides(c)
    BY <2>2, VerdictMaps DEF Promised!Next, Promised!Upstream
  <2>3. CASE CallReturns(c)
    <3>1. PICK S \in SUBSET RC!Exposed : RC!Return(c, S)
      BY <2>3 DEF CallReturns
    <3>2. Promised!Misread(S) /\ S \in SUBSET {d \in Callers : Promised!Asking(d)}
      BY <2>3, <3>1, MisreadMaps DEF CallReturns, RC!Return, localVars
    <3> QED BY <3>2 DEF Promised!Next, Promised!Upstream
  <2>4. CASE Reply(c)
    BY <2>4, ReplyMaps DEF Promised!Next
  <2>5. CASE StorePtr(c) \/ StoreLen(c)
    BY <2>5, CacheStutters DEF Writers
  <2> QED BY <1>1, <2>1, <2>2, <2>3, <2>4, <2>5, AskingStutters DEF Steps
<1>2. CASE BufferReused
  <2>1. PICK S \in SUBSET RC!Exposed, body \in {Garbage, Blank} :
             RC!ForeignRead(S, body)
    BY <1>2 DEF BufferReused
  <2>2. Promised!Misread(S) /\ S \in SUBSET {d \in Callers : Promised!Asking(d)}
    BY <1>2, <2>1, MisreadMaps DEF BufferReused, RC!ForeignRead, localVars
  <2> QED BY <2>2 DEF Promised!Next, Promised!Upstream
<1>3. CASE Cleaning \/ UNCHANGED vars
  BY <1>3, CacheStutters DEF Cleaning, Writers
<1>4. CASE TmChanges
  BY <1>4, ChangeMaps DEF Promised!Next, Promised!Upstream
<1>5. CASE Restart
  BY <1>5, RestartMaps DEF Promised!Next
<1> QED BY <1>1, <1>2, <1>3, <1>4, <1>5 DEF Next

\* CheckTenantIdExist keeps the promise the handlers rely on: for them there is
\* neither a cache nor a call, only a list that changes and what an answer may
\* mean by it.
THEOREM TenantCheckKeepsThePromise == Spec => KeepsThePromise
<1> QED BY IInvHolds, YInvHolds, InitMaps, StepMaps, PTL
        DEF Spec, KeepsThePromise, Promised!Spec
=============================================================================
