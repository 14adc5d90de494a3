--------------------- MODULE TenantManagerClientProofs ---------------------
(***************************************************************************)
(* A tenant is admitted only if tenant-manager has listed it since this    *)
(* process started, or if the caller's copy of the cache was torn between  *)
(* two lists of different lengths: for any number of callers, tenants and  *)
(* versions.                                                               *)
(***************************************************************************)
EXTENDS TenantManagerClient, TLAPS

\* A list that names a version names one of this process's lifetime.
Recent(l) == l \in Versions => l \in tmBase..tmVersion

\* Wherever a list may be: in the cache, in a caller's copy of it, in the
\* bytes of a response, in what a caller has parsed.
ListsAreRecent ==
  /\ Recent(cachePtr)
  /\ \A c \in Callers : /\ Recent(viewPtr[c])
                        /\ Recent(rcResp[c].body)
                        /\ Recent(newList[c])

\* A check in progress is about a tenant, and one that stores has a list.
ChecksAreUnderWay ==
  \A c \in Callers :
     /\ pc[c] # "idle" => tenantId[c] \in Tenants
     /\ pc[c] = "storing" => newList[c] \in Lists

\* A length that is loaded or stored is nil's, or that of a list of this
\* process's lifetime.
IsLength(n) == n = 0 \/ \E l \in RecentLists : n = Len(Elements(l))
LengthsAreRecent ==
  /\ IsLength(cacheLen)
  /\ \A c \in Callers : IsLength(viewLen[c])

\* The pointer says which list a loop reads, and that list is recent; a length
\* that takes the loop out of its array is the length of another such list.
IInv ==
  /\ TypeOK
  /\ ListsAreRecent
  /\ LengthsAreRecent
  /\ ChecksAreUnderWay
  /\ AdmittedWasListed

-----------------------------------------------------------------------------

\* Whom a loop finds in a list of this lifetime has been listed in it; the
\* list parsed from a foreign body has no tenant in it.
LEMMA FoundIsListed ==
  ASSUME TypeOK, NEW l \in Lists, Recent(l), NEW t \in Tenants, t \in Listed(l)
  PROVE  \E v \in tmBase..tmVersion : t \in Listed(v)
<1>1. CASE l \in Versions
  BY <1>1 DEF Recent
<1>2. CASE l = Blank
  <2>1. Listed(l) = {Nil}
    BY <1>2 DEF Listed, Elements
  <2> QED BY <2>1, TmAssumption
<1> QED BY <1>1, <1>2 DEF Lists

\* The length of a parsed list is a length.
LEMMA ListLength ==
  ASSUME TypeOK, NEW l \in Lists
  PROVE  Len(Elements(l)) \in Nat
<1>1. CASE l = Blank
  BY <1>1 DEF Elements
<1>2. CASE l # Blank
  <2>1. l \in Versions /\ tmHistory \in [Versions -> Seq(Tenants)]
    BY <1>2, TmAssumption DEF Lists, TypeOK
  <2>2. tmHistory[l] \in Seq(Tenants)
    BY <2>1
  <2> QED BY <1>2, <2>2 DEF Elements
<1> QED BY <1>1, <1>2

\* A loop over some elements of a list meets elements of that list.
LEMMA ScannedIsListed ==
  ASSUME NEW l, NEW n
  PROVE  Scanned(l, n) \subseteq Listed(l)
  BY DEF Scanned, Listed

\* Lists and their lengths stay what they were while tenant-manager's list
\* moves on.
LEMMA LengthsStay ==
  ASSUME TypeOK, tmHistory' = tmHistory, tmBase' = tmBase,
         tmVersion' \in Nat, tmVersion' >= tmVersion
  PROVE  /\ LengthsDiffer => LengthsDiffer'
         /\ \A n : IsLength(n) => IsLength(n)'
<1>1. RecentLists \subseteq RecentLists'
  BY TmAssumption DEF RecentLists, TypeOK, Versions
<1>2. \A l : Elements(l)' = Elements(l)
  BY DEF Elements
<1>3. LengthsDiffer => LengthsDiffer'
  BY <1>1, <1>2 DEF LengthsDiffer
<1>4. \A n : IsLength(n) => IsLength(n)'
  BY <1>1, <1>2 DEF IsLength
<1> QED BY <1>3, <1>4

\* A length beyond the end of a list is the length of a longer one.
LEMMA LongerList ==
  ASSUME TypeOK, NEW l \in Lists, Recent(l), NEW n, IsLength(n),
         n > Len(Elements(l))
  PROVE  LengthsDiffer
<1>1. l \in RecentLists
  BY DEF Recent, Lists, RecentLists
<1>2. Len(Elements(l)) \in Nat
  BY ListLength
<1>3. n # 0
  BY <1>2
<1>4. PICK m \in RecentLists : n = Len(Elements(m))
  BY <1>3 DEF IsLength
<1>5. Len(Elements(l)) < Len(Elements(m))
  BY <1>2, <1>4
<1> QED BY <1>1, <1>5 DEF LengthsDiffer

\* Who was admitted stays so while a caller's other affairs move on, and
\* while tenant-manager's list does.
LEMMA AdmittedStays ==
  ASSUME IInv, tmHistory' = tmHistory, tmBase' = tmBase,
         tmVersion' \in Nat, tmVersion' >= tmVersion,
         NEW c \in Callers, pc[c] = "allowed", tenantId'[c] = tenantId[c]
  PROVE  \E v \in tmBase'..tmVersion' : tenantId'[c] \in Listed(v)'
<1>1. PICK v \in tmBase..tmVersion : tenantId[c] \in Listed(v)
  BY DEF IInv, AdmittedWasListed
<1>2. v \in tmBase'..tmVersion'
  BY TmAssumption DEF IInv, TypeOK, Versions
<1>3. Listed(v)' = Listed(v)
  BY DEF Listed, Elements
<1> QED BY <1>1, <1>2, <1>3

-----------------------------------------------------------------------------

\* Nothing is cached and nothing under way.
LEMMA InitIInv == Init => IInv
<1> SUFFICES ASSUME Init PROVE IInv
  OBVIOUS
<1> USE TmAssumption
<1>1. TypeOK
  BY DEF Init, TypeOK, RC!RcInit, RC!RcTypeOK, RC!NoResponse, RC!Responses,
         RC!StatusOK, RC!StatusError, Versions, Lists, Writers
<1>2. ListsAreRecent /\ ChecksAreUnderWay /\ AdmittedWasListed
  BY DEF Init, ListsAreRecent, Recent, ChecksAreUnderWay, AdmittedWasListed,
         RC!RcInit, RC!NoResponse, Lists
<1>3. LengthsAreRecent
  BY DEF Init, LengthsAreRecent, IsLength
<1> QED BY <1>1, <1>2, <1>3 DEF IInv

\* The variables the REST client's own steps leave alone.
LEMMA CallsKeepIInv ==
  ASSUME IInv, UNCHANGED <<tmVars, cacheVars, localVars>>, RC!RcTypeOK',
         \A c \in Callers : Recent(rcResp'[c].body)
  PROVE  IInv'
<1> USE DEF tmVars, cacheVars, localVars, callVars, viewVars
<1>1. TypeOK'
  BY DEF IInv, TypeOK
<1>2. ListsAreRecent'
  BY DEF IInv, ListsAreRecent, Recent
<1>3. ChecksAreUnderWay'
  BY DEF IInv, ChecksAreUnderWay
<1>4. AdmittedWasListed'
  BY DEF IInv, AdmittedWasListed, LengthsDiffer, RecentLists, Listed, Elements
<1>5. LengthsAreRecent'
  BY DEF IInv, LengthsAreRecent, IsLength, RecentLists, Elements
<1> QED BY <1>1, <1>2, <1>3, <1>4, <1>5 DEF IInv

\* A response holds the list of the moment it was given, or bytes that were
\* in another response of this process.
LEMMA ResponsesAreRecent ==
  ASSUME IInv,
         \/ \E c \in Callers : TmAnswers(c) \/ CallFails(c) \/ CallReturns(c)
         \/ BufferReused
  PROVE  IInv'
<1> USE TmAssumption DEF RC!RcTypeOK, RC!Responses, RC!StatusOK, RC!StatusError,
                         RC!NoResponse
<1>1. RC!RcTypeOK /\ \A d \in Callers : Recent(rcResp[d].body)
  BY DEF IInv, TypeOK, ListsAreRecent
<1>2. tmVersion \in Versions /\ Recent(tmVersion) /\ Recent(Garbage)
        /\ Recent(Blank) /\ Recent(Nil)
  BY DEF IInv, TypeOK, Recent, Lists, Versions
<1>3. ASSUME NEW c \in Callers, TmAnswers(c) PROVE IInv'
  <2>1. PICK code \in {RC!StatusOK, RC!StatusError},
             body \in Versions \cup {Garbage} :
                Recent(body) /\ RC!Answer(c, code, body)
    BY <1>2, <1>3 DEF TmAnswers
  <2>2. RC!RcTypeOK' /\ \A d \in Callers : Recent(rcResp'[d].body)
    BY <1>1, <2>1 DEF RC!Answer
  <2> QED BY <1>3, <2>2, CallsKeepIInv DEF TmAnswers
<1>4. ASSUME NEW c \in Callers, CallFails(c) PROVE IInv'
  <2>1. RC!RcTypeOK' /\ \A d \in Callers : Recent(rcResp'[d].body)
    BY <1>1, <1>2, <1>4 DEF CallFails, RC!ConnectionFails
  <2> QED BY <1>4, <2>1, CallsKeepIInv DEF CallFails
<1>5. ASSUME NEW c \in Callers, CallReturns(c) PROVE IInv'
  <2>1. PICK S \in SUBSET RC!Exposed : RC!Return(c, S)
    BY <1>5 DEF CallReturns
  <2>2. RC!RcTypeOK' /\ \A d \in Callers : Recent(rcResp'[d].body)
    BY <1>1, <2>1 DEF RC!Return, RC!Overwritten, RC!Exposed
  <2> QED BY <1>5, <2>2, CallsKeepIInv DEF CallReturns
<1>6. CASE BufferReused
  <2>1. PICK S \in SUBSET RC!Exposed, body \in {Garbage, Blank} :
             RC!ForeignRead(S, body)
    BY <1>6 DEF BufferReused
  <2>2. RC!RcTypeOK' /\ \A d \in Callers : Recent(rcResp'[d].body)
    BY <1>1, <1>2, <2>1 DEF RC!ForeignRead, RC!Overwritten, RC!Exposed
  <2> QED BY <1>6, <2>2, CallsKeepIInv DEF BufferReused
<1> QED BY <1>3, <1>4, <1>5, <1>6

-----------------------------------------------------------------------------

\* Steps that neither touch tenant-manager's list nor admit anyone keep every
\* admission that there was.
LEMMA AdmissionsAreKept ==
  ASSUME IInv, UNCHANGED tmVars, NEW c \in Callers,
         \A d \in Callers :
            \/ pc'[d] # "allowed"
            \/ pc[d] = "allowed" /\ tenantId'[d] = tenantId[d]
            \/ d = c /\ \E v \in tmBase..tmVersion : tenantId'[d] \in Listed(v),
         \A d \in Callers :
            pc'[d] = "strayed" => pc[d] = "strayed" \/ LengthsDiffer
  PROVE  AdmittedWasListed'
<1>0. \A d \in Callers : pc'[d] = "strayed" => LengthsDiffer'
  BY DEF IInv, AdmittedWasListed, LengthsDiffer, RecentLists, Elements, tmVars
<1> SUFFICES ASSUME NEW d \in Callers, pc'[d] = "allowed"
             PROVE  \E v \in tmBase'..tmVersion' : tenantId'[d] \in Listed(v)'
  BY <1>0 DEF AdmittedWasListed
<1>1. tmHistory' = tmHistory /\ tmBase' = tmBase /\ tmVersion' = tmVersion
  BY DEF tmVars
<1>2. \A v : Listed(v)' = Listed(v)
  BY <1>1 DEF Listed, Elements
<1>3. CASE pc[d] = "allowed" /\ tenantId'[d] = tenantId[d]
  BY <1>1, <1>2, <1>3 DEF IInv, AdmittedWasListed
<1>4. CASE \E v \in tmBase..tmVersion : tenantId'[d] \in Listed(v)
  BY <1>1, <1>2, <1>4
<1> QED BY <1>3, <1>4

\* A request's own steps, from the call of the check to its reply.
LEMMA ChecksKeepIInv ==
  ASSUME IInv, NEW c \in Callers,
         \/ \E t \in Tenants : CheckTenantIdExist(c, t)
         \/ LoadPtr(c) \/ LoadLen(c)
         \/ Hit(c) \/ Strays(c) \/ Miss(c)
         \/ GetTenantsListFails(c) \/ GetTenantsListParses(c)
         \/ Decides(c) \/ Reply(c)
  PROVE  IInv'
<1> USE TmAssumption
    DEF tmVars, cacheVars, callVars, viewVars, rcVars, SliceWords, Outcomes,
        Recent, Lists, Versions, Writers, RC!RcTypeOK, RC!Responses, RC!NoResponse,
        RC!StatusOK, RC!StatusError
<1>0. TypeOK /\ ListsAreRecent /\ ChecksAreUnderWay /\ UNCHANGED tmVars
  BY DEF IInv, CheckTenantIdExist, LoadPtr, LoadLen, Hit, Strays, Miss,
         GetTenantsListFails, GetTenantsListParses, Decides, Reply
<1>a. LengthsAreRecent'
  <2>1. cacheLen' = cacheLen
    BY DEF CheckTenantIdExist, LoadPtr, LoadLen, Hit, Strays, Miss,
           GetTenantsListFails, GetTenantsListParses, Decides, Reply
  <2>2. \A d \in Callers : viewLen'[d] \in {viewLen[d], cacheLen, 0}
    BY <1>0
    DEF TypeOK, CheckTenantIdExist, LoadPtr, LoadLen, Hit, Strays, Miss, DropView,
        GetTenantsListFails, GetTenantsListParses, Decides, Reply
  <2>3. IsLength(0)
    BY DEF IsLength
  <2>4. \A d \in Callers : IsLength(viewLen'[d])
    BY <2>2, <2>3 DEF IInv, LengthsAreRecent
  <2>5. \A n : IsLength(n) => IsLength(n)'
    BY <1>0 DEF IsLength, RecentLists, Elements
  <2> QED BY <2>1, <2>4, <2>5 DEF IInv, LengthsAreRecent
<1>1. ASSUME NEW t \in Tenants, CheckTenantIdExist(c, t) PROVE IInv'
  <2>1. TypeOK' /\ ListsAreRecent' /\ ChecksAreUnderWay'
    BY <1>0, <1>1
    DEF CheckTenantIdExist, TypeOK, ListsAreRecent, ChecksAreUnderWay
  <2>2. AdmittedWasListed'
    BY <1>0, <1>1, AdmissionsAreKept DEF CheckTenantIdExist, TypeOK
  <2> QED BY <1>a, <2>1, <2>2 DEF IInv
<1>2. CASE LoadPtr(c) \/ LoadLen(c)
  <2>1. TypeOK' /\ ListsAreRecent' /\ ChecksAreUnderWay'
    <3>1. CASE LoadPtr(c)
      <4>1. TypeOK'
        BY <1>0, <3>1 DEF LoadPtr, TypeOK
      <4>2. ListsAreRecent' /\ ChecksAreUnderWay'
        BY <1>0, <3>1 DEF LoadPtr, TypeOK, ListsAreRecent, ChecksAreUnderWay
      <4> QED BY <4>1, <4>2
    <3>2. CASE LoadLen(c)
      <4>1. TypeOK'
        BY <1>0, <3>2 DEF LoadLen, TypeOK
      <4>2. ListsAreRecent' /\ ChecksAreUnderWay'
        BY <1>0, <3>2 DEF LoadLen, TypeOK, ListsAreRecent, ChecksAreUnderWay
      <4> QED BY <4>1, <4>2
    <3> QED BY <1>2, <3>1, <3>2
  <2>2. AdmittedWasListed'
    BY <1>0, <1>2, AdmissionsAreKept DEF LoadPtr, LoadLen, TypeOK
  <2> QED BY <1>a, <2>1, <2>2 DEF IInv
<1>3. CASE Hit(c)
  <2>1. TypeOK' /\ ListsAreRecent' /\ ChecksAreUnderWay'
    BY <1>0, <1>3
    DEF Hit, Loaded, DropView, TypeOK, ListsAreRecent, ChecksAreUnderWay
  <2>2. \E v \in tmBase..tmVersion : tenantId'[c] \in Listed(v)
    <3>1. viewPtr[c] \in Lists /\ tenantId[c] \in Listed(viewPtr[c])
      BY <1>0, <1>3, ScannedIsListed DEF Hit, Found, TypeOK
    <3>2. tenantId[c] \in Tenants /\ tenantId' = tenantId
      BY <1>0, <1>3 DEF Hit, Loaded, ChecksAreUnderWay
    <3>3. Recent(viewPtr[c])
      BY <1>0 DEF ListsAreRecent
    <3> QED BY <1>0, <3>1, <3>2, <3>3, FoundIsListed
  <2>3. AdmittedWasListed'
    BY <1>0, <1>3, <2>2, AdmissionsAreKept DEF Hit, TypeOK
  <2> QED BY <1>a, <2>1, <2>3 DEF IInv
<1>4. CASE Strays(c)
  <2>1. TypeOK' /\ ListsAreRecent' /\ ChecksAreUnderWay'
    BY <1>0, <1>4
    DEF Strays, Loaded, DropView, TypeOK, ListsAreRecent, ChecksAreUnderWay
  <2>2. LengthsDiffer
    <3>1. viewPtr[c] \in Lists /\ viewLen[c] > Len(Elements(viewPtr[c]))
      BY <1>0, <1>4 DEF Strays, TypeOK
    <3>2. Recent(viewPtr[c]) /\ IsLength(viewLen[c])
      BY DEF IInv, ListsAreRecent, LengthsAreRecent
    <3> QED BY <1>0, <3>1, <3>2, LongerList
  <2>3. AdmittedWasListed'
    BY <1>0, <1>4, <2>2, AdmissionsAreKept DEF Strays, TypeOK
  <2> QED BY <1>a, <2>1, <2>3 DEF IInv
<1>5. CASE Miss(c)
  <2>1. RC!RcTypeOK' /\ \A d \in Callers : rcResp'[d].body \in {rcResp[d].body, Nil}
    <3>1. CASE RC!Send(c)
      BY <1>0, <3>1 DEF RC!Send, TypeOK
    <3>2. CASE RC!BuildFails(c)
      BY <1>0, <3>2 DEF RC!BuildFails, TypeOK
    <3> QED BY <1>5, <3>1, <3>2 DEF Miss
  <2>2. /\ pc[c] = "loading"
        /\ pc' = [pc EXCEPT ![c] = "asking"]
        /\ viewPtr' = [viewPtr EXCEPT ![c] = Nil]
        /\ viewLen' = [viewLen EXCEPT ![c] = 0]
        /\ UNCHANGED <<tmVars, cacheVars, callVars, newList, words>>
    BY <1>5 DEF Miss, Loaded, DropView
  <2>3. TypeOK'
    BY <1>0, <2>1, <2>2 DEF TypeOK
  <2>4. ListsAreRecent' /\ ChecksAreUnderWay'
    <3>1. Recent(cachePtr)' /\ \A d \in Callers : Recent(viewPtr[d])' /\ Recent(newList[d])'
      BY <1>0, <2>2 DEF TypeOK, ListsAreRecent
    <3>2. \A d \in Callers : Recent(rcResp[d].body)'
      BY <1>0, <2>1, <2>2 DEF ListsAreRecent
    <3>3. ChecksAreUnderWay'
      BY <1>0, <2>2 DEF TypeOK, ChecksAreUnderWay
    <3> QED BY <3>1, <3>2, <3>3 DEF ListsAreRecent
  <2>5. AdmittedWasListed'
    BY <1>0, <2>2, AdmissionsAreKept DEF TypeOK
  <2> QED BY <1>a, <2>3, <2>4, <2>5 DEF IInv
<1>6. CASE GetTenantsListFails(c)
  <2>1. TypeOK' /\ ListsAreRecent' /\ ChecksAreUnderWay'
    BY <1>0, <1>6
    DEF GetTenantsListFails, RC!Done, TypeOK, ListsAreRecent, ChecksAreUnderWay
  <2>2. AdmittedWasListed'
    BY <1>0, <1>6, AdmissionsAreKept DEF GetTenantsListFails, TypeOK
  <2> QED BY <1>a, <2>1, <2>2 DEF IInv
<1>7. CASE GetTenantsListParses(c)
  <2>1. TypeOK' /\ ListsAreRecent' /\ ChecksAreUnderWay'
    <3>1. TypeOK'
      <4>1. RC!RcTypeOK'
        BY <1>0, <1>7 DEF GetTenantsListParses, RC!Done, TypeOK, RC!RcTypeOK
      <4>2. pc' \in [Callers -> {"idle", "loading", "asking", "storing"} \cup Outcomes]
        BY <1>0, <1>7 DEF GetTenantsListParses, TypeOK
      <4>3. newList' \in [Callers -> Lists \cup {Nil}]
        BY <1>0, <1>7 DEF GetTenantsListParses, Parsed, TypeOK
      <4> QED BY <1>0, <1>7, <4>1, <4>2, <4>3 DEF GetTenantsListParses, TypeOK
    <3>2. ListsAreRecent'
      BY <1>0, <1>7
      DEF GetTenantsListParses, Parsed, RC!Done, TypeOK, ListsAreRecent
    <3>3. ChecksAreUnderWay'
      BY <1>0, <1>7 DEF GetTenantsListParses, Parsed, TypeOK, ChecksAreUnderWay
    <3> QED BY <3>1, <3>2, <3>3
  <2>2. AdmittedWasListed'
    BY <1>0, <1>7, AdmissionsAreKept DEF GetTenantsListParses, TypeOK
  <2> QED BY <1>a, <2>1, <2>2 DEF IInv
<1>8. CASE Decides(c)
  <2>1. TypeOK' /\ ListsAreRecent' /\ ChecksAreUnderWay'
    BY <1>0, <1>8 DEF Decides, TypeOK, ListsAreRecent, ChecksAreUnderWay
  <2>2. pc'[c] = "allowed" =>
           \E v \in tmBase..tmVersion : tenantId'[c] \in Listed(v)
    <3> SUFFICES ASSUME pc'[c] = "allowed"
                 PROVE  \E v \in tmBase..tmVersion : tenantId'[c] \in Listed(v)
      OBVIOUS
    <3>1. newList[c] \in Lists /\ tenantId[c] \in Tenants
      BY <1>0, <1>8 DEF Decides, ChecksAreUnderWay
    <3>2. tenantId[c] \in Listed(newList[c]) /\ tenantId' = tenantId
      BY <1>0, <1>8 DEF Decides, TypeOK
    <3>3. Recent(newList[c])
      BY <1>0 DEF ListsAreRecent
    <3> QED BY <1>0, <3>1, <3>2, <3>3, FoundIsListed
  <2>3. AdmittedWasListed'
    BY <1>0, <1>8, <2>2, AdmissionsAreKept DEF Decides, TypeOK
  <2> QED BY <1>a, <2>1, <2>3 DEF IInv
<1>9. CASE Reply(c)
  <2>1. TypeOK' /\ ListsAreRecent' /\ ChecksAreUnderWay'
    BY <1>0, <1>9
    DEF Reply, RC!Forget, TypeOK, ListsAreRecent, ChecksAreUnderWay
  <2>2. AdmittedWasListed'
    BY <1>0, <1>9, AdmissionsAreKept DEF Reply, TypeOK
  <2> QED BY <1>a, <2>1, <2>2 DEF IInv
<1> QED BY <1>1, <1>2, <1>3, <1>4, <1>5, <1>6, <1>7, <1>8, <1>9

\* An assignment of the cache stores a pointer and a length of its own list.
LEMMA StoresKeepIInv ==
  ASSUME IInv, NEW x \in Writers, StorePtr(x) \/ StoreLen(x)
  PROVE  IInv'
<1> USE TmAssumption
    DEF tmVars, cacheVars, callVars, viewVars, rcVars, SliceWords, Recent, Lists,
        Versions, Writers
<1>0. TypeOK /\ ListsAreRecent /\ ChecksAreUnderWay
  BY DEF IInv
<1>1. AdmittedWasListed'
  BY DEF IInv, AdmittedWasListed, LengthsDiffer, RecentLists, Listed, Elements,
         StorePtr, StoreLen
<1>a. (\A n : IsLength(n) => IsLength(n)') /\ viewLen' = viewLen
  BY DEF IsLength, RecentLists, Elements, StorePtr, StoreLen
<1>2. CASE StorePtr(x)
  <2>1. StoredPtr(x) \in Lists \cup {Nil} /\ Recent(StoredPtr(x))
    BY <1>0, <1>2 DEF StorePtr, StoredPtr, TypeOK, ListsAreRecent
  <2>2. TypeOK'
    BY <1>0, <1>2, <2>1 DEF StorePtr, TypeOK, RC!RcTypeOK
  <2>3. ListsAreRecent' /\ ChecksAreUnderWay'
    BY <1>0, <1>2, <2>1 DEF StorePtr, ListsAreRecent, ChecksAreUnderWay
  <2>4. LengthsAreRecent'
    BY <1>2, <1>a DEF IInv, StorePtr, LengthsAreRecent
  <2> QED BY <1>1, <2>2, <2>3, <2>4 DEF IInv
<1>3. CASE StoreLen(x)
  <2>1. StoredLen(x) \in Nat /\ IsLength(StoredLen(x))
    <3>1. CASE x = Cleaner
      BY <3>1 DEF StoredLen, IsLength
    <3>2. CASE x \in Callers
      <4>1. newList[x] \in Lists
        BY <1>0, <1>3, <3>2 DEF StoreLen, Stores, ChecksAreUnderWay
      <4>2. newList[x] \in RecentLists
        BY <1>0, <3>2, <4>1 DEF ListsAreRecent, RecentLists
      <4>3. StoredLen(x) = Len(Elements(newList[x]))
        BY <3>2 DEF StoredLen
      <4>4. IsLength(StoredLen(x))
        BY <4>2, <4>3 DEF IsLength
      <4> QED BY <1>0, <4>1, <4>3, <4>4, ListLength
    <3> QED BY <3>1, <3>2
  <2>2. TypeOK'
    BY <1>0, <1>3, <2>1 DEF StoreLen, TypeOK, RC!RcTypeOK
  <2>3. ListsAreRecent' /\ ChecksAreUnderWay'
    BY <1>0, <1>3 DEF StoreLen, ListsAreRecent, ChecksAreUnderWay
  <2>4. LengthsAreRecent'
    BY <1>3, <1>a, <2>1 DEF IInv, StoreLen, LengthsAreRecent
  <2> QED BY <1>1, <2>2, <2>3, <2>4 DEF IInv
<1> QED BY <1>2, <1>3

\* What is not a request's doing: the ticker, tenant-manager, a restart.
LEMMA OthersKeepIInv ==
  ASSUME IInv, CleanCacheJob \/ TmChanges \/ Restart \/ UNCHANGED vars
  PROVE  IInv'
<1> USE TmAssumption
    DEF tmVars, cacheVars, callVars, viewVars, rcVars, localVars, SliceWords,
        Recent, Lists, Versions, Writers
<1>0. /\ TypeOK /\ ListsAreRecent /\ LengthsAreRecent
      /\ ChecksAreUnderWay /\ AdmittedWasListed
  BY DEF IInv
<1>1. CASE CleanCacheJob \/ UNCHANGED vars
  <2>1. TypeOK'
    <3>1. CASE CleanCacheJob
      BY <1>0, <3>1 DEF CleanCacheJob, TypeOK, RC!RcTypeOK
    <3>2. CASE UNCHANGED vars
      BY <1>0, <3>2 DEF vars, TypeOK, RC!RcTypeOK
    <3> QED BY <1>1, <3>1, <3>2
  <2>2. UNCHANGED <<tmVars, cacheVars, pc, callVars, viewVars, newList, rcVars>>
    BY <1>1 DEF CleanCacheJob, vars
  <2>3. ListsAreRecent' /\ ChecksAreUnderWay'
    BY <1>0, <2>2 DEF ListsAreRecent, ChecksAreUnderWay
  <2>4. AdmittedWasListed'
    BY <1>0, <2>2
    DEF AdmittedWasListed, LengthsDiffer, RecentLists, Listed, Elements
  <2>5. LengthsAreRecent'
    BY <1>0, <2>2 DEF LengthsAreRecent, IsLength, RecentLists, Elements
  <2> QED BY <2>1, <2>3, <2>4, <2>5 DEF IInv
<1>2. CASE TmChanges
  <2>1. /\ tmHistory' = tmHistory /\ tmBase' = tmBase
        /\ tmVersion' = tmVersion + 1 /\ tmVersion' \in Versions
        /\ tmVersion \in Nat
    BY <1>0, <1>2 DEF TmChanges, TypeOK
  <2>2. TypeOK'
    <3>1. RC!RcTypeOK'
      BY <1>0, <1>2 DEF TmChanges, TypeOK, RC!RcTypeOK
    <3>2. tmBase' \in 0..tmVersion' /\ start' \in [Callers -> 0..tmVersion']
      BY <1>0, <1>2, <2>1 DEF TmChanges, TypeOK
    <3> QED BY <1>0, <1>2, <2>1, <3>1, <3>2 DEF TmChanges, TypeOK
  <2>3. ListsAreRecent' /\ ChecksAreUnderWay'
    <3>1. \A l : Recent(l) => Recent(l)'
      BY <1>0, <2>1 DEF TypeOK
    <3>2. ListsAreRecent'
      BY <1>0, <1>2, <3>1 DEF TmChanges, ListsAreRecent
    <3>3. ChecksAreUnderWay'
      BY <1>0, <1>2 DEF TmChanges, ChecksAreUnderWay
    <3> QED BY <3>2, <3>3
  <2>4. /\ LengthsDiffer => LengthsDiffer'
        /\ \A n : IsLength(n) => IsLength(n)'
    BY <1>0, <2>1, LengthsStay
  <2>5. AdmittedWasListed'
    <3>1. ASSUME NEW c \in Callers, pc'[c] = "strayed" PROVE LengthsDiffer'
      <4>1. LengthsDiffer
        BY <1>0, <1>2, <3>1 DEF TmChanges, AdmittedWasListed
      <4> QED BY <2>4, <4>1
    <3> SUFFICES ASSUME NEW c \in Callers, pc'[c] = "allowed"
                 PROVE  \E v \in tmBase'..tmVersion' : tenantId'[c] \in Listed(v)'
      BY <3>1 DEF AdmittedWasListed
    <3> QED BY <1>2, <2>1, AdmittedStays DEF TmChanges
  <2>6. LengthsAreRecent'
    BY <1>0, <1>2, <2>4 DEF TmChanges, LengthsAreRecent
  <2> QED BY <2>2, <2>3, <2>5, <2>6 DEF IInv
<1>3. CASE Restart
  <2>1. TypeOK'
    BY <1>0, <1>3
    DEF Restart, TypeOK, RC!RcRestart, RC!RcTypeOK, RC!Responses, RC!NoResponse,
        RC!StatusOK, RC!StatusError
  <2>2. ListsAreRecent' /\ ChecksAreUnderWay' /\ AdmittedWasListed'
    BY <1>3
    DEF Restart, ListsAreRecent, ChecksAreUnderWay, AdmittedWasListed,
        RC!RcRestart, RC!NoResponse
  <2>3. LengthsAreRecent'
    BY <1>3 DEF Restart, LengthsAreRecent, IsLength
  <2> QED BY <2>1, <2>2, <2>3 DEF IInv
<1> QED BY <1>1, <1>2, <1>3

-----------------------------------------------------------------------------

\* The invariant holds of the whole specification.
LEMMA IInvHolds == Spec => []IInv
<1>1. Init => IInv
  BY InitIInv
<1>2. IInv /\ [Next]_vars => IInv'
  <2> SUFFICES ASSUME IInv, [Next]_vars PROVE IInv'
    OBVIOUS
  <2>1. ASSUME NEW c \in Callers, Steps(c) PROVE IInv'
    BY <2>1, ChecksKeepIInv, ResponsesAreRecent, StoresKeepIInv DEF Steps, Writers
  <2>2. CASE BufferReused
    BY <2>2, ResponsesAreRecent
  <2>3. CASE Cleaning
    BY <2>3, StoresKeepIInv, OthersKeepIInv DEF Cleaning, Writers
  <2>4. CASE TmChanges \/ Restart \/ UNCHANGED vars
    BY <2>4, OthersKeepIInv
  <2> QED BY <2>1, <2>2, <2>3, <2>4 DEF Next
<1> QED BY <1>1, <1>2, PTL DEF Spec

\* Every variable of the tenant check and its cache keeps its type.
THEOREM TenantsTypeCorrect == Spec => []TypeOK
  BY IInvHolds, PTL DEF IInv

\* CheckTenantIdExist admits only tenants that tenant-manager has listed since
\* the process started, whenever the cache was cleaned and whatever response
\* was parsed in place of the right one; only a copy of the cache torn between
\* lists of different lengths can admit another.
THEOREM AdmittedTenantsWereListed == Spec => []AdmittedWasListed
  BY IInvHolds, PTL DEF IInv
=============================================================================
