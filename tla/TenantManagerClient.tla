------------------------ MODULE TenantManagerClient ------------------------
(***************************************************************************)
(* The tenant check (service/security_service.go, CheckTenantIdExist) over *)
(* the tenant-manager client and its cache                                 *)
(* (client/tenant_manager_client.go).  The requests run in goroutines of   *)
(* their own, the cleaner (lib/server.go) in another, and nothing guards   *)
(* tenantListCache between them: it is a slice, a pointer and a length     *)
(* that are loaded and stored one word at a time.  (Its capacity is never  *)
(* read and is left out.)                                                  *)
(*                                                                         *)
(* tenant-manager's list is a sequence of versions.  A list that has been  *)
(* parsed is named by the version it came from, so the cache, a caller's   *)
(* copy of it and an answer under way can be told apart by age.            *)
(***************************************************************************)
EXTENDS Integers, Sequences

CONSTANTS Callers,     \* the goroutines serving requests
          Tenants,     \* tenant ids, none of them empty
          MaxVersion,  \* bound: how often tenant-manager's list changes
          Timelines,   \* the histories of that list to consider
          Cleaner,     \* the goroutine of BackgroundCleanJob
          Garbage,     \* a body that does not unmarshal into []Tenant
          Blank,       \* one that does, to a tenant with an empty id
          Nil

Versions == 0..MaxVersion
Writers == Callers \cup {Cleaner}
Lists == Versions \cup {Blank}

ASSUME TmAssumption ==
  /\ MaxVersion \in Nat
  /\ Timelines \subseteq [Versions -> Seq(Tenants)]
  /\ Cleaner \notin Callers
  /\ Nil \notin Lists \cup {Garbage} \cup Tenants
  /\ Garbage \notin Lists
  /\ Blank \notin Versions

VARIABLES tmHistory,  \* tmHistory[v]: version v of tenant-manager's list
          tmVersion,  \* the version it holds now
          tmBase,     \* the version it held when this process started
          cachePtr, cacheLen,   \* tenantListCache
          pc,         \* where a request is in CheckTenantIdExist
          tenantId,   \* its argument
          start,      \* the version at the call
          viewPtr, viewLen,     \* tenantList, the caller's copy of the cache
          newList,    \* tenantsList: what the caller has parsed
          words,      \* the words of the slice still to be loaded or stored
          rcPc, rcResp, rcReused

tmVars == <<tmHistory, tmVersion, tmBase>>
cacheVars == <<cachePtr, cacheLen>>
callVars == <<tenantId, start>>
viewVars == <<viewPtr, viewLen>>
rcVars == <<rcPc, rcResp, rcReused>>
vars == <<tmVars, cacheVars, pc, callVars, viewVars, newList, words, rcVars>>

RC == INSTANCE RestClient WITH Bodies <- Versions \cup {Garbage},
                               ForeignBodies <- {Garbage, Blank}

Outcomes == {"allowed", "strayed", "denied", "failed"}
SliceWords == {"ptr", "len"}

\* The elements of the list that was parsed from body l.
Elements(l) == IF l = Blank THEN <<Nil>> ELSE tmHistory[l]
Listed(l) == {Elements(l)[i] : i \in 1..Len(Elements(l))}

\* What a loop over the first n elements of l meets within l's array.
Scanned(l, n) == {Elements(l)[i] : i \in {j \in 1..Len(Elements(l)) : j <= n}}

\* The lists that this process may have parsed, and whether one of them is
\* longer than another.
RecentLists == (tmBase..tmVersion) \cup {Blank}
LengthsDiffer ==
  \E l, m \in RecentLists : Len(Elements(l)) < Len(Elements(m))

-----------------------------------------------------------------------------

Init ==
  /\ tmHistory \in Timelines
  /\ tmVersion = 0
  /\ tmBase = 0
  /\ cachePtr = Nil
  /\ cacheLen = 0
  /\ pc = [c \in Callers |-> "idle"]
  /\ tenantId = [c \in Callers |-> Nil]
  /\ start = [c \in Callers |-> 0]
  /\ viewPtr = [c \in Callers |-> Nil]
  /\ viewLen = [c \in Callers |-> 0]
  /\ newList = [c \in Callers |-> Nil]
  /\ words = [x \in Writers |-> {}]
  /\ RC!RcInit

-----------------------------------------------------------------------------

CheckTenantIdExist(c, t) ==
  /\ pc[c] = "idle"
  /\ pc' = [pc EXCEPT ![c] = "loading"]
  /\ tenantId' = [tenantId EXCEPT ![c] = t]
  /\ start' = [start EXCEPT ![c] = tmVersion]
  /\ words' = [words EXCEPT ![c] = SliceWords]
  /\ UNCHANGED <<tmVars, cacheVars, viewVars, newList, rcVars>>

\* GetTenantsFromCache copies the slice, word by word.
LoadPtr(c) ==
  /\ pc[c] = "loading"
  /\ "ptr" \in words[c]
  /\ viewPtr' = [viewPtr EXCEPT ![c] = cachePtr]
  /\ words' = [words EXCEPT ![c] = @ \ {"ptr"}]
  /\ UNCHANGED <<tmVars, cacheVars, pc, callVars, viewLen, newList, rcVars>>

LoadLen(c) ==
  /\ pc[c] = "loading"
  /\ "len" \in words[c]
  /\ viewLen' = [viewLen EXCEPT ![c] = cacheLen]
  /\ words' = [words EXCEPT ![c] = @ \ {"len"}]
  /\ UNCHANGED <<tmVars, cacheVars, pc, callVars, viewPtr, newList, rcVars>>

Loaded(c) == pc[c] = "loading" /\ words[c] = {}

\* Mutant: a cache that is filled is taken for a hit.
FoundAnyway(c) == viewPtr[c] # Nil

\* containsInTenantListPlatform finds the tenant before the end of the array.
Found(c) ==
  viewPtr[c] # Nil /\ tenantId[c] \in Scanned(viewPtr[c], viewLen[c])

\* The copy is not looked at again.
DropView(c) ==
  /\ viewPtr' = [viewPtr EXCEPT ![c] = Nil]
  /\ viewLen' = [viewLen EXCEPT ![c] = 0]

Hit(c) ==
  /\ Loaded(c)
  /\ Found(c)
  /\ pc' = [pc EXCEPT ![c] = "allowed"]
  /\ DropView(c)
  /\ UNCHANGED <<tmVars, cacheVars, callVars, newList, words, rcVars>>

\* A length that belongs to a longer list takes the loop past the end of the
\* array, where it may meet any string.  (It may also fault: see Restart.)
Strays(c) ==
  /\ Loaded(c)
  /\ viewPtr[c] # Nil
  /\ ~Found(c)
  /\ viewLen[c] > Len(Elements(viewPtr[c]))
  /\ pc' = [pc EXCEPT ![c] = "strayed"]
  /\ DropView(c)
  /\ UNCHANGED <<tmVars, cacheVars, callVars, newList, words, rcVars>>

\* Mutant: a filled cache is the last word on who is not a tenant.
MissDenied(c) ==
  /\ Loaded(c)
  /\ ~Found(c)
  /\ DropView(c)
  /\ IF viewPtr[c] = Nil
     THEN /\ pc' = [pc EXCEPT ![c] = "asking"]
          /\ RC!Send(c) \/ RC!BuildFails(c)
     ELSE /\ pc' = [pc EXCEPT ![c] = "denied"]
          /\ UNCHANGED rcVars
  /\ UNCHANGED <<tmVars, cacheVars, callVars, newList, words>>

\* Nothing cached, or not this tenant: GetTenantsList asks tenant-manager.
Miss(c) ==
  /\ Loaded(c)
  /\ ~Found(c)
  /\ pc' = [pc EXCEPT ![c] = "asking"]
  /\ DropView(c)
  /\ RC!Send(c) \/ RC!BuildFails(c)
  /\ UNCHANGED <<tmVars, cacheVars, callVars, newList, words>>

-----------------------------------------------------------------------------

localVars == <<pc, callVars, viewVars, newList, words>>

\* tenant-manager answers with the list it holds, with an error, or with
\* something that is no list at all.
TmAnswers(c) ==
  /\ \/ RC!Answer(c, RC!StatusOK, tmVersion)
     \/ RC!Answer(c, RC!StatusOK, Garbage)
     \/ RC!Answer(c, RC!StatusError, Garbage)
  /\ UNCHANGED <<tmVars, cacheVars, localVars>>

CallFails(c) ==
  /\ RC!ConnectionFails(c)
  /\ UNCHANGED <<tmVars, cacheVars, localVars>>

CallReturns(c) ==
  /\ \E S \in SUBSET RC!Exposed : RC!Return(c, S)
  /\ UNCHANGED <<tmVars, cacheVars, localVars>>

\* A response of the forwarder is read into a buffer that is still parsed.
BufferReused ==
  /\ \E S \in SUBSET RC!Exposed \ {{}}, body \in {Garbage, Blank} :
        RC!ForeignRead(S, body)
  /\ UNCHANGED <<tmVars, cacheVars, localVars>>

\* Mutant: the error of Unmarshal is dropped.
ParsedAnyhow(c) == rcResp[c].code = RC!StatusOK

Parsed(c) ==
  /\ rcResp[c].code = RC!StatusOK
  /\ rcResp[c].body \in Lists

\* Mutant: a tenant-manager that cannot be asked lets everyone in.
GetTenantsListFailsOpen(c) ==
  /\ pc[c] = "asking"
  /\ ~Parsed(c)
  /\ RC!Done(c)
  /\ pc' = [pc EXCEPT ![c] = "allowed"]
  /\ UNCHANGED <<tmVars, cacheVars, callVars, viewVars, newList, words>>

\* An error, an unexpected code or an unparseable body: the request is
\* refused and the cache is left alone.
GetTenantsListFails(c) ==
  /\ pc[c] = "asking"
  /\ ~Parsed(c)
  /\ RC!Done(c)
  /\ pc' = [pc EXCEPT ![c] = "failed"]
  /\ UNCHANGED <<tmVars, cacheVars, callVars, viewVars, newList, words>>

GetTenantsListParses(c) ==
  /\ pc[c] = "asking"
  /\ Parsed(c)
  /\ RC!Done(c)
  /\ pc' = [pc EXCEPT ![c] = "storing"]
  /\ newList' = [newList EXCEPT ![c] = rcResp[c].body]
  /\ words' = [words EXCEPT ![c] = SliceWords]
  /\ UNCHANGED <<tmVars, cacheVars, callVars, viewVars>>

\* tenantListCache = tenantsList, or nil when the cleaner assigns it.
Stores(x) == x \in Callers => pc[x] = "storing"
StoredPtr(x) == IF x = Cleaner THEN Nil ELSE newList[x]
StoredLen(x) == IF x = Cleaner THEN 0 ELSE Len(Elements(newList[x]))

StorePtr(x) ==
  /\ Stores(x)
  /\ "ptr" \in words[x]
  /\ cachePtr' = StoredPtr(x)
  /\ words' = [words EXCEPT ![x] = @ \ {"ptr"}]
  /\ UNCHANGED <<tmVars, cacheLen, pc, callVars, viewVars, newList, rcVars>>

StoreLen(x) ==
  /\ Stores(x)
  /\ "len" \in words[x]
  /\ cacheLen' = StoredLen(x)
  /\ words' = [words EXCEPT ![x] = @ \ {"len"}]
  /\ UNCHANGED <<tmVars, cachePtr, pc, callVars, viewVars, newList, rcVars>>

\* GetTenantsList returned its own list: that one decides, not the cache.
Decides(c) ==
  /\ pc[c] = "storing"
  /\ words[c] = {}
  /\ pc' = [pc EXCEPT ![c] = IF tenantId[c] \in Listed(newList[c])
                             THEN "allowed" ELSE "denied"]
  /\ newList' = [newList EXCEPT ![c] = Nil]
  /\ UNCHANGED <<tmVars, cacheVars, callVars, viewVars, words, rcVars>>

\* The handler takes the result; the goroutine is free for another request.
Reply(c) ==
  /\ pc[c] \in Outcomes
  /\ pc' = [pc EXCEPT ![c] = "idle"]
  /\ tenantId' = [tenantId EXCEPT ![c] = Nil]
  /\ start' = [start EXCEPT ![c] = 0]
  /\ RC!Forget(c)
  /\ UNCHANGED <<tmVars, cacheVars, viewVars, newList, words>>

-----------------------------------------------------------------------------

\* Mutant: the cleaner and the requests exclude each other by a lock that a
\* request holds while it waits for tenant-manager.
CleanCacheJobLocks ==
  /\ \A c \in Callers : pc[c] = "idle"
  /\ words[Cleaner] = {}
  /\ words' = [words EXCEPT ![Cleaner] = SliceWords]
  /\ UNCHANGED <<tmVars, cacheVars, pc, callVars, viewVars, newList, rcVars>>

\* A tick of BackgroundCleanJob: CleanCacheJob begins its assignment.
CleanCacheJob ==
  /\ words[Cleaner] = {}
  /\ words' = [words EXCEPT ![Cleaner] = SliceWords]
  /\ UNCHANGED <<tmVars, cacheVars, pc, callVars, viewVars, newList, rcVars>>

\* A tenant is created or deleted in tenant-manager.
TmChanges ==
  /\ tmVersion < MaxVersion
  /\ tmVersion' = tmVersion + 1
  /\ UNCHANGED <<tmHistory, tmBase, cacheVars, localVars, rcVars>>

\* The process dies, of a fault or of a redeployment, and starts again.
Restart ==
  /\ tmBase' = tmVersion
  /\ cachePtr' = Nil
  /\ cacheLen' = 0
  /\ pc' = [c \in Callers |-> "idle"]
  /\ tenantId' = [c \in Callers |-> Nil]
  /\ start' = [c \in Callers |-> 0]
  /\ viewPtr' = [c \in Callers |-> Nil]
  /\ viewLen' = [c \in Callers |-> 0]
  /\ newList' = [c \in Callers |-> Nil]
  /\ words' = [x \in Writers |-> {}]
  /\ RC!RcRestart
  /\ UNCHANGED <<tmHistory, tmVersion>>

Steps(c) ==
  \/ \E t \in Tenants : CheckTenantIdExist(c, t)
  \/ LoadPtr(c) \/ LoadLen(c)
  \/ Hit(c) \/ Strays(c) \/ Miss(c)
  \/ TmAnswers(c) \/ CallFails(c) \/ CallReturns(c)
  \/ GetTenantsListFails(c) \/ GetTenantsListParses(c)
  \/ StorePtr(c) \/ StoreLen(c)
  \/ Decides(c)
  \/ Reply(c)

Cleaning == CleanCacheJob \/ StorePtr(Cleaner) \/ StoreLen(Cleaner)

Next ==
  \/ \E c \in Callers : Steps(c)
  \/ BufferReused
  \/ Cleaning
  \/ TmChanges
  \/ Restart

Spec == Init /\ [][Next]_vars

\* The ticker never stops, and the cleaner waits for nobody.
FairSpec == Spec /\ WF_vars(Cleaning)

-----------------------------------------------------------------------------

TypeOK ==
  /\ tmHistory \in Timelines
  /\ tmVersion \in Versions
  /\ tmBase \in 0..tmVersion
  /\ cachePtr \in Lists \cup {Nil}
  /\ cacheLen \in Nat
  /\ pc \in [Callers -> {"idle", "loading", "asking", "storing"} \cup Outcomes]
  /\ tenantId \in [Callers -> Tenants \cup {Nil}]
  /\ start \in [Callers -> 0..tmVersion]
  /\ viewPtr \in [Callers -> Lists \cup {Nil}]
  /\ viewLen \in [Callers -> Nat]
  /\ newList \in [Callers -> Lists \cup {Nil}]
  /\ words \in [Writers -> SUBSET SliceWords]
  /\ RC!RcTypeOK

\* A tenant is admitted only if tenant-manager has listed it at some moment
\* since this process started, however old the cache and whatever became of
\* the response: CheckTenantIdExist returning nil rests on one list that
\* tenant-manager really had.  (Short of a torn copy whose loop leaves the
\* array and takes a string out there for the tenant: Strays.  It comes of two
\* lists of different lengths, so it takes a list that grew or shrank since
\* the process started, or one parsed from overwritten bytes.)
AdmittedWasListed ==
  \A c \in Callers :
     /\ pc[c] = "allowed" =>
           \E v \in tmBase..tmVersion : tenantId[c] \in Listed(v)
     /\ pc[c] = "strayed" => LengthsDiffer

\* A tenant is refused as not existing only if it was missing from the list
\* at some moment of that very request: no cache, old or half written, and no
\* list fetched by an earlier request can make an existing tenant unknown,
\* which is why CheckTenantIdExist asks again before it refuses.  (Short of
\* the response's bytes being overwritten before they are parsed.)
DeniedWasAbsent ==
  \A c \in Callers : pc[c] = "denied" =>
     \/ \E v \in start[c]..tmVersion : tenantId[c] \notin Listed(v)
     \/ rcReused[c]

\* With no assignment of tenantListCache under way, its pointer and its length
\* belong to one list, as TestGetTenantsList_GotTenantsList and
\* TestCleanCacheJob expect of GetTenantsFromCache.
QuiescentCacheIsWhole ==
  (\A x \in Writers : Stores(x) => words[x] = {}) =>
     cacheLen = (IF cachePtr = Nil THEN 0 ELSE Len(Elements(cachePtr)))

\* A deleted tenant is forgotten: once tenant-manager has stopped listing it
\* for good, the cache stops showing it for good.  A request that was waiting
\* for its answer may put the old list back after a cleaning; the next
\* cleaning takes it away, and no request, however long it hangs, can keep
\* the cleaner from running.
DeletedTenantForgotten ==
  \A t \in Tenants :
     <>[](t \notin Listed(tmVersion))
        => <>[](cachePtr # Nil => t \notin Listed(cachePtr))

\* The tenant check keeps the promise of MembershipCheck.
Unlisted(vs) == {t \in Tenants : \E v \in vs : t \notin Listed(v)}
Promised == INSTANCE MembershipCheck WITH
  Items <- Tenants,
  StrayItems <- Tenants,
  listed <- Listed(tmVersion),
  ever <- UNION {Listed(v) : v \in tmBase..tmVersion},
  state <- [c \in Callers |-> IF pc[c] \in {"loading", "asking", "storing"}
                              THEN "asking" ELSE pc[c]],
  item <- tenantId,
  absent <- [c \in Callers |->
     IF pc[c] = "idle" THEN {}
     ELSE IF rcReused[c] THEN Tenants
     ELSE Unlisted(start[c]..tmVersion)]
KeepsThePromise == Promised!Spec
=============================================================================
