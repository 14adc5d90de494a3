------------------------- MODULE ControlPlaneClient -------------------------
(***************************************************************************)
(* The namespace checks (service/security_service.go,                      *)
(* CheckNamespaceIsolation and CheckNamespaceFromClassifier, the same code *)
(* but for its messages) over the control-plane client and its cache       *)
(* (client/control_plane_client.go).                                       *)
(*                                                                         *)
(* The roles of call and cache are the reverse of TenantManagerClient:     *)
(* control-plane is asked every time, and the structure it last sent to    *)
(* anyone stands in when it cannot be asked.  The cache is one pointer,    *)
(* replaced in one store, and nothing ever clears it.                      *)
(*                                                                         *)
(* As there, a structure is named by the version it came from; of its      *)
(* baseline and satellites only the set of namespaces matters.             *)
(***************************************************************************)
EXTENDS Integers

CONSTANTS Callers,     \* the goroutines serving requests
          Namespaces,  \* the namespaces with a name
          Empty,       \* the empty string
          Own,         \* the namespace of this dbaas-agent
          MaxVersion,  \* bound: how often the composite structure changes
          Timelines,   \* the histories of that structure to consider
          Garbage,     \* a body that does not unmarshal into CompositeStructure
          Blank,       \* one that does, with neither of its fields
          Nil

Versions == 0..MaxVersion
Structures == Versions \cup {Blank}
Names == Namespaces \cup {Empty}

ASSUME CpAssumption ==
  /\ MaxVersion \in Nat
  /\ Timelines \subseteq [Versions -> SUBSET Names]
  /\ Own \in Namespaces
  /\ Empty \notin Namespaces
  /\ Nil \notin Structures \cup {Garbage} \cup Names
  /\ Garbage \notin Structures
  /\ Blank \notin Versions

VARIABLES cpHistory,  \* cpHistory[v]: the namespaces of version v
          cpVersion,  \* the version control-plane holds now
          cpBase,     \* the version it held when this process started
          isolation,  \* namespaceIsolationEnabled
          compositeStructureCache,
          pc,         \* where a request is in its check
          namespace,  \* the argument of the check
          start,      \* the version at the call
          structure,  \* compositeStructure, of a call that was answered
          fellBack,   \* it was not answered: the cache stands in
          rcPc, rcResp, rcReused

cpVars == <<cpHistory, cpVersion, cpBase, isolation>>
callVars == <<namespace, start>>
rcVars == <<rcPc, rcResp, rcReused>>
localVars == <<pc, callVars, structure, fellBack>>
vars == <<cpVars, compositeStructureCache, localVars, rcVars>>

RC == INSTANCE RestClient WITH Bodies <- Versions \cup {Garbage},
                               ForeignBodies <- {Garbage, Blank}

\* A structure without fields has the empty string for its baseline.
Members(l) == IF l = Blank THEN {Empty} ELSE cpHistory[l]

\* containsInCompositePlatform, as the end of a check.
Verdict(l, ns) == IF ns \in Members(l) THEN "allowed" ELSE "denied"

Init ==
  /\ cpHistory \in Timelines
  /\ cpVersion = 0
  /\ cpBase = 0
  /\ isolation \in BOOLEAN
  /\ compositeStructureCache = Nil
  /\ pc = [c \in Callers |-> "idle"]
  /\ namespace = [c \in Callers |-> Nil]
  /\ start = [c \in Callers |-> 0]
  /\ structure = [c \in Callers |-> Nil]
  /\ fellBack = [c \in Callers |-> FALSE]
  /\ RC!RcInit

-----------------------------------------------------------------------------

Calls(c, ns) ==
  /\ pc[c] = "idle"
  /\ namespace' = [namespace EXCEPT ![c] = ns]
  /\ start' = [start EXCEPT ![c] = cpVersion]

\* The agent's own namespace, or any when isolation is off.
Exempt(c, ns) ==
  /\ ~isolation \/ ns = Own
  /\ Calls(c, ns)
  /\ pc' = [pc EXCEPT ![c] = "exempt"]
  /\ UNCHANGED <<cpVars, compositeStructureCache, structure, fellBack, rcVars>>

\* Mutant: a structure in the cache spares the call.
CheckNamespaceCached(c, ns) ==
  /\ isolation
  /\ ns # Own
  /\ Calls(c, ns)
  /\ IF compositeStructureCache = Nil
     THEN /\ pc' = [pc EXCEPT ![c] = "asking"]
          /\ RC!Send(c) \/ RC!BuildFails(c)
          /\ UNCHANGED structure
     ELSE /\ pc' = [pc EXCEPT ![c] = "storing"]
          /\ structure' = [structure EXCEPT ![c] = compositeStructureCache]
          /\ UNCHANGED rcVars
  /\ UNCHANGED <<cpVars, compositeStructureCache, fellBack>>

\* Any other one: GetCompositeStructure asks control-plane.
CheckNamespace(c, ns) ==
  /\ isolation
  /\ ns # Own
  /\ Calls(c, ns)
  /\ pc' = [pc EXCEPT ![c] = "asking"]
  /\ RC!Send(c) \/ RC!BuildFails(c)
  /\ UNCHANGED <<cpVars, compositeStructureCache, structure, fellBack>>

\* control-plane answers with the structure it holds, with an error, or with
\* something that is no structure at all.
CpAnswers(c) ==
  /\ \/ RC!Answer(c, RC!StatusOK, cpVersion)
     \/ RC!Answer(c, RC!StatusOK, Garbage)
     \/ RC!Answer(c, RC!StatusError, Garbage)
  /\ UNCHANGED <<cpVars, compositeStructureCache, localVars>>

CallFails(c) ==
  /\ RC!ConnectionFails(c)
  /\ UNCHANGED <<cpVars, compositeStructureCache, localVars>>

CallReturns(c) ==
  /\ \E S \in SUBSET RC!Exposed : RC!Return(c, S)
  /\ UNCHANGED <<cpVars, compositeStructureCache, localVars>>

\* A response of the forwarder is read into a buffer that is still parsed.
BufferReused ==
  /\ \E S \in SUBSET RC!Exposed \ {{}}, body \in {Garbage, Blank} :
        RC!ForeignRead(S, body)
  /\ UNCHANGED <<cpVars, compositeStructureCache, localVars>>

\* Mutant: the error of Unmarshal is dropped.
ParsedAnyhow(c) == rcResp[c].code = RC!StatusOK

Parsed(c) ==
  /\ rcResp[c].code = RC!StatusOK
  /\ rcResp[c].body \in Structures

\* Mutant: concurrent calls share the answer of one of them.
ParsesShared(c) ==
  /\ pc[c] = "asking"
  /\ Parsed(c)
  /\ RC!Done(c)
  /\ pc' = [pc EXCEPT ![c] = "storing"]
  /\ \E d \in Callers :
        /\ Parsed(d)
        /\ structure' = [structure EXCEPT ![c] = rcResp[d].body]
  /\ UNCHANGED <<cpVars, compositeStructureCache, callVars, fellBack>>

GetCompositeStructureParses(c) ==
  /\ pc[c] = "asking"
  /\ Parsed(c)
  /\ RC!Done(c)
  /\ pc' = [pc EXCEPT ![c] = "storing"]
  /\ structure' = [structure EXCEPT ![c] = rcResp[c].body]
  /\ UNCHANGED <<cpVars, compositeStructureCache, callVars, fellBack>>

\* Mutant: the cache is read again for the decision, but before it is replaced.
StoresAndDecidesByCache(c) ==
  /\ pc[c] = "storing"
  /\ compositeStructureCache' = structure[c]
  /\ pc' = [pc EXCEPT ![c] =
               Verdict(IF compositeStructureCache = Nil
                       THEN structure[c] ELSE compositeStructureCache,
                       namespace[c])]
  /\ structure' = [structure EXCEPT ![c] = Nil]
  /\ UNCHANGED <<cpVars, callVars, fellBack, rcVars>>

\* The structure replaces the one in the cache, whichever of the two is the
\* younger, and decides (which concerns this goroutine alone).
StoresAndDecides(c) ==
  /\ pc[c] = "storing"
  /\ compositeStructureCache' = structure[c]
  /\ pc' = [pc EXCEPT ![c] = Verdict(structure[c], namespace[c])]
  /\ structure' = [structure EXCEPT ![c] = Nil]
  /\ UNCHANGED <<cpVars, callVars, fellBack, rcVars>>

\* An error, an unexpected code or an unparseable body.
GetCompositeStructureFails(c) ==
  /\ pc[c] = "asking"
  /\ ~Parsed(c)
  /\ RC!Done(c)
  /\ pc' = [pc EXCEPT ![c] = "falling"]
  /\ fellBack' = [fellBack EXCEPT ![c] = TRUE]
  /\ UNCHANGED <<cpVars, compositeStructureCache, callVars, structure>>

\* GetCompositeStructureFromCache, read after the call has failed.
FallsBack(c) ==
  /\ pc[c] = "falling"
  /\ compositeStructureCache # Nil
  /\ pc' = [pc EXCEPT ![c] = Verdict(compositeStructureCache, namespace[c])]
  /\ UNCHANGED <<cpVars, compositeStructureCache, callVars, structure, fellBack,
                 rcVars>>

\* Mutant: without any structure nothing is forbidden.
NothingForbids(c) ==
  /\ pc[c] = "falling"
  /\ compositeStructureCache = Nil
  /\ pc' = [pc EXCEPT ![c] = "allowed"]
  /\ UNCHANGED <<cpVars, compositeStructureCache, callVars, structure, fellBack,
                 rcVars>>

\* control-plane has never answered this process.
NothingToFallBackOn(c) ==
  /\ pc[c] = "falling"
  /\ compositeStructureCache = Nil
  /\ pc' = [pc EXCEPT ![c] = "failed"]
  /\ UNCHANGED <<cpVars, compositeStructureCache, callVars, structure, fellBack,
                 rcVars>>

\* The handler takes the result; the goroutine is free for another check.
Reply(c) ==
  /\ pc[c] \in {"exempt", "allowed", "denied", "failed"}
  /\ pc' = [pc EXCEPT ![c] = "idle"]
  /\ namespace' = [namespace EXCEPT ![c] = Nil]
  /\ start' = [start EXCEPT ![c] = 0]
  /\ fellBack' = [fellBack EXCEPT ![c] = FALSE]
  /\ RC!Forget(c)
  /\ UNCHANGED <<cpVars, compositeStructureCache, structure>>

-----------------------------------------------------------------------------

\* A namespace joins or leaves the composite platform.
CpChanges ==
  /\ cpVersion < MaxVersion
  /\ cpVersion' = cpVersion + 1
  /\ UNCHANGED <<cpHistory, cpBase, isolation, compositeStructureCache, localVars,
                 rcVars>>

\* The process dies and starts again, with the configuration it had.
Restart ==
  /\ cpBase' = cpVersion
  /\ compositeStructureCache' = Nil
  /\ pc' = [c \in Callers |-> "idle"]
  /\ namespace' = [c \in Callers |-> Nil]
  /\ start' = [c \in Callers |-> 0]
  /\ structure' = [c \in Callers |-> Nil]
  /\ fellBack' = [c \in Callers |-> FALSE]
  /\ RC!RcRestart
  /\ UNCHANGED <<cpHistory, cpVersion, isolation>>

Steps(c) ==
  \/ \E ns \in Names : Exempt(c, ns) \/ CheckNamespace(c, ns)
  \/ CpAnswers(c) \/ CallFails(c) \/ CallReturns(c)
  \/ GetCompositeStructureParses(c) \/ StoresAndDecides(c)
  \/ GetCompositeStructureFails(c) \/ FallsBack(c) \/ NothingToFallBackOn(c)
  \/ Reply(c)

Next ==
  \/ \E c \in Callers : Steps(c)
  \/ BufferReused
  \/ CpChanges
  \/ Restart

Spec == Init /\ [][Next]_vars

-----------------------------------------------------------------------------

TypeOK ==
  /\ cpHistory \in Timelines
  /\ cpVersion \in Versions
  /\ cpBase \in 0..cpVersion
  /\ isolation \in BOOLEAN
  /\ compositeStructureCache \in Structures \cup {Nil}
  /\ pc \in [Callers -> {"idle", "exempt", "asking", "storing", "falling",
                         "allowed", "denied", "failed"}]
  /\ namespace \in [Callers -> Names \cup {Nil}]
  /\ start \in [Callers -> 0..cpVersion]
  /\ structure \in [Callers -> Structures \cup {Nil}]
  /\ fellBack \in [Callers -> BOOLEAN]
  /\ RC!RcTypeOK

\* A named namespace other than the agent's own is admitted only if it has been
\* part of the composite platform at some moment since this process started,
\* also when an old structure stands in for control-plane's answer.
AdmittedWasMember ==
  \A c \in Callers : pc[c] = "allowed" /\ namespace[c] # Empty =>
     \E v \in cpBase..cpVersion : namespace[c] \in Members(v)

\* While control-plane answers, the cache has no say: the namespace was in the
\* platform, or out of it, at some moment of that very check.  Neither what
\* others have put into the cache nor how long ago matters.  (Short of
\* overwritten bytes.)
AnsweredVerdictIsFresh ==
  \A c \in Callers : ~fellBack[c] /\ ~rcReused[c] =>
     /\ pc[c] = "allowed" =>
           \E v \in start[c]..cpVersion : namespace[c] \in Members(v)
     /\ pc[c] = "denied" =>
           \E v \in start[c]..cpVersion : namespace[c] \notin Members(v)

\* The cache may go back to an older structure, for answers can be stored in
\* another order than they were given, but only by a check that was under way
\* before the younger one was published: it never goes back across a quiet
\* moment.  (Short of overwritten bytes.)
StepsBackOnlyUnderOverlap ==
  [][\A c \in Callers :
       StoresAndDecides(c) /\ {compositeStructureCache, structure[c]} \subseteq Versions
                           /\ structure[c] < compositeStructureCache
          => start[c] < compositeStructureCache \/ rcReused[c]]_vars

\* "It's allowed only for composite platform": what control-plane's own answer
\* admits, be it other than the agent's own, is a namespace of the platform (the
\* message of CheckNamespaceFromClassifier).  An answer whose bytes were
\* overwritten is not control-plane's, nor is the cache.
OnlyThePlatformIsAdmitted ==
  \A c \in Callers : pc[c] = "allowed" /\ ~fellBack[c] /\ ~rcReused[c] =>
     namespace[c] \in Namespaces

\* The namespace checks that ask control-plane keep the promise of
\* MembershipCheck.
Outside(vs) == {ns \in Names : \E v \in vs : ns \notin Members(v)}
Asked(c) == pc[c] \notin {"idle", "exempt"}
Promised == INSTANCE MembershipCheck WITH
  Items <- Names,
  StrayItems <- {Empty},
  listed <- Members(cpVersion),
  ever <- UNION {Members(v) : v \in cpBase..cpVersion},
  state <- [c \in Callers |->
     IF pc[c] = "exempt" THEN "idle"
     ELSE IF pc[c] \in {"storing", "falling"} THEN "asking"
     ELSE IF pc[c] = "allowed" /\ namespace[c] = Empty THEN "strayed"
     ELSE pc[c]],
  item <- [c \in Callers |-> IF Asked(c) THEN namespace[c] ELSE Nil],
  absent <- [c \in Callers |->
     IF ~Asked(c) THEN {}
     ELSE IF fellBack[c] \/ rcReused[c] THEN Names
     ELSE Outside(start[c]..cpVersion)]
KeepsThePromise == Promised!Spec
=============================================================================
