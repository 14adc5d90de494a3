-------------------------- MODULE ControllerProofs --------------------------
(***************************************************************************)
(* Theorems about Controller.  The invariant says, goroutine by goroutine, *)
(* what each stage of a handler has established once the request has       *)
(* passed it, what a check under way is about, and what an exchange with   *)
(* dbaas-aggregator is for.                                                *)
(***************************************************************************)
EXTENDS Controller, TLAPS

StageOf(c) == Stages(request[c].route)[stage[c]]

\* The exception of the registration's handler.
SkipsTenant(r) == r.route = "register" /\ r.tenant = Empty

\* What is known of a request that has passed this stage.
Established(c, name) ==
  /\ name = "read" => request[c].body \in Objects \cup {NoBody}
  /\ name = "tenant" /\ ~SkipsTenant(request[c])
       /\ TenantFromBody(request[c].body) \in Tenants =>
          /\ TenantFromBody(request[c].body) = request[c].tenant
          /\ TenantFromBody(request[c].body) \in tmEver \/ c \in strayed
  /\ name = "path" /\ isolation => request[c].path \in cpEver \cup {Own}
  /\ name = "classifier" /\ isolation =>
          GetNamespaceFromClassifier(Classifier(c)) \in cpEver \cup {Own, Empty}
  /\ name = "origin" =>
          /\ originService[c] = Classifier(c).microserviceName
          /\ originService[c] \in Services

PassedIsEstablished(c) ==
  pc[c] # "idle" => \A k \in 1..(stage[c] - 1) :
                       Established(c, Stages(request[c].route)[k])

\* A check is under way only for the stage that waits for it, and what it
\* asks for is what the stage is about.
AsksForItsStage(c) ==
  /\ tmState[c] # "idle" =>
        /\ pc[c] = "asking" /\ StageOf(c) = "tenant"
        /\ tmItem[c] = request[c].tenant
        /\ tmItem[c] = TenantFromBody(request[c].body)
  /\ cpState[c] # "idle" =>
        /\ pc[c] = "asking"
        /\ \/ StageOf(c) = "path" /\ cpItem[c] = request[c].path
           \/ /\ StageOf(c) = "classifier"
              /\ cpItem[c] = GetNamespaceFromClassifier(Classifier(c))

AdmittedHasReason(c) ==
  /\ tmState[c] = "allowed" => tmItem[c] \in tmEver
  /\ cpState[c] = "allowed" => cpItem[c] \in cpEver
  /\ cpState[c] = "strayed" => cpItem[c] = Empty

\* There is an exchange only for what a request forwards at its last stage.
ForwardsAtTheEnd(c) ==
  /\ pc[c] = "forwarding" => agState[c] = "asked"
  /\ agState[c] # "idle" => pc[c] \in {"forwarding", "answered"}
  /\ agState[c] = "idle" => agReached[c] = {}
  /\ forwarded[c] # Nil => /\ pc[c] \in {"forwarding", "answered"}
                           /\ StageOf(c) = "forward"
                           /\ forwarded[c].originService = originService[c]

\* AnswerTellsTheOutcome and WellFormedNeverPanics, of one goroutine.
AnswersTruly(c) ==
  pc[c] = "answered" =>
     /\ response[c].by = "aggregator" \/ response[c].code = NotFound =>
           response[c].code \in agReached[c]
     /\ response[c].by = "agent" /\ response[c].code \in {BadRequest, Forbidden} =>
           agState[c] = "idle" /\ agReached[c] = {} /\ forwarded[c] = Nil

PanicsForAReason(c) == pc[c] = "panicked" => ~WellFormed(request[c].body)

CallerInv(c) ==
  /\ PassedIsEstablished(c)
  /\ AsksForItsStage(c)
  /\ AdmittedHasReason(c)
  /\ ForwardsAtTheEnd(c)
  /\ AnswersTruly(c)
  /\ PanicsForAReason(c)

IInv == TypeOK /\ \A c \in Callers : CallerInv(c)

-----------------------------------------------------------------------------

\* The handlers, as far as the proofs look at them.
Pipeline(seq) ==
  /\ Len(seq) \in Nat \ {0}
  /\ \A k \in 1..Len(seq) : seq[k] = "forward" <=> k = Len(seq)
  /\ \A k \in 1..Len(seq) :
        seq[k] \in {"body", "tenant", "classifier", "origin"} =>
           k > 1 /\ seq[1] = "read"

LEMMA HandlersArePipelines ==
  ASSUME NEW route \in Routes
  PROVE  Pipeline(Stages(route))
<1>1. Pipeline(HandleGetOrCreateDatabaseV3)
  BY DEF Pipeline, HandleGetOrCreateDatabaseV3
<1>2. Pipeline(HandleGettingConnectionByClassifierV3)
  BY DEF Pipeline, HandleGettingConnectionByClassifierV3
<1>3. Pipeline(HandleDeletionByClassifier)
  BY DEF Pipeline, HandleDeletionByClassifier
<1>4. Pipeline(HandleRegistrationExternallyManageableDBV3)
  BY DEF Pipeline, HandleRegistrationExternallyManageableDBV3
<1>5. Pipeline(HandleGettingAllDatabasesByNamespaceV3)
  BY DEF Pipeline, HandleGettingAllDatabasesByNamespaceV3
<1>6. Pipeline(<<"forward">>)
  BY DEF Pipeline
<1> QED
  BY <1>1, <1>2, <1>3, <1>4, <1>5, <1>6
  DEF Stages, Routes, DatabaseRoutes, OpenRoutes, HandleGettingPhysicalDatabases,
      ForwardHandler, HandleGetHealth

\* Which stages a request that comes to be forwarded has passed.
LEMMA PassedByRoute ==
  ASSUME NEW route \in Routes, NEW k \in 1..Len(Stages(route)),
         Stages(route)[k] = "forward"
  PROVE  LET Passed(name) == \E j \in 1..(k - 1) : Stages(route)[j] = name
         IN  /\ route \notin OpenRoutes => Passed("path")
             /\ route \in DatabaseRoutes => Passed("origin")
             /\ route \in DatabaseRoutes \ {"delete"} =>
                   Passed("tenant") /\ Passed("classifier")
<1> DEFINE Has(seq, name) == \E j \in 1..(Len(seq) - 1) : seq[j] = name
<1>1. k = Len(Stages(route))
  BY HandlersArePipelines DEF Pipeline
<1>2. \A name \in {"path", "origin", "tenant", "classifier"} :
         Has(HandleGetOrCreateDatabaseV3, name)
  <2> DEFINE seq == HandleGetOrCreateDatabaseV3
  <2>1. /\ Len(seq) = 7 /\ seq[3] = "tenant" /\ seq[4] = "path"
        /\ seq[5] = "classifier" /\ seq[6] = "origin"
    BY DEF HandleGetOrCreateDatabaseV3
  <2> QED
    BY <2>1
<1>3. \A name \in {"path", "origin", "tenant", "classifier"} :
         Has(HandleGettingConnectionByClassifierV3, name)
  <2> DEFINE seq == HandleGettingConnectionByClassifierV3
  <2>1. /\ Len(seq) = 6 /\ seq[2] = "tenant" /\ seq[3] = "path"
        /\ seq[4] = "classifier" /\ seq[5] = "origin"
    BY DEF HandleGettingConnectionByClassifierV3
  <2> QED
    BY <2>1
<1>4. \A name \in {"path", "origin", "tenant", "classifier"} :
         Has(HandleRegistrationExternallyManageableDBV3, name)
  <2> DEFINE seq == HandleRegistrationExternallyManageableDBV3
  <2>1. /\ Len(seq) = 6 /\ seq[2] = "tenant" /\ seq[3] = "path"
        /\ seq[4] = "classifier" /\ seq[5] = "origin"
    BY DEF HandleRegistrationExternallyManageableDBV3
  <2> QED
    BY <2>1
<1>5. \A name \in {"path", "origin"} :
         Has(HandleDeletionByClassifier, name)
  <2> DEFINE seq == HandleDeletionByClassifier
  <2>1. Len(seq) = 4 /\ seq[2] = "origin" /\ seq[3] = "path"
    BY DEF HandleDeletionByClassifier
  <2> QED
    BY <2>1
<1>6. Has(HandleGettingAllDatabasesByNamespaceV3, "path")
  <2> DEFINE seq == HandleGettingAllDatabasesByNamespaceV3
  <2>1. Len(seq) = 2 /\ seq[1] = "path"
    BY DEF HandleGettingAllDatabasesByNamespaceV3
  <2> QED
    BY <2>1
<1>7. \A name \in {"path", "origin", "tenant", "classifier"} :
         Has(Stages(route), name) => \E j \in 1..(k - 1) : Stages(route)[j] = name
  BY <1>1
<1> HIDE DEF Has
<1>8. CASE route = "getOrCreate"
  <2>1. Stages(route) = HandleGetOrCreateDatabaseV3
    BY <1>8 DEF Stages
  <2> QED
    BY <1>2, <1>7, <1>8, <2>1 DEF DatabaseRoutes, OpenRoutes
<1>9. CASE route = "getByClassifier"
  <2>1. Stages(route) = HandleGettingConnectionByClassifierV3
    BY <1>9 DEF Stages
  <2> QED
    BY <1>3, <1>7, <1>9, <2>1 DEF DatabaseRoutes, OpenRoutes
<1>10. CASE route = "register"
  <2>1. Stages(route) = HandleRegistrationExternallyManageableDBV3
    BY <1>10 DEF Stages
  <2> QED
    BY <1>4, <1>7, <1>10, <2>1 DEF DatabaseRoutes, OpenRoutes
<1>11. CASE route = "delete"
  <2>1. Stages(route) = HandleDeletionByClassifier
    BY <1>11 DEF Stages
  <2> QED
    BY <1>5, <1>7, <1>11, <2>1 DEF DatabaseRoutes, OpenRoutes
<1>12. CASE route = "list"
  <2>1. Stages(route) = HandleGettingAllDatabasesByNamespaceV3
    BY <1>12 DEF Stages
  <2> QED
    BY <1>6, <1>7, <1>12, <2>1 DEF DatabaseRoutes, OpenRoutes
<1>13. CASE route \in OpenRoutes
  BY <1>13 DEF DatabaseRoutes, OpenRoutes
<1> QED
  BY <1>8, <1>9, <1>10, <1>11, <1>12, <1>13 DEF Routes, DatabaseRoutes

\* What the readers of a body return.
LEMMA TenantFromBodyFacts ==
  ASSUME NEW body \in Objects \cup {NoBody}
  PROVE  TenantFromBody(body) = "panic" => ~WellFormed(body)
BY RequestsAssumption
DEF TenantFromBody, WellFormed, Objects, Classifiers, JsonOddities

LEMMA NamespaceFacts ==
  ASSUME NEW body \in Objects \cup {NoBody}
  PROVE  /\ GetNamespaceFromClassifier(ClassifierOf(body))
                \in Namespaces \cup {Empty, "panic", "error"}
         /\ GetNamespaceFromClassifier(ClassifierOf(body)) = "panic"
                => ~WellFormed(body)
<1> DEFINE cl == ClassifierOf(body)
<1>1. cl \in Classifiers \cup JsonOddities
  BY DEF ClassifierOf, Objects, JsonOddities
<1>2. WellFormed(body) => cl \in Classifiers
  BY RequestsAssumption DEF ClassifierOf, WellFormed
<1> HIDE DEF cl
<1>3. CASE cl \in JsonOddities
  BY <1>2, <1>3, RequestsAssumption
  DEF GetNamespaceFromClassifier, JsonOddities, cl
<1>4. CASE cl \in Classifiers
  <2>1. cl \notin JsonOddities
    BY <1>4, RequestsAssumption
  <2>2. GetNamespaceFromClassifier(cl)
          = IF cl.namespace \in JsonOddities THEN "error" ELSE cl.namespace
    BY <1>4, <2>1 DEF GetNamespaceFromClassifier, JsonOddities
  <2>3. cl.namespace \in Namespaces \cup {Empty} \cup JsonOddities
    BY <1>4 DEF Classifiers
  <2> QED
    BY <2>2, <2>3, RequestsAssumption DEF cl
<1> QED
  BY <1>1, <1>3, <1>4

LEMMA ServiceNameFacts ==
  ASSUME NEW body \in Objects \cup {NoBody}
  PROVE  /\ GetServiceName(ClassifierOf(body)) = "panic" => ~WellFormed(body)
         /\ GetServiceName(ClassifierOf(body)) \in Services =>
               GetServiceName(ClassifierOf(body))
                  = ClassifierOf(body).microserviceName
<1> DEFINE cl == ClassifierOf(body)
<1>1. cl \in Classifiers \cup JsonOddities
  BY DEF ClassifierOf, Objects, JsonOddities
<1>2. WellFormed(body) => /\ cl \in Classifiers
                          /\ cl.microserviceName \notin {Null, Other}
  BY RequestsAssumption DEF ClassifierOf, WellFormed
<1> HIDE DEF cl
<1>3. CASE cl \in JsonOddities
  BY <1>2, <1>3, RequestsAssumption DEF GetServiceName, JsonOddities, cl
<1>4. CASE cl \in Classifiers
  <2>1. cl \notin JsonOddities
    BY <1>4, RequestsAssumption
  <2>2. GetServiceName(cl)
          = CASE cl.microserviceName = Absent -> "error"
              [] cl.microserviceName \in {Null, Other} -> "panic"
              [] OTHER -> cl.microserviceName
    BY <1>4, <2>1 DEF GetServiceName, JsonOddities
  <2>3. cl.microserviceName \in Services \cup {Empty} \cup JsonOddities
    BY <1>4 DEF Classifiers
  <2> QED
    BY <1>2, <2>2, <2>3, RequestsAssumption DEF cl, JsonOddities
<1> QED
  BY <1>1, <1>3, <1>4

-----------------------------------------------------------------------------

\* What a step of one goroutine leaves alone of another.
Local(d) == <<request[d], stage[d], pc[d], originService[d], forwarded[d],
              response[d], tmState[d], tmItem[d], cpState[d], cpItem[d],
              agState[d], agReached[d]>>

\* The lists of this process only grow, and that a goroutine's tenant strayed
\* in is not forgotten while it serves the request.
Grows(d) ==
  /\ tmEver \subseteq tmEver' /\ cpEver \subseteq cpEver'
  /\ d \in strayed => d \in strayed'

LEMMA EstablishedStays ==
  ASSUME NEW c \in Callers, NEW name, Established(c, name), Grows(c),
         isolation' = isolation, request'[c] = request[c],
         originService'[c] = originService[c]
  PROVE  Established(c, name)'
BY DEF Established, Grows, Classifier

LEMMA CallerInvStays ==
  ASSUME NEW d \in Callers, CallerInv(d), Grows(d), isolation' = isolation,
         Local(d)' = Local(d)
  PROVE  CallerInv(d)'
<1> USE DEF Local
<1>1. PassedIsEstablished(d)'
  BY EstablishedStays DEF CallerInv, PassedIsEstablished
<1>2. AsksForItsStage(d)' /\ AdmittedHasReason(d)'
  BY DEF CallerInv, AsksForItsStage, AdmittedHasReason, StageOf, Classifier, Grows
<1>3. ForwardsAtTheEnd(d)' /\ AnswersTruly(d)' /\ PanicsForAReason(d)'
  BY DEF CallerInv, ForwardsAtTheEnd, AnswersTruly, PanicsForAReason, StageOf
<1> QED
  BY <1>1, <1>2, <1>3 DEF CallerInv

LEMMA OthersStay ==
  ASSUME NEW c \in Callers, IInv, TypeOK', CallerInv(c)',
         isolation' = isolation,
         \A d \in Callers \ {c} : Grows(d) /\ Local(d)' = Local(d)
  PROVE  IInv'
BY CallerInvStays DEF IInv

\* A request that is being served is one of Requests, at a stage of its handler.
LEMMA ServedRequest ==
  ASSUME NEW c \in Callers, TypeOK, pc[c] # "idle"
  PROVE  /\ request[c] \in Requests
         /\ stage[c] \in 1..Len(Stages(request[c].route))
         /\ Pipeline(Stages(request[c].route))
<1>1. request[c] \in Requests
  BY ControllerAssumption DEF TypeOK
<1>2. request[c].route \in Routes
  BY <1>1 DEF Requests
<1> QED
  BY <1>1, <1>2, HandlersArePipelines DEF TypeOK

\* The stages that look at the body come after the one that reads it.
LEMMA BodyHasBeenRead ==
  ASSUME NEW c \in Callers, IInv, pc[c] # "idle",
         StageOf(c) \in {"body", "tenant", "classifier", "origin"}
  PROVE  request[c].body \in Objects \cup {NoBody}
<1>1. stage[c] > 1 /\ Stages(request[c].route)[1] = "read"
  BY ServedRequest DEF IInv, Pipeline, StageOf
<1>2. 1 \in 1..(stage[c] - 1)
  BY <1>1, ServedRequest DEF IInv
<1>3. Established(c, "read")
  BY <1>1, <1>2 DEF IInv, CallerInv, PassedIsEstablished
<1> QED
  BY <1>3 DEF Established

-----------------------------------------------------------------------------

\* The three ways a stage ends.
LEMMA PassKeeps ==
  ASSUME NEW c \in Callers, NEW name, IInv, pc[c] \in {"working", "asking"},
         StageOf(c) = name, name # "forward",
         Pass(c), UNCHANGED unchangedByChecks, Grows(c),
         tmState'[c] = "idle", cpState'[c] = "idle",
         originService'[c] = originService[c] \/ name = "origin",
         Established(c, name)'
  PROVE  /\ CallerInv(c)'
         /\ stage'[c] \in 1..Len(Stages(request[c].route))
<1>0. /\ stage'[c] = stage[c] + 1 /\ pc'[c] = "working"
      /\ request' = request /\ isolation' = isolation
      /\ forwarded' = forwarded /\ agState' = agState /\ agReached' = agReached
  BY DEF Pass, IInv, TypeOK, unchangedByChecks, agVars
<1>1. stage[c] \in 1..Len(Stages(request[c].route)) /\ stage[c] # Len(Stages(request[c].route))
  BY ServedRequest DEF IInv, Pipeline, StageOf
<1>2. Len(Stages(request[c].route)) \in Nat
  BY ServedRequest DEF IInv, Pipeline
<1>3. stage'[c] \in 1..Len(Stages(request[c].route))
  BY <1>0, <1>1, <1>2
<1>4. PassedIsEstablished(c)'
  <2> SUFFICES ASSUME NEW k \in 1..(stage'[c] - 1), NEW n,
                      n = Stages(request[c].route)[k]
               PROVE  Established(c, n)'
    BY <1>0 DEF PassedIsEstablished, Established
  <2>1. CASE k = stage[c]
    <3>1. n = name
      BY <2>1 DEF StageOf
    <3> QED
      BY <3>1
  <2>2. CASE k # stage[c]
    <3>1. k \in 1..(stage[c] - 1)
      BY <1>0, <1>1, <1>2, <2>2
    <3>2. Established(c, n)
      BY <3>1 DEF IInv, CallerInv, PassedIsEstablished, Established
    <3>3. CASE originService'[c] = originService[c]
      BY <1>0, <3>2, <3>3, EstablishedStays
    <3>4. CASE name = "origin"
      BY <1>0, <3>2, <3>4 DEF Established, Grows, Classifier
    <3> QED
      BY <3>3, <3>4
  <2> QED
    BY <2>1, <2>2
<1>5. AsksForItsStage(c)' /\ AdmittedHasReason(c)'
  BY <1>0 DEF AsksForItsStage, AdmittedHasReason
<1>6. ForwardsAtTheEnd(c)' /\ AnswersTruly(c)' /\ PanicsForAReason(c)'
  BY <1>0 DEF IInv, CallerInv, ForwardsAtTheEnd, AnswersTruly, PanicsForAReason
<1> QED
  BY <1>3, <1>4, <1>5, <1>6 DEF CallerInv

LEMMA RefuseKeeps ==
  ASSUME NEW c \in Callers, NEW code \in {BadRequest, Forbidden, ServerError},
         IInv, pc[c] \in {"working", "asking"},
         Refuse(c, code), UNCHANGED unchangedByChecks, Grows(c),
         tmState'[c] = "idle", cpState'[c] = "idle",
         originService'[c] = originService[c]
  PROVE  CallerInv(c)'
<1>0. /\ stage'[c] = stage[c] /\ pc'[c] = "answered"
      /\ response'[c] = [by |-> "agent", code |-> code]
      /\ request' = request /\ isolation' = isolation
      /\ forwarded' = forwarded /\ agState' = agState /\ agReached' = agReached
  BY DEF Refuse, Respond, IInv, TypeOK, unchangedByChecks, agVars
<1>1. PassedIsEstablished(c)'
  BY <1>0, EstablishedStays DEF IInv, CallerInv, PassedIsEstablished
<1>2. AsksForItsStage(c)' /\ AdmittedHasReason(c)' /\ PanicsForAReason(c)'
  BY <1>0 DEF AsksForItsStage, AdmittedHasReason, PanicsForAReason
<1>3. forwarded[c] = Nil /\ agState[c] = "idle" /\ agReached[c] = {}
  BY DEF IInv, CallerInv, ForwardsAtTheEnd
<1>4. ForwardsAtTheEnd(c)' /\ AnswersTruly(c)'
  BY <1>0, <1>3
  DEF ForwardsAtTheEnd, AnswersTruly, BadRequest, Forbidden, ServerError, NotFound
<1> QED
  BY <1>1, <1>2, <1>4 DEF CallerInv

LEMMA PanicKeeps ==
  ASSUME NEW c \in Callers, IInv, pc[c] \in {"working", "asking"},
         ~WellFormed(request[c].body),
         Panic(c), UNCHANGED unchangedByChecks, Grows(c),
         tmState'[c] = "idle", cpState'[c] = "idle",
         originService'[c] = originService[c]
  PROVE  CallerInv(c)'
<1>0. /\ stage' = stage /\ pc'[c] = "panicked"
      /\ request' = request /\ isolation' = isolation
      /\ forwarded' = forwarded /\ agState' = agState /\ agReached' = agReached
  BY DEF Panic, IInv, TypeOK, unchangedByChecks, agVars
<1>1. PassedIsEstablished(c)'
  BY <1>0, EstablishedStays DEF IInv, CallerInv, PassedIsEstablished
<1>2. /\ AsksForItsStage(c)' /\ AdmittedHasReason(c)' /\ PanicsForAReason(c)'
      /\ AnswersTruly(c)'
  BY <1>0 DEF AsksForItsStage, AdmittedHasReason, PanicsForAReason, AnswersTruly
<1>3. ForwardsAtTheEnd(c)'
  BY <1>0 DEF IInv, CallerInv, ForwardsAtTheEnd
<1> QED
  BY <1>1, <1>2, <1>3 DEF CallerInv

\* A stage that begins a check, for what it is about.
LEMMA WaitKeeps ==
  ASSUME NEW c \in Callers, IInv, pc[c] = "working", pc'[c] = "asking",
         UNCHANGED <<stage, response, originService>>,
         UNCHANGED unchangedByChecks, Grows(c),
         AsksForItsStage(c)', AdmittedHasReason(c)'
  PROVE  CallerInv(c)'
<1>0. /\ request' = request /\ isolation' = isolation
      /\ forwarded' = forwarded /\ agState' = agState /\ agReached' = agReached
  BY DEF unchangedByChecks, agVars
<1>1. PassedIsEstablished(c)'
  BY <1>0, EstablishedStays DEF IInv, CallerInv, PassedIsEstablished
<1>2. ForwardsAtTheEnd(c)' /\ AnswersTruly(c)' /\ PanicsForAReason(c)'
  BY <1>0 DEF IInv, CallerInv, ForwardsAtTheEnd, AnswersTruly, PanicsForAReason
<1> QED
  BY <1>1, <1>2 DEF CallerInv

-----------------------------------------------------------------------------

\* The checks and the exchange, step by step.
LEMMA ChecksStay ==
  ASSUME TypeOK
  PROVE  /\ UNCHANGED tmCheckVars => TM!TypeOK' /\ tmEver' = tmEver
         /\ UNCHANGED tmVars => TM!TypeOK' /\ tmEver' = tmEver /\ strayed' = strayed
         /\ UNCHANGED cpVars => CP!TypeOK' /\ cpEver' = cpEver
         /\ UNCHANGED agVars => AG!TypeOK'
BY DEF TypeOK, TM!TypeOK, CP!TypeOK, AG!TypeOK, tmCheckVars, tmVars, cpVars, agVars

LEMMA TmAsks ==
  ASSUME NEW c \in Callers, NEW t \in Tenants, TypeOK, TM!Ask(c, t)
  PROVE  /\ TM!TypeOK' /\ tmEver' = tmEver
         /\ tmState'[c] = "asking" /\ tmItem'[c] = t
         /\ \A d \in Callers \ {c} : tmState'[d] = tmState[d] /\ tmItem'[d] = tmItem[d]
BY DEF TypeOK, TM!TypeOK, TM!Ask

LEMMA CpAsks ==
  ASSUME NEW c \in Callers, NEW ns \in (Namespaces \ {Own}) \cup {Empty}, TypeOK,
         CP!Ask(c, ns)
  PROVE  /\ CP!TypeOK' /\ cpEver' = cpEver
         /\ cpState'[c] = "asking" /\ cpItem'[c] = ns
         /\ \A d \in Callers \ {c} : cpState'[d] = cpState[d] /\ cpItem'[d] = cpItem[d]
BY DEF TypeOK, CP!TypeOK, CP!Ask

LEMMA TmReturns ==
  ASSUME NEW c \in Callers, TypeOK, TM!Return(c)
  PROVE  /\ TM!TypeOK' /\ tmEver' = tmEver /\ tmState'[c] = "idle"
         /\ \A d \in Callers \ {c} : tmState'[d] = tmState[d] /\ tmItem'[d] = tmItem[d]
BY DEF TypeOK, TM!TypeOK, TM!Return

LEMMA CpReturns ==
  ASSUME NEW c \in Callers, TypeOK, CP!Return(c)
  PROVE  /\ CP!TypeOK' /\ cpEver' = cpEver /\ cpState'[c] = "idle"
         /\ \A d \in Callers \ {c} : cpState'[d] = cpState[d] /\ cpItem'[d] = cpItem[d]
BY DEF TypeOK, CP!TypeOK, CP!Return

\* What goes on behind the checks gives no caller an answer without a reason.
LEMMA TmUpstreamKeeps ==
  ASSUME TypeOK, TM!Upstream
  PROVE  /\ TM!TypeOK' /\ tmEver \subseteq tmEver' /\ tmItem' = tmItem
         /\ \A c \in Callers :
               /\ tmState'[c] = "idle" <=> tmState[c] = "idle"
               /\ tmState'[c] # tmState[c] /\ tmState'[c] = "allowed" =>
                     tmItem[c] \in tmEver
<1> USE DEF TypeOK, TM!TypeOK
<1>1. CASE TM!Publish
  BY <1>1 DEF TM!Publish
<1>2. ASSUME NEW S \in SUBSET {c \in Callers : TM!Asking(c)}, TM!Misread(S)
      PROVE  UNCHANGED <<tmListed, tmEver, tmState, tmItem>> /\ TM!TypeOK'
  BY <1>2 DEF TM!Misread
<1>3. ASSUME NEW c \in Callers, TM!Allow(c) \/ TM!Deny(c) \/ TM!Fail(c) \/ TM!Stray(c)
      PROVE  /\ TM!TypeOK' /\ tmEver' = tmEver /\ tmItem' = tmItem
             /\ \A d \in Callers :
                   /\ tmState'[d] = "idle" <=> tmState[d] = "idle"
                   /\ tmState'[d] # tmState[d] /\ tmState'[d] = "allowed" =>
                         tmItem[d] \in tmEver
  <2>1. PICK result \in TM!Answers :
           /\ TM!Answer(c, result)
           /\ result = "allowed" => tmItem[c] \in tmEver
    BY <1>3 DEF TM!Allow, TM!Deny, TM!Fail, TM!Stray, TM!Answers
  <2>2. /\ tmState' = [tmState EXCEPT ![c] = result] /\ tmState[c] = "asking"
        /\ UNCHANGED <<tmListed, tmEver, tmItem, tmAbsent>>
    BY <2>1 DEF TM!Answer, TM!Asking
  <2> QED
    BY <2>1, <2>2 DEF TM!Answers
<1> QED
  BY <1>1, <1>2, <1>3 DEF TM!Upstream, TM!Publish

LEMMA CpUpstreamKeeps ==
  ASSUME TypeOK, CP!Upstream
  PROVE  /\ CP!TypeOK' /\ cpEver \subseteq cpEver' /\ cpItem' = cpItem
         /\ \A c \in Callers :
               /\ cpState'[c] = "idle" <=> cpState[c] = "idle"
               /\ cpState'[c] # cpState[c] =>
                     /\ cpState'[c] = "allowed" => cpItem[c] \in cpEver
                     /\ cpState'[c] = "strayed" => cpItem[c] = Empty
<1> USE DEF TypeOK, CP!TypeOK
<1>1. CASE CP!Publish
  BY <1>1 DEF CP!Publish
<1>2. ASSUME NEW S \in SUBSET {c \in Callers : CP!Asking(c)}, CP!Misread(S)
      PROVE  UNCHANGED <<cpListed, cpEver, cpState, cpItem>> /\ CP!TypeOK'
  BY <1>2 DEF CP!Misread
<1>3. ASSUME NEW c \in Callers, CP!Allow(c) \/ CP!Deny(c) \/ CP!Fail(c) \/ CP!Stray(c)
      PROVE  /\ CP!TypeOK' /\ cpEver' = cpEver /\ cpItem' = cpItem
             /\ \A d \in Callers :
                   /\ cpState'[d] = "idle" <=> cpState[d] = "idle"
                   /\ cpState'[d] # cpState[d] =>
                         /\ cpState'[d] = "allowed" => cpItem[d] \in cpEver
                         /\ cpState'[d] = "strayed" => cpItem[d] = Empty
  <2>1. PICK result \in CP!Answers :
           /\ CP!Answer(c, result)
           /\ result = "allowed" => cpItem[c] \in cpEver
           /\ result = "strayed" => cpItem[c] = Empty
    BY <1>3 DEF CP!Allow, CP!Deny, CP!Fail, CP!Stray, CP!Answers
  <2>2. /\ cpState' = [cpState EXCEPT ![c] = result] /\ cpState[c] = "asking"
        /\ UNCHANGED <<cpListed, cpEver, cpItem, cpAbsent>>
    BY <2>1 DEF CP!Answer, CP!Asking
  <2> QED
    BY <2>1, <2>2 DEF CP!Answers
<1> QED
  BY <1>1, <1>2, <1>3 DEF CP!Upstream, CP!Publish

-----------------------------------------------------------------------------

\* A step of one goroutine about its checks leaves those of the others alone.
OthersAlone(c) ==
  /\ TM!TypeOK' /\ CP!TypeOK' /\ AG!TypeOK'
  /\ strayed' \in SUBSET Callers /\ \A d \in Callers : Grows(d)
  /\ \A d \in Callers \ {c} :
        /\ tmState'[d] = tmState[d] /\ tmItem'[d] = tmItem[d]
        /\ cpState'[d] = cpState[d] /\ cpItem'[d] = cpItem[d]

LEMMA StageStep ==
  ASSUME NEW c \in Callers, IInv, pc[c] # "idle",
         UNCHANGED unchangedByChecks, OthersAlone(c),
         \/ Pass(c)
         \/ \E code \in {BadRequest, Forbidden, ServerError} : Refuse(c, code)
         \/ Panic(c)
         \/ pc' = [pc EXCEPT ![c] = "asking"] /\ UNCHANGED <<stage, response>>,
         \/ originService' = originService
         \/ \E s \in Services : originService' = [originService EXCEPT ![c] = s],
         stage'[c] \in 1..Len(Stages(request[c].route)),
         CallerInv(c)'
  PROVE  IInv'
<1>0. /\ request' = request /\ isolation' = isolation
      /\ forwarded' = forwarded /\ agState' = agState /\ agReached' = agReached
  BY DEF unchangedByChecks, agVars
<1>1. /\ pc' \in [Callers -> {"idle", "working", "asking", "forwarding",
                              "answered", "panicked"}]
      /\ pc'[c] # "idle"
      /\ stage' \in [Callers -> Nat]
      /\ response' \in [Callers -> Answers \cup {Nil}]
      /\ \A d \in Callers \ {c} : /\ pc'[d] = pc[d] /\ stage'[d] = stage[d]
                                  /\ response'[d] = response[d]
  <2> USE DEF IInv, TypeOK
  <2>1. CASE Pass(c)
    BY <2>1 DEF Pass
  <2>2. CASE \E code \in {BadRequest, Forbidden, ServerError} : Refuse(c, code)
    <3>0. PICK code \in {BadRequest, Forbidden, ServerError} : Refuse(c, code)
      BY <2>2
    <3>1. [by |-> "agent", code |-> code] \in Answers
      BY DEF Answers
    <3> QED
      BY <3>0, <3>1 DEF Refuse, Respond
  <2>3. CASE Panic(c)
    BY <2>3 DEF Panic
  <2>4. CASE pc' = [pc EXCEPT ![c] = "asking"] /\ UNCHANGED <<stage, response>>
    BY <2>4
  <2> QED
    BY <2>1, <2>2, <2>3, <2>4
<1>2. /\ originService' \in [Callers -> Services \cup {Nil}]
      /\ \A d \in Callers \ {c} : originService'[d] = originService[d]
  <2>1. originService \in [Callers -> Services \cup {Nil}]
    BY DEF IInv, TypeOK
  <2>2. CASE originService' = originService
    BY <2>1, <2>2
  <2>3. ASSUME NEW s \in Services, originService' = [originService EXCEPT ![c] = s]
        PROVE  /\ originService' \in [Callers -> Services \cup {Nil}]
               /\ \A d \in Callers \ {c} : originService'[d] = originService[d]
    BY <2>1, <2>3
  <2> QED
    BY <2>2, <2>3
<1>3. TypeOK'
  <2>1. \A d \in Callers : pc'[d] # "idle" =>
           /\ request'[d] \in Incoming
           /\ stage'[d] \in 1..Len(Stages(request'[d].route))
    <3> TAKE d \in Callers
    <3>1. CASE d = c
      BY <1>0, <3>1 DEF IInv, TypeOK
    <3>2. CASE d # c
      BY <1>0, <1>1, <3>2 DEF IInv, TypeOK
    <3> QED
      BY <3>1, <3>2
  <2> QED
    BY <1>0, <1>1, <1>2, <2>1 DEF IInv, TypeOK, OthersAlone
<1>4. \A d \in Callers \ {c} : Local(d)' = Local(d)
  BY <1>0, <1>1, <1>2 DEF OthersAlone, Local
<1> QED
  BY <1>0, <1>3, <1>4, OthersStay DEF OthersAlone

\* A step that ends a stage; the checks of the goroutine are then over.
LEMMA PassStep ==
  ASSUME NEW c \in Callers, NEW name, IInv, pc[c] \in {"working", "asking"},
         StageOf(c) = name, name # "forward",
         Pass(c), UNCHANGED unchangedByChecks, OthersAlone(c),
         tmState'[c] = "idle", cpState'[c] = "idle",
         \/ originService' = originService
         \/ /\ name = "origin"
            /\ \E s \in Services : originService' = [originService EXCEPT ![c] = s],
         Established(c, name)'
  PROVE  IInv'
<1>1. CallerInv(c)' /\ stage'[c] \in 1..Len(Stages(request[c].route))
  BY PassKeeps DEF OthersAlone
<1> QED
  BY <1>1, StageStep

LEMMA RefuseStep ==
  ASSUME NEW c \in Callers, NEW code \in {BadRequest, Forbidden, ServerError},
         IInv, pc[c] \in {"working", "asking"},
         Refuse(c, code), UNCHANGED unchangedByChecks, OthersAlone(c),
         tmState'[c] = "idle", cpState'[c] = "idle",
         UNCHANGED originService
  PROVE  IInv'
<1>1. CallerInv(c)'
  BY RefuseKeeps DEF OthersAlone
<1>2. stage'[c] \in 1..Len(Stages(request[c].route))
  BY ServedRequest DEF IInv, Refuse, Respond
<1> QED
  BY <1>1, <1>2, StageStep

LEMMA PanicStep ==
  ASSUME NEW c \in Callers, IInv, pc[c] \in {"working", "asking"},
         ~WellFormed(request[c].body),
         Panic(c), UNCHANGED unchangedByChecks, OthersAlone(c),
         tmState'[c] = "idle", cpState'[c] = "idle",
         UNCHANGED originService
  PROVE  IInv'
<1>1. CallerInv(c)'
  BY PanicKeeps DEF OthersAlone
<1>2. stage'[c] \in 1..Len(Stages(request[c].route))
  BY ServedRequest DEF IInv, Panic
<1> QED
  BY <1>1, <1>2, StageStep

LEMMA WaitStep ==
  ASSUME NEW c \in Callers, IInv, pc[c] = "working",
         pc' = [pc EXCEPT ![c] = "asking"],
         UNCHANGED <<stage, response, originService>>,
         UNCHANGED unchangedByChecks, OthersAlone(c),
         AsksForItsStage(c)', AdmittedHasReason(c)'
  PROVE  IInv'
<1>0. pc'[c] = "asking"
  BY DEF IInv, TypeOK
<1>1. CallerInv(c)'
  BY <1>0, WaitKeeps DEF OthersAlone
<1>2. stage'[c] \in 1..Len(Stages(request[c].route))
  BY ServedRequest DEF IInv
<1> QED
  BY <1>1, <1>2, StageStep

\* A stage without a check, or one that ends before its check.
LEMMA NoCheck ==
  ASSUME NEW c \in Callers, IInv, pc[c] = "working",
         UNCHANGED unchangedByChecks, UNCHANGED <<tmVars, cpVars>>
  PROVE  /\ OthersAlone(c)
         /\ tmState'[c] = "idle" /\ cpState'[c] = "idle"
<1>1. tmState[c] = "idle" /\ cpState[c] = "idle"
  BY DEF IInv, CallerInv, AsksForItsStage
<1>2. UNCHANGED tmVars /\ UNCHANGED cpVars /\ UNCHANGED agVars
  BY DEF unchangedByChecks
<1>3. /\ TM!TypeOK' /\ CP!TypeOK' /\ AG!TypeOK'
      /\ tmEver' = tmEver /\ cpEver' = cpEver /\ strayed' = strayed
  BY <1>2, ChecksStay DEF IInv
<1>4. strayed' \in SUBSET Callers /\ \A d \in Callers : Grows(d)
  BY <1>3 DEF IInv, TypeOK, Grows
<1> QED
  BY <1>1, <1>2, <1>3, <1>4 DEF OthersAlone, tmVars, tmCheckVars, cpVars

-----------------------------------------------------------------------------

\* One lemma for every action: it preserves the invariant.
LEMMA ReadBodyKeeps ==
  ASSUME NEW c \in Callers, IInv, ReadBody(c)
  PROVE  IInv'
<1>1. pc[c] = "working" /\ StageOf(c) = "read"
  BY DEF ReadBody, At, StageOf
<1>2. UNCHANGED unchangedByChecks /\ UNCHANGED originService
        /\ UNCHANGED <<tmVars, cpVars>>
  BY DEF ReadBody
<1>3. OthersAlone(c) /\ tmState'[c] = "idle" /\ cpState'[c] = "idle"
  BY <1>1, <1>2, NoCheck
<1>4. CASE request[c].body = Unreadable
  <2>1. Refuse(c, ServerError)
    BY <1>4 DEF ReadBody
  <2> QED
    BY <1>1, <1>2, <1>3, <2>1, RefuseStep
<1>5. CASE request[c].body # Unreadable
  <2>1. Pass(c)
    BY <1>5 DEF ReadBody
  <2>2. request'[c].body \in Objects \cup {NoBody}
    BY <1>1, <1>2, <1>5, ServedRequest DEF IInv, Requests, unchangedByChecks
  <2>3. Established(c, "read")'
    BY <2>2 DEF Established
  <2> QED
    BY <1>1, <1>2, <1>3, <2>1, <2>3, PassStep
<1> QED
  BY <1>4, <1>5

LEMMA RequireBodyKeeps ==
  ASSUME NEW c \in Callers, IInv, RequireBody(c)
  PROVE  IInv'
<1>1. pc[c] = "working" /\ StageOf(c) = "body"
  BY DEF RequireBody, At, StageOf
<1>2. UNCHANGED unchangedByChecks /\ UNCHANGED originService
        /\ UNCHANGED <<tmVars, cpVars>>
  BY DEF RequireBody
<1>3. OthersAlone(c) /\ tmState'[c] = "idle" /\ cpState'[c] = "idle"
  BY <1>1, <1>2, NoCheck
<1>4. Established(c, "body")'
  BY DEF Established
<1>5. Refuse(c, BadRequest) \/ Pass(c)
  BY DEF RequireBody
<1> QED
  BY <1>1, <1>2, <1>3, <1>4, <1>5, RefuseStep, PassStep

LEMMA CheckTenantIdKeeps ==
  ASSUME NEW c \in Callers, IInv, CheckTenantId(c)
  PROVE  IInv'
<1> DEFINE r == request[c]
           t == TenantFromBody(r.body)
<1>1. pc[c] = "working" /\ StageOf(c) = "tenant"
  BY DEF CheckTenantId, At, StageOf
<1>2. /\ UNCHANGED unchangedByChecks /\ UNCHANGED originService /\ UNCHANGED cpVars
      /\ request' = request
  BY DEF CheckTenantId, unchangedByChecks
<1>3. UNCHANGED tmVars =>
         OthersAlone(c) /\ tmState'[c] = "idle" /\ cpState'[c] = "idle"
  BY <1>1, <1>2, NoCheck
<1>4. r.body \in Objects \cup {NoBody}
  BY <1>1, BodyHasBeenRead
<1>5. CASE UNCHANGED tmVars /\ Refuse(c, Forbidden)
  BY <1>1, <1>2, <1>3, <1>5, RefuseStep
<1>6. CASE UNCHANGED tmVars /\ Panic(c) /\ t = "panic"
  BY <1>1, <1>2, <1>3, <1>4, <1>6, PanicStep, TenantFromBodyFacts
<1>7. CASE UNCHANGED tmVars /\ Pass(c) /\ (SkipsTenant(r) \/ t = "none")
  <2>1. t \in Tenants => SkipsTenant(r)
    BY <1>7, RequestsAssumption
  <2>2. Established(c, "tenant")'
    BY <1>2, <2>1 DEF Established
  <2> QED
    BY <1>1, <1>2, <1>3, <1>7, <2>2, PassStep
<1>8. CASE /\ t \in Tenants /\ t = r.tenant /\ TM!Ask(c, t)
           /\ strayed' = strayed
           /\ pc' = [pc EXCEPT ![c] = "asking"] /\ UNCHANGED <<stage, response>>
  <2>0. PICK asked \in Tenants : asked = t
    BY <1>8
  <2>1. TM!Ask(c, asked)
    BY <1>8, <2>0
  <2>2. /\ TM!TypeOK' /\ tmEver' = tmEver
        /\ tmState'[c] = "asking" /\ tmItem'[c] = asked
        /\ \A d \in Callers \ {c} : tmState'[d] = tmState[d] /\ tmItem'[d] = tmItem[d]
    BY <2>1, TmAsks DEF IInv
  <2>3. /\ CP!TypeOK' /\ AG!TypeOK' /\ cpEver' = cpEver
        /\ cpState' = cpState /\ cpItem' = cpItem
    BY <1>2, ChecksStay DEF IInv, unchangedByChecks, cpVars
  <2>4. OthersAlone(c)
    BY <1>8, <2>2, <2>3 DEF OthersAlone, Grows, IInv, TypeOK
  <2>5. cpState[c] = "idle"
    BY <1>1 DEF IInv, CallerInv, AsksForItsStage
  <2>6. pc'[c] = "asking" /\ stage' = stage
    BY <1>8 DEF IInv, TypeOK
  <2>7. AsksForItsStage(c)'
    BY <1>1, <1>2, <1>8, <2>0, <2>2, <2>3, <2>5, <2>6 DEF AsksForItsStage, StageOf
  <2>8. AdmittedHasReason(c)'
    BY <2>2, <2>3, <2>5 DEF AdmittedHasReason
  <2> QED
    BY <1>1, <1>2, <1>8, <2>4, <2>7, <2>8, WaitStep
<1> QED
  BY <1>5, <1>6, <1>7, <1>8 DEF CheckTenantId, SkipsTenant

LEMMA TenantCheckedKeeps ==
  ASSUME NEW c \in Callers, IInv, TenantChecked(c)
  PROVE  IInv'
<1>1. pc[c] = "asking" /\ tmState[c] \in TM!Answers
  BY DEF TenantChecked
<1>2. /\ UNCHANGED unchangedByChecks /\ UNCHANGED originService /\ UNCHANGED cpVars
      /\ request' = request
  BY DEF TenantChecked, unchangedByChecks
<1>3. tmState[c] # "idle"
  BY <1>1 DEF TM!Answers
<1>4. /\ StageOf(c) = "tenant" /\ tmItem[c] = request[c].tenant
      /\ tmItem[c] = TenantFromBody(request[c].body)
  BY <1>3 DEF IInv, CallerInv, AsksForItsStage
<1>5. cpState[c] = "idle"
  BY <1>4 DEF IInv, CallerInv, AsksForItsStage
<1>6. /\ TM!TypeOK' /\ tmEver' = tmEver /\ tmState'[c] = "idle"
      /\ \A d \in Callers \ {c} : tmState'[d] = tmState[d] /\ tmItem'[d] = tmItem[d]
  BY TmReturns DEF IInv, TenantChecked
<1>7. /\ CP!TypeOK' /\ AG!TypeOK' /\ cpEver' = cpEver
      /\ cpState' = cpState /\ cpItem' = cpItem
  BY <1>2, ChecksStay DEF IInv, unchangedByChecks, cpVars
<1>a. /\ strayed' \in SUBSET Callers /\ strayed \subseteq strayed'
      /\ tmState[c] = "strayed" => c \in strayed'
  BY DEF TenantChecked, NoteStray, IInv, TypeOK
<1>8. OthersAlone(c)
  BY <1>6, <1>7, <1>a DEF OthersAlone, Grows
<1>9. CASE tmState[c] \in {"allowed", "strayed"}
  <2>1. tmItem[c] \in tmEver \/ c \in strayed'
    BY <1>9, <1>a DEF IInv, CallerInv, AdmittedHasReason
  <2>2. Established(c, "tenant")'
    BY <1>2, <1>4, <1>6, <2>1 DEF Established
  <2>3. Pass(c)
    BY <1>9 DEF TenantChecked
  <2> QED
    BY <1>1, <1>2, <1>4, <1>5, <1>6, <1>7, <1>8, <2>2, <2>3, PassStep
<1>10. CASE tmState[c] \notin {"allowed", "strayed"}
  <2>1. Refuse(c, Forbidden)
    BY <1>10 DEF TenantChecked
  <2> QED
    BY <1>1, <1>2, <1>5, <1>6, <1>7, <1>8, <2>1, RefuseStep
<1> QED
  BY <1>9, <1>10

\* CheckNamespace, of the path or of the classifier.
LEMMA CheckNamespaceKeeps ==
  ASSUME NEW c \in Callers, NEW ns \in Namespaces \cup {Empty},
         NEW name \in {"path", "classifier"}, IInv,
         pc[c] = "working", StageOf(c) = name,
         ns = IF name = "path" THEN request[c].path
                               ELSE GetNamespaceFromClassifier(Classifier(c)),
         CheckNamespace(c, ns),
         UNCHANGED unchangedByChecks, UNCHANGED originService, UNCHANGED tmVars
  PROVE  IInv'
<1>1. request' = request /\ isolation' = isolation
  BY DEF unchangedByChecks
<1>2. CASE Exempt(ns) /\ Pass(c) /\ UNCHANGED cpVars
  <2>1. OthersAlone(c) /\ tmState'[c] = "idle" /\ cpState'[c] = "idle"
    BY <1>2, NoCheck
  <2>2. Established(c, name)'
    BY <1>1, <1>2 DEF Established, Exempt, Classifier
  <2> QED
    BY <1>2, <2>1, <2>2, PassStep
<1>3. CASE /\ ~Exempt(ns) /\ CP!Ask(c, ns)
           /\ pc' = [pc EXCEPT ![c] = "asking"] /\ UNCHANGED <<stage, response>>
  <2>1. ns \in (Namespaces \ {Own}) \cup {Empty}
    BY <1>3 DEF Exempt
  <2>2. /\ CP!TypeOK' /\ cpEver' = cpEver
        /\ cpState'[c] = "asking" /\ cpItem'[c] = ns
        /\ \A d \in Callers \ {c} : cpState'[d] = cpState[d] /\ cpItem'[d] = cpItem[d]
    BY <1>3, <2>1, CpAsks DEF IInv
  <2>3. /\ TM!TypeOK' /\ AG!TypeOK' /\ tmEver' = tmEver /\ strayed' = strayed
        /\ tmState' = tmState /\ tmItem' = tmItem
    BY ChecksStay DEF IInv, unchangedByChecks, tmVars, tmCheckVars
  <2>4. OthersAlone(c)
    BY <2>2, <2>3 DEF OthersAlone, Grows, IInv, TypeOK
  <2>5. tmState[c] = "idle"
    BY DEF IInv, CallerInv, AsksForItsStage
  <2>6. pc'[c] = "asking" /\ stage' = stage
    BY <1>3 DEF IInv, TypeOK
  <2>7. AsksForItsStage(c)'
    BY <1>1, <2>2, <2>3, <2>5, <2>6 DEF AsksForItsStage, StageOf, Classifier
  <2>8. AdmittedHasReason(c)'
    BY <2>2, <2>3, <2>5 DEF AdmittedHasReason
  <2> QED
    BY <1>3, <2>4, <2>7, <2>8, WaitStep
<1> QED
  BY <1>2, <1>3 DEF CheckNamespace

LEMMA CheckNamespaceIsolationKeeps ==
  ASSUME NEW c \in Callers, IInv, CheckNamespaceIsolation(c)
  PROVE  IInv'
<1>1. pc[c] = "working" /\ StageOf(c) = "path"
  BY DEF CheckNamespaceIsolation, At, StageOf
<1>2. PICK ns \in Namespaces : ns = request[c].path
  BY <1>1, ServedRequest DEF IInv, Requests
<1>3. CheckNamespace(c, ns)
  BY <1>2 DEF CheckNamespaceIsolation
<1> QED
  BY <1>1, <1>2, <1>3, CheckNamespaceKeeps DEF CheckNamespaceIsolation

LEMMA ValidateNamespaceFromClassifierKeeps ==
  ASSUME NEW c \in Callers, IInv, ValidateNamespaceFromClassifier(c)
  PROVE  IInv'
<1>1. pc[c] = "working" /\ StageOf(c) = "classifier"
  BY DEF ValidateNamespaceFromClassifier, At, StageOf
<1>2. /\ UNCHANGED unchangedByChecks /\ UNCHANGED originService /\ UNCHANGED tmVars
  BY DEF ValidateNamespaceFromClassifier
<1>3. UNCHANGED cpVars =>
         OthersAlone(c) /\ tmState'[c] = "idle" /\ cpState'[c] = "idle"
  BY <1>1, <1>2, NoCheck
<1>4. request[c].body \in Objects \cup {NoBody}
  BY <1>1, BodyHasBeenRead
<1>5. PICK ns : ns = GetNamespaceFromClassifier(Classifier(c))
  OBVIOUS
<1>6. /\ ns \in Namespaces \cup {Empty, "panic", "error"}
      /\ ns = "panic" => ~WellFormed(request[c].body)
  BY <1>4, <1>5, NamespaceFacts DEF Classifier
<1>7. CASE ns = "panic" /\ Panic(c) /\ UNCHANGED cpVars
  BY <1>1, <1>2, <1>3, <1>6, <1>7, PanicStep
<1>8. CASE ns = "error" /\ Refuse(c, BadRequest) /\ UNCHANGED cpVars
  BY <1>1, <1>2, <1>3, <1>8, RefuseStep
<1>9. CASE ns \notin {"panic", "error"} /\ CheckNamespace(c, ns)
  <2>1. ns \in Namespaces \cup {Empty}
    BY <1>6, <1>9
  <2> QED
    BY <1>1, <1>2, <1>5, <1>9, <2>1, CheckNamespaceKeeps
<1> QED
  BY <1>5, <1>7, <1>8, <1>9 DEF ValidateNamespaceFromClassifier

LEMMA NamespaceCheckedKeeps ==
  ASSUME NEW c \in Callers, IInv, NamespaceChecked(c)
  PROVE  IInv'
<1>1. pc[c] = "asking" /\ cpState[c] \in CP!Answers
  BY DEF NamespaceChecked
<1>2. /\ UNCHANGED unchangedByChecks /\ UNCHANGED originService /\ UNCHANGED tmVars
      /\ request' = request
  BY DEF NamespaceChecked, unchangedByChecks
<1>3. cpState[c] # "idle"
  BY <1>1 DEF CP!Answers
<1>4. \/ StageOf(c) = "path" /\ cpItem[c] = request[c].path
      \/ /\ StageOf(c) = "classifier"
         /\ cpItem[c] = GetNamespaceFromClassifier(Classifier(c))
  BY <1>3 DEF IInv, CallerInv, AsksForItsStage
<1>5. tmState[c] = "idle"
  BY <1>4 DEF IInv, CallerInv, AsksForItsStage
<1>6. /\ CP!TypeOK' /\ cpEver' = cpEver /\ cpState'[c] = "idle"
      /\ \A d \in Callers \ {c} : cpState'[d] = cpState[d] /\ cpItem'[d] = cpItem[d]
  BY CpReturns DEF IInv, NamespaceChecked
<1>7. /\ TM!TypeOK' /\ AG!TypeOK' /\ tmEver' = tmEver /\ strayed' = strayed
      /\ tmState' = tmState /\ tmItem' = tmItem
  BY <1>2, ChecksStay DEF IInv, unchangedByChecks, tmVars, tmCheckVars
<1>8. OthersAlone(c)
  BY <1>6, <1>7 DEF OthersAlone, Grows, IInv, TypeOK
<1>9. CASE cpState[c] \in {"allowed", "strayed"}
  <2>1. cpItem[c] \in cpEver \cup {Empty}
    BY <1>9 DEF IInv, CallerInv, AdmittedHasReason
  <2>2. request[c].path # Empty
    BY <1>1, ServedRequest, RequestsAssumption DEF IInv, Requests
  <2>3. Pass(c)
    BY <1>9 DEF NamespaceChecked
  <2>4. CASE StageOf(c) = "path" /\ cpItem[c] = request[c].path
    <3>1. Established(c, "path")'
      BY <1>2, <1>6, <2>1, <2>2, <2>4 DEF Established
    <3> QED
      BY <1>1, <1>2, <1>5, <1>6, <1>7, <1>8, <2>3, <2>4, <3>1, PassStep
  <2>5. CASE /\ StageOf(c) = "classifier"
             /\ cpItem[c] = GetNamespaceFromClassifier(Classifier(c))
    <3>1. Established(c, "classifier")'
      BY <1>2, <1>6, <2>1, <2>5 DEF Established, Classifier
    <3> QED
      BY <1>1, <1>2, <1>5, <1>6, <1>7, <1>8, <2>3, <2>5, <3>1, PassStep
  <2> QED
    BY <1>4, <2>4, <2>5
<1>10. CASE cpState[c] \notin {"allowed", "strayed"}
  <2>1. Refuse(c, Forbidden)
    BY <1>10 DEF NamespaceChecked
  <2> QED
    BY <1>1, <1>2, <1>5, <1>6, <1>7, <1>8, <2>1, RefuseStep
<1> QED
  BY <1>9, <1>10

LEMMA SetOriginServiceKeeps ==
  ASSUME NEW c \in Callers, IInv, SetOriginService(c)
  PROVE  IInv'
<1>1. pc[c] = "working" /\ StageOf(c) = "origin"
  BY DEF SetOriginService, At, StageOf
<1>2. UNCHANGED unchangedByChecks /\ UNCHANGED <<tmVars, cpVars>> /\ request' = request
  BY DEF SetOriginService, unchangedByChecks
<1>3. OthersAlone(c) /\ tmState'[c] = "idle" /\ cpState'[c] = "idle"
  BY <1>1, <1>2, NoCheck
<1>4. request[c].body \in Objects \cup {NoBody}
  BY <1>1, BodyHasBeenRead
<1>5. PICK name : name = GetServiceName(Classifier(c))
  OBVIOUS
<1>6. /\ name = "panic" => ~WellFormed(request[c].body)
      /\ name \in Services => name = Classifier(c).microserviceName
  BY <1>4, <1>5, ServiceNameFacts DEF Classifier
<1>7. CASE name = "panic" /\ Panic(c) /\ UNCHANGED originService
  BY <1>1, <1>2, <1>3, <1>6, <1>7, PanicStep
<1>8. CASE /\ Refuse(c, ServerError) \/ Refuse(c, BadRequest)
           /\ UNCHANGED originService
  BY <1>1, <1>2, <1>3, <1>8, RefuseStep
<1>9. CASE /\ name \in Services /\ Pass(c)
           /\ originService' = [originService EXCEPT ![c] = name]
  <2>1. originService'[c] = name
    BY <1>9 DEF IInv, TypeOK
  <2>2. Established(c, "origin")'
    BY <1>2, <1>6, <1>9, <2>1 DEF Established, Classifier
  <2> QED
    BY <1>1, <1>2, <1>3, <1>9, <2>2, PassStep
<1> QED
  BY <1>5, <1>7, <1>8, <1>9 DEF SetOriginService

-----------------------------------------------------------------------------

\* The actions about a request as a whole: no check is under way.
LEMMA NoCheckUnderWay ==
  ASSUME NEW c \in Callers, IInv, pc[c] # "asking",
         UNCHANGED <<isolation, tmCheckVars, cpVars>>
  PROVE  /\ TM!TypeOK' /\ CP!TypeOK' /\ tmEver' = tmEver /\ cpEver' = cpEver
         /\ tmState'[c] = "idle" /\ cpState'[c] = "idle"
         /\ tmState' = tmState /\ tmItem' = tmItem
         /\ cpState' = cpState /\ cpItem' = cpItem
<1>1. UNCHANGED tmCheckVars /\ UNCHANGED cpVars
  OBVIOUS
<1>2. tmState[c] = "idle" /\ cpState[c] = "idle"
  BY DEF IInv, CallerInv, AsksForItsStage
<1> QED
  BY <1>1, <1>2, ChecksStay DEF IInv, tmCheckVars, cpVars

LEMMA ReceiveKeeps ==
  ASSUME NEW c \in Callers, NEW r \in Incoming, IInv, Receive(c, r)
  PROVE  IInv'
<1>1. /\ request' = [request EXCEPT ![c] = r]
      /\ stage' = [stage EXCEPT ![c] = 1]
      /\ pc' = [pc EXCEPT ![c] = "working"]
      /\ UNCHANGED <<isolation, tmCheckVars, cpVars>> /\ strayed' = strayed
      /\ UNCHANGED <<originService, forwarded, response>> /\ UNCHANGED agVars
      /\ pc[c] = "idle"
  BY DEF Receive, tmVars
<1>2. /\ TM!TypeOK' /\ CP!TypeOK' /\ \A d \in Callers : Grows(d)
      /\ tmState'[c] = "idle" /\ cpState'[c] = "idle"
      /\ tmState' = tmState /\ tmItem' = tmItem
      /\ cpState' = cpState /\ cpItem' = cpItem
  BY <1>1, NoCheckUnderWay DEF Grows
<1>3. AG!TypeOK' /\ agState' = agState /\ agReached' = agReached
  BY <1>1, ChecksStay DEF IInv, agVars
<1>4. 1 \in 1..Len(Stages(r.route))
  BY HandlersArePipelines, ControllerAssumption DEF Pipeline, Requests
<1>5. TypeOK'
  <2>1. \A d \in Callers : pc'[d] # "idle" =>
           /\ request'[d] \in Incoming
           /\ stage'[d] \in 1..Len(Stages(request'[d].route))
    <3> TAKE d \in Callers
    <3>1. CASE d = c
      BY <1>1, <1>4, <3>1 DEF IInv, TypeOK
    <3>2. CASE d # c
      BY <1>1, <3>2 DEF IInv, TypeOK
    <3> QED
      BY <3>1, <3>2
  <2> QED
    BY <1>1, <1>2, <1>3, <2>1 DEF IInv, TypeOK
<1>6. request'[c] = r /\ stage'[c] = 1 /\ pc'[c] = "working"
  BY <1>1 DEF IInv, TypeOK
<1>7. CallerInv(c)'
  <2>1. PassedIsEstablished(c)'
    BY <1>6 DEF PassedIsEstablished
  <2>2. AsksForItsStage(c)' /\ AdmittedHasReason(c)'
    BY <1>2 DEF AsksForItsStage, AdmittedHasReason
  <2>3. ForwardsAtTheEnd(c)' /\ AnswersTruly(c)' /\ PanicsForAReason(c)'
    BY <1>1, <1>3, <1>6
    DEF IInv, CallerInv, ForwardsAtTheEnd, AnswersTruly, PanicsForAReason
  <2> QED
    BY <2>1, <2>2, <2>3 DEF CallerInv
<1>8. \A d \in Callers \ {c} : Local(d)' = Local(d)
  BY <1>1, <1>2, <1>3 DEF IInv, TypeOK, Local
<1> QED
  BY <1>1, <1>2, <1>5, <1>7, <1>8, OthersStay

LEMMA ForwardKeeps ==
  ASSUME NEW c \in Callers, IInv, Forward(c)
  PROVE  IInv'
<1> DEFINE sent == [route |-> request[c].route, path |-> request[c].path,
                    query |-> FALSE,
                    body |-> IF SendsBody(request[c].route) THEN request[c].body
                                                            ELSE NoBody,
                    originService |-> originService[c]]
<1>1. /\ pc[c] = "working" /\ StageOf(c) = "forward"
      /\ forwarded' = [forwarded EXCEPT ![c] = sent]
      /\ pc' = [pc EXCEPT ![c] = "forwarding"]
      /\ AG!Ask(c)
      /\ UNCHANGED <<request, stage, originService, response>>
      /\ UNCHANGED <<isolation, tmCheckVars, cpVars>> /\ strayed' = strayed
  BY DEF Forward, At, StageOf, tmVars
<1>2. /\ TM!TypeOK' /\ CP!TypeOK' /\ \A d \in Callers : Grows(d)
      /\ tmState'[c] = "idle" /\ cpState'[c] = "idle"
      /\ tmState' = tmState /\ tmItem' = tmItem
      /\ cpState' = cpState /\ cpItem' = cpItem
  BY <1>1, NoCheckUnderWay DEF Grows
<1>3. /\ AG!TypeOK' /\ agReached' = agReached
      /\ agState' = [agState EXCEPT ![c] = "asked"]
  BY <1>1 DEF IInv, TypeOK, AG!TypeOK, AG!Ask
<1>4. sent \in Forwarded
  BY <1>1, ServedRequest DEF IInv, TypeOK, Requests, Forwarded
<1> HIDE DEF sent
<1>5. TypeOK'
  BY <1>1, <1>2, <1>3, <1>4 DEF IInv, TypeOK
<1>6. /\ pc'[c] = "forwarding" /\ agState'[c] = "asked"
      /\ forwarded'[c].originService = originService[c]
  BY <1>1, <1>3 DEF IInv, TypeOK, AG!TypeOK, sent
<1>7. CallerInv(c)'
  <2>1. PassedIsEstablished(c)'
    BY <1>1, <1>2, EstablishedStays DEF IInv, CallerInv, PassedIsEstablished
  <2>2. AsksForItsStage(c)' /\ AdmittedHasReason(c)'
    BY <1>2 DEF AsksForItsStage, AdmittedHasReason
  <2>3. ForwardsAtTheEnd(c)' /\ AnswersTruly(c)' /\ PanicsForAReason(c)'
    BY <1>1, <1>6 DEF ForwardsAtTheEnd, AnswersTruly, PanicsForAReason, StageOf
  <2> QED
    BY <2>1, <2>2, <2>3 DEF CallerInv
<1>8. \A d \in Callers \ {c} : Local(d)' = Local(d)
  BY <1>1, <1>2, <1>3 DEF IInv, TypeOK, AG!TypeOK, Local
<1> QED
  BY <1>1, <1>2, <1>5, <1>7, <1>8, OthersStay

\* The end of an exchange, with an answer or without.
LEMMA ForwardingKeeps ==
  ASSUME NEW c \in Callers, IInv, Forwarding(c)
  PROVE  IInv'
<1>1. PICK by \in {"agent", "aggregator"}, code \in Verdicts :
         /\ Respond(c, by, code)
         /\ by = "aggregator" \/ code = NotFound => code \in agReached[c]
         /\ by = "agent" => code \in {NotFound, ServerError}
         /\ AG!Answered(c, code) \/ AG!Fail(c)
  <2>1. CASE ForwardFails(c)
    BY <2>1 DEF ForwardFails, Refuse, Verdicts, OK, NotFound, ServerError
  <2>2. CASE ForwardReturns(c)
    <3>1. PICK code \in agReached[c] :
             /\ AG!Answered(c, code)
             /\ Respond(c, IF request[c].route = "register" /\ code = NotFound
                           THEN "agent" ELSE "aggregator", code)
      BY <2>2 DEF ForwardReturns
    <3>2. code \in Verdicts
      BY DEF IInv, TypeOK, AG!TypeOK
    <3> QED
      BY <3>1, <3>2
  <2> QED
    BY <2>1, <2>2 DEF Forwarding
<1>2. /\ pc[c] = "forwarding"
      /\ UNCHANGED <<request, originService, forwarded>>
      /\ UNCHANGED <<isolation, tmCheckVars, cpVars>> /\ strayed' = strayed
  BY DEF Forwarding, ForwardReturns, ForwardFails, tmVars
<1>3. /\ TM!TypeOK' /\ CP!TypeOK' /\ \A d \in Callers : Grows(d)
      /\ tmState'[c] = "idle" /\ cpState'[c] = "idle"
      /\ tmState' = tmState /\ tmItem' = tmItem
      /\ cpState' = cpState /\ cpItem' = cpItem
  BY <1>2, NoCheckUnderWay DEF Grows
<1>4. /\ AG!TypeOK' /\ agReached' = agReached
      /\ agState'[c] \in {"answered", "failed"}
      /\ \A d \in Callers \ {c} : agState'[d] = agState[d]
  <2>1. CASE AG!Answered(c, code)
    BY <2>1 DEF IInv, TypeOK, AG!TypeOK, AG!Answered
  <2>2. CASE AG!Fail(c)
    BY <2>2 DEF IInv, TypeOK, AG!TypeOK, AG!Fail
  <2> QED
    BY <1>1, <2>1, <2>2
<1>5. [by |-> by, code |-> code] \in Answers
  BY <1>1 DEF Answers
<1>6. /\ pc' = [pc EXCEPT ![c] = "answered"] /\ stage' = stage
      /\ response' = [response EXCEPT ![c] = [by |-> by, code |-> code]]
  BY <1>1 DEF Respond
<1>7. TypeOK'
  BY <1>2, <1>3, <1>4, <1>5, <1>6 DEF IInv, TypeOK
<1>8. pc'[c] = "answered" /\ response'[c] = [by |-> by, code |-> code]
  BY <1>6 DEF IInv, TypeOK
<1>9. CallerInv(c)'
  <2>1. PassedIsEstablished(c)'
    BY <1>2, <1>3, <1>6, EstablishedStays DEF IInv, CallerInv, PassedIsEstablished
  <2>2. AsksForItsStage(c)' /\ AdmittedHasReason(c)'
    BY <1>3 DEF AsksForItsStage, AdmittedHasReason
  <2>3. ForwardsAtTheEnd(c)'
    BY <1>2, <1>4, <1>6, <1>8 DEF IInv, CallerInv, ForwardsAtTheEnd, StageOf
  <2>4. AnswersTruly(c)' /\ PanicsForAReason(c)'
    BY <1>1, <1>4, <1>8
    DEF AnswersTruly, PanicsForAReason, NotFound, BadRequest, Forbidden, ServerError
  <2> QED
    BY <2>1, <2>2, <2>3, <2>4 DEF CallerInv
<1>10. \A d \in Callers \ {c} : Local(d)' = Local(d)
  BY <1>2, <1>3, <1>4, <1>6 DEF IInv, TypeOK, Local
<1> QED
  BY <1>2, <1>3, <1>7, <1>9, <1>10, OthersStay

LEMMA FinishKeeps ==
  ASSUME NEW c \in Callers, IInv, Finish(c)
  PROVE  IInv'
<1>1. /\ request' = [request EXCEPT ![c] = Nil]
      /\ stage' = [stage EXCEPT ![c] = 0]
      /\ pc' = [pc EXCEPT ![c] = "idle"]
      /\ originService' = [originService EXCEPT ![c] = Nil]
      /\ forwarded' = [forwarded EXCEPT ![c] = Nil]
      /\ response' = [response EXCEPT ![c] = Nil]
      /\ UNCHANGED <<isolation, tmCheckVars, cpVars>> /\ strayed' = strayed \ {c}
      /\ pc[c] # "asking"
  BY DEF Finish
<1>2. /\ TM!TypeOK' /\ CP!TypeOK' /\ \A d \in Callers \ {c} : Grows(d)
      /\ tmState'[c] = "idle" /\ cpState'[c] = "idle"
      /\ tmState' = tmState /\ tmItem' = tmItem
      /\ cpState' = cpState /\ cpItem' = cpItem
  BY <1>1, NoCheckUnderWay DEF Grows
<1>3. /\ AG!TypeOK' /\ agState'[c] = "idle" /\ agReached'[c] = {}
      /\ \A d \in Callers \ {c} :
            agState'[d] = agState[d] /\ agReached'[d] = agReached[d]
  <2>1. CASE agState[c] = "idle" /\ UNCHANGED agVars
    <3>1. agReached[c] = {}
      BY <2>1 DEF IInv, CallerInv, ForwardsAtTheEnd
    <3> QED
      BY <2>1, <3>1, ChecksStay DEF IInv, agVars
  <2>2. CASE AG!Return(c)
    BY <2>2 DEF IInv, TypeOK, AG!TypeOK, AG!Return
  <2> QED
    BY <2>1, <2>2 DEF Finish
<1>4. TypeOK'
  BY <1>1, <1>2, <1>3 DEF IInv, TypeOK
<1>5. pc'[c] = "idle" /\ forwarded'[c] = Nil
  BY <1>1 DEF IInv, TypeOK
<1>6. CallerInv(c)'
  BY <1>2, <1>3, <1>5
  DEF CallerInv, PassedIsEstablished, AsksForItsStage, AdmittedHasReason,
      ForwardsAtTheEnd, AnswersTruly, PanicsForAReason
<1>7. \A d \in Callers \ {c} : Local(d)' = Local(d)
  BY <1>1, <1>2, <1>3 DEF IInv, TypeOK, Local
<1> QED
  BY <1>1, <1>2, <1>4, <1>6, <1>7, OthersStay

\* dbaas-aggregator runs a request, perhaps one that is given up already.
LEMMA AggregatorRunsKeeps ==
  ASSUME NEW c \in Callers, NEW code \in Verdicts, IInv, AggregatorRuns(c, code)
  PROVE  IInv'
<1>1. /\ AG!Run(c, code) /\ UNCHANGED <<isolation, tmVars, cpVars>>
      /\ UNCHANGED requestVars /\ isolation' = isolation
      /\ UNCHANGED tmVars /\ UNCHANGED cpVars
  BY DEF AggregatorRuns
<1>2. /\ request' = request /\ stage' = stage /\ pc' = pc
      /\ originService' = originService /\ forwarded' = forwarded
      /\ response' = response
  BY <1>1 DEF requestVars
<1>3. /\ TM!TypeOK' /\ CP!TypeOK' /\ tmEver' = tmEver /\ cpEver' = cpEver
      /\ strayed' = strayed /\ \A d \in Callers : Grows(d)
      /\ tmState' = tmState /\ tmItem' = tmItem
      /\ cpState' = cpState /\ cpItem' = cpItem
  BY <1>1, ChecksStay DEF IInv, tmVars, tmCheckVars, cpVars, Grows
<1>4. /\ AG!TypeOK' /\ agState' = agState /\ agState[c] # "idle"
      /\ agReached' = [agReached EXCEPT ![c] = @ \cup {code}]
  BY <1>1 DEF IInv, TypeOK, AG!TypeOK, AG!Run
<1>5. TypeOK'
  BY <1>1, <1>2, <1>3, <1>4 DEF IInv, TypeOK
<1>6. CallerInv(c)'
  <2>1. PassedIsEstablished(c)'
    BY <1>1, <1>2, <1>3, EstablishedStays DEF IInv, CallerInv, PassedIsEstablished
  <2>2. AsksForItsStage(c)' /\ AdmittedHasReason(c)' /\ PanicsForAReason(c)'
    BY <1>2, <1>3 DEF IInv, CallerInv, AsksForItsStage, AdmittedHasReason,
                      PanicsForAReason, StageOf, Classifier
  <2>3. agReached[c] \subseteq agReached'[c]
    BY <1>4 DEF IInv, TypeOK, AG!TypeOK
  <2>4. ForwardsAtTheEnd(c)' /\ AnswersTruly(c)'
    BY <1>2, <1>4, <2>3 DEF IInv, CallerInv, ForwardsAtTheEnd, AnswersTruly, StageOf
  <2> QED
    BY <2>1, <2>2, <2>4 DEF CallerInv
<1>7. \A d \in Callers \ {c} : Local(d)' = Local(d)
  BY <1>2, <1>3, <1>4 DEF IInv, TypeOK, AG!TypeOK, Local
<1> QED
  BY <1>1, <1>3, <1>5, <1>6, <1>7, OthersStay

-----------------------------------------------------------------------------

\* tenant-manager's list, or control-plane's, changes or decides a check.
LEMMA TenantManagerKeeps ==
  ASSUME IInv, TenantManager
  PROVE  IInv'
<1>1. /\ TM!Upstream /\ isolation' = isolation /\ strayed' = strayed
      /\ UNCHANGED requestVars /\ UNCHANGED agVars /\ UNCHANGED cpVars
  BY DEF TenantManager
<1>2. /\ request' = request /\ stage' = stage /\ pc' = pc
      /\ originService' = originService /\ forwarded' = forwarded
      /\ response' = response
  BY <1>1 DEF requestVars
<1>3. /\ TM!TypeOK' /\ tmEver \subseteq tmEver' /\ tmItem' = tmItem
      /\ \A c \in Callers :
            /\ tmState'[c] = "idle" <=> tmState[c] = "idle"
            /\ tmState'[c] # tmState[c] /\ tmState'[c] = "allowed" =>
                     tmItem[c] \in tmEver
  BY <1>1, TmUpstreamKeeps DEF IInv
<1>4. /\ CP!TypeOK' /\ AG!TypeOK' /\ cpEver' = cpEver
      /\ cpState' = cpState /\ cpItem' = cpItem
      /\ agState' = agState /\ agReached' = agReached
  BY <1>1, ChecksStay DEF IInv, cpVars, agVars
<1>5. TypeOK'
  BY <1>1, <1>2, <1>3, <1>4 DEF IInv, TypeOK
<1>6. ASSUME NEW c \in Callers
      PROVE  CallerInv(c)'
  <2>1. PassedIsEstablished(c)'
    BY <1>1, <1>2, <1>3, <1>4, EstablishedStays
    DEF IInv, CallerInv, PassedIsEstablished, Grows
  <2>2. AsksForItsStage(c)'
    BY <1>2, <1>3, <1>4 DEF IInv, CallerInv, AsksForItsStage, StageOf, Classifier
  <2>3. AdmittedHasReason(c)'
    BY <1>3, <1>4 DEF IInv, CallerInv, AdmittedHasReason
  <2>4. ForwardsAtTheEnd(c)' /\ AnswersTruly(c)' /\ PanicsForAReason(c)'
    BY <1>2, <1>4
    DEF IInv, CallerInv, ForwardsAtTheEnd, AnswersTruly, PanicsForAReason, StageOf
  <2> QED
    BY <2>1, <2>2, <2>3, <2>4 DEF CallerInv
<1> QED
  BY <1>5, <1>6 DEF IInv

LEMMA ControlPlaneKeeps ==
  ASSUME IInv, ControlPlane
  PROVE  IInv'
<1>1. /\ CP!Upstream /\ isolation' = isolation
      /\ UNCHANGED requestVars /\ UNCHANGED agVars /\ UNCHANGED tmVars
  BY DEF ControlPlane
<1>2. /\ request' = request /\ stage' = stage /\ pc' = pc
      /\ originService' = originService /\ forwarded' = forwarded
      /\ response' = response
  BY <1>1 DEF requestVars
<1>3. /\ CP!TypeOK' /\ cpEver \subseteq cpEver' /\ cpItem' = cpItem
      /\ \A c \in Callers :
            /\ cpState'[c] = "idle" <=> cpState[c] = "idle"
            /\ cpState'[c] # cpState[c] =>
                  /\ cpState'[c] = "allowed" => cpItem[c] \in cpEver
                  /\ cpState'[c] = "strayed" => cpItem[c] = Empty
  BY <1>1, CpUpstreamKeeps DEF IInv
<1>4. /\ TM!TypeOK' /\ AG!TypeOK' /\ tmEver' = tmEver /\ strayed' = strayed
      /\ tmState' = tmState /\ tmItem' = tmItem
      /\ agState' = agState /\ agReached' = agReached
  BY <1>1, ChecksStay DEF IInv, tmVars, tmCheckVars, agVars
<1>5. TypeOK'
  BY <1>1, <1>2, <1>3, <1>4 DEF IInv, TypeOK
<1>6. ASSUME NEW c \in Callers
      PROVE  CallerInv(c)'
  <2>1. PassedIsEstablished(c)'
    BY <1>1, <1>2, <1>3, <1>4, EstablishedStays
    DEF IInv, CallerInv, PassedIsEstablished, Grows
  <2>2. AsksForItsStage(c)'
    BY <1>2, <1>3, <1>4 DEF IInv, CallerInv, AsksForItsStage, StageOf, Classifier
  <2>3. AdmittedHasReason(c)'
    BY <1>3, <1>4 DEF IInv, CallerInv, AdmittedHasReason
  <2>4. ForwardsAtTheEnd(c)' /\ AnswersTruly(c)' /\ PanicsForAReason(c)'
    BY <1>2, <1>4
    DEF IInv, CallerInv, ForwardsAtTheEnd, AnswersTruly, PanicsForAReason, StageOf
  <2> QED
    BY <2>1, <2>2, <2>3, <2>4 DEF CallerInv
<1> QED
  BY <1>5, <1>6 DEF IInv

\* A goroutine without a request has nothing to show for.
LEMMA IdleEstablishes ==
  ASSUME NEW c \in Callers, pc[c] = "idle", forwarded[c] = Nil,
         tmState[c] = "idle", cpState[c] = "idle",
         agState[c] = "idle", agReached[c] = {}
  PROVE  CallerInv(c)
BY DEF CallerInv, PassedIsEstablished, AsksForItsStage, AdmittedHasReason,
       ForwardsAtTheEnd, AnswersTruly, PanicsForAReason

LEMMA InitEstablishes ==
  ASSUME Init
  PROVE  IInv
<1>1. /\ request = [c \in Callers |-> Nil] /\ stage = [c \in Callers |-> 0]
      /\ pc = [c \in Callers |-> "idle"] /\ isolation \in BOOLEAN
      /\ originService = [c \in Callers |-> Nil]
      /\ forwarded = [c \in Callers |-> Nil]
      /\ response = [c \in Callers |-> Nil] /\ strayed = {}
  BY DEF Init
<1>2. TM!TypeOK /\ tmState = [c \in Callers |-> "idle"]
  BY DEF Init, TM!Init, TM!TypeOK
<1>3. CP!TypeOK /\ cpState = [c \in Callers |-> "idle"]
  BY DEF Init, CP!Init, CP!TypeOK
<1>4. /\ AG!TypeOK /\ agState = [c \in Callers |-> "idle"]
      /\ agReached = [c \in Callers |-> {}]
  BY DEF Init, AG!Init, AG!TypeOK
<1>5. TypeOK
  BY <1>1, <1>2, <1>3, <1>4 DEF TypeOK
<1>6. \A c \in Callers : CallerInv(c)
  BY <1>1, <1>2, <1>3, <1>4, IdleEstablishes
<1> QED
  BY <1>5, <1>6 DEF IInv

LEMMA RestartKeeps ==
  ASSUME IInv, Restart
  PROVE  IInv'
<1>1. /\ request' = [c \in Callers |-> Nil] /\ stage' = [c \in Callers |-> 0]
      /\ pc' = [c \in Callers |-> "idle"] /\ isolation' = isolation
      /\ originService' = [c \in Callers |-> Nil]
      /\ forwarded' = [c \in Callers |-> Nil]
      /\ response' = [c \in Callers |-> Nil] /\ strayed' = {}
  BY DEF Restart
<1>2. TM!TypeOK' /\ tmState' = [c \in Callers |-> "idle"]
  BY DEF Restart, TM!Restart, TM!TypeOK, IInv, TypeOK
<1>3. CP!TypeOK' /\ cpState' = [c \in Callers |-> "idle"]
  BY DEF Restart, CP!Restart, CP!TypeOK, IInv, TypeOK
<1>4. /\ AG!TypeOK' /\ agState' = [c \in Callers |-> "idle"]
      /\ agReached' = [c \in Callers |-> {}]
  BY DEF Restart, AG!Restart, AG!TypeOK, IInv, TypeOK
<1>5. TypeOK'
  BY <1>1, <1>2, <1>3, <1>4 DEF IInv, TypeOK
<1>6. \A c \in Callers : CallerInv(c)'
  BY <1>1, <1>2, <1>3, <1>4
  DEF CallerInv, PassedIsEstablished, AsksForItsStage, AdmittedHasReason,
      ForwardsAtTheEnd, AnswersTruly, PanicsForAReason
<1> QED
  BY <1>5, <1>6 DEF IInv

LEMMA StepPreserves ==
  ASSUME IInv, [Next]_vars
  PROVE  IInv'
<1>1. ASSUME NEW c \in Callers, NEW r \in Incoming, Receive(c, r)
      PROVE  IInv'
  BY <1>1, ReceiveKeeps
<1>2. ASSUME NEW c \in Callers, Handling(c)
      PROVE  IInv'
  BY <1>2, ReadBodyKeeps, RequireBodyKeeps, CheckTenantIdKeeps,
     TenantCheckedKeeps, CheckNamespaceIsolationKeeps,
     ValidateNamespaceFromClassifierKeeps, NamespaceCheckedKeeps,
     SetOriginServiceKeeps, ForwardKeeps, ForwardingKeeps, FinishKeeps
  DEF Handling
<1>3. ASSUME NEW c \in Callers, NEW code \in Verdicts, AggregatorRuns(c, code)
      PROVE  IInv'
  BY <1>3, AggregatorRunsKeeps
<1>4. CASE UNCHANGED vars
  <2>1. /\ UNCHANGED requestVars /\ UNCHANGED agVars /\ UNCHANGED tmVars
        /\ UNCHANGED cpVars /\ isolation' = isolation
    BY <1>4 DEF vars
  <2>2. /\ request' = request /\ stage' = stage /\ pc' = pc
        /\ originService' = originService /\ forwarded' = forwarded
        /\ response' = response
    BY <2>1 DEF requestVars
  <2>3. /\ TypeOK' /\ tmEver' = tmEver /\ cpEver' = cpEver
        /\ strayed' = strayed
    BY <2>1, <2>2, ChecksStay DEF IInv, TypeOK
  <2>4. \A c \in Callers : Local(c)' = Local(c)
    BY <2>1, <2>2 DEF Local, agVars, tmVars, tmCheckVars, cpVars
  <2> QED
    BY <2>1, <2>3, <2>4, CallerInvStays DEF IInv, Grows
<1> QED
  BY <1>1, <1>2, <1>3, <1>4, TenantManagerKeeps, ControlPlaneKeeps, RestartKeeps
  DEF Next

-----------------------------------------------------------------------------

\* The invariant holds of every behaviour.
THEOREM Invariance == Spec => []IInv
<1>1. Init => IInv
  BY InitEstablishes
<1>2. IInv /\ [Next]_vars => IInv'
  BY StepPreserves
<1> QED
  BY <1>1, <1>2, PTL DEF Spec

\* Every goroutine is at a stage of the handler of its request's route, with
\* answers and calls of the kinds it can have.
THEOREM ControllerTypeCorrect == Spec => []TypeOK
<1>1. IInv => TypeOK
  BY DEF IInv
<1> QED
  BY <1>1, Invariance, PTL

\* Nothing is forwarded to dbaas-aggregator that its route's checks have not
\* authorised, however many requests are served at once and however the lists
\* of tenants and namespaces change between the checks; of the tenants, only
\* one that a torn copy of the cache let through need not have been listed.
THEOREM OnlyTheAuthorisedIsForwarded == Spec => []ForwardedIsAuthorised
<1>1. IInv => ForwardedIsAuthorised
  <2> SUFFICES ASSUME IInv, NEW c \in Callers, forwarded[c] # Nil
               PROVE  LET r == request[c]
                          t == TenantFromBody(r.body)
                          judged == r.route \in DatabaseRoutes \ {"delete"}
                      IN  /\ isolation /\ r.route \notin OpenRoutes =>
                                r.path \in cpEver \cup {Own}
                          /\ isolation /\ judged =>
                                GetNamespaceFromClassifier(Classifier(c))
                                   \in cpEver \cup {Own, Empty}
                          /\ judged /\ t \in Tenants /\ ~SkipsTenant(r) =>
                                t = r.tenant /\ (t \in tmEver \/ c \in strayed)
                          /\ r.route \in DatabaseRoutes =>
                                /\ forwarded[c].originService
                                      = Classifier(c).microserviceName
                                /\ forwarded[c].originService \in Services
    BY DEF ForwardedIsAuthorised, SkipsTenant
  <2>1. /\ pc[c] \in {"forwarding", "answered"} /\ StageOf(c) = "forward"
        /\ forwarded[c].originService = originService[c]
    BY DEF IInv, CallerInv, ForwardsAtTheEnd
  <2>2. PICK route \in Routes : route = request[c].route
    BY <2>1, ServedRequest DEF IInv, Requests
  <2>3. PICK k \in 1..Len(Stages(route)) : k = stage[c]
    BY <2>1, <2>2, ServedRequest DEF IInv
  <2> DEFINE Passed(name) == \E j \in 1..(k - 1) : Stages(route)[j] = name
  <2>4. ASSUME NEW name, Passed(name)
        PROVE  Established(c, name)
    BY <2>1, <2>2, <2>3, <2>4 DEF IInv, CallerInv, PassedIsEstablished, Established
  <2>5. Stages(route)[k] = "forward"
    BY <2>1, <2>2, <2>3 DEF StageOf
  <2>6. /\ route \notin OpenRoutes => Passed("path")
        /\ route \in DatabaseRoutes => Passed("origin")
        /\ route \in DatabaseRoutes \ {"delete"} =>
              Passed("tenant") /\ Passed("classifier")
    BY <2>5, PassedByRoute
  <2>7. /\ route \notin OpenRoutes => Established(c, "path")
        /\ route \in DatabaseRoutes => Established(c, "origin")
        /\ route \in DatabaseRoutes \ {"delete"} =>
              Established(c, "tenant") /\ Established(c, "classifier")
    BY <2>4, <2>6
  <2> QED
    BY <2>1, <2>2, <2>7 DEF Established
<1> QED
  BY <1>1, Invariance, PTL

\* What a client is told of its request is true of what dbaas-aggregator did
\* with it, whichever attempts were lost or came too late.
THEOREM AnswersAreTrue == Spec => []AnswerTellsTheOutcome
<1>1. IInv => AnswerTellsTheOutcome
  BY DEF IInv, CallerInv, AnswersTruly, AnswerTellsTheOutcome
<1> QED
  BY <1>1, Invariance, PTL

\* No body of the shape that the API describes makes a handler panic.
THEOREM OnlyTheMalformedPanics == Spec => []WellFormedNeverPanics
<1>1. IInv => WellFormedNeverPanics
  BY DEF IInv, CallerInv, PanicsForAReason, WellFormedNeverPanics
<1> QED
  BY <1>1, Invariance, PTL
=============================================================================
