----------------------------- MODULE Controller -----------------------------
(***************************************************************************)
(* The handlers (controller/dba_controller.go), each a pipeline of stages  *)
(* that a request passes one after the other until one of them answers it. *)
(* The checks are those of MembershipCheck, one instance of it for         *)
(* tenant-manager and one for control-plane, and go on while other         *)
(* requests are served and the lists of the two change.  What is forwarded *)
(* goes through an exchange of Exchange: dbaas-aggregator may do what it   *)
(* was asked, once or more, and yet not be heard.                          *)
(***************************************************************************)
EXTENDS Requests, Sequences, Naturals

CONSTANTS Callers,     \* the goroutines serving requests
          Incoming,    \* the requests to consider
          Own,         \* the namespace of this dbaas-agent
          Nil

ASSUME ControllerAssumption ==
  /\ Incoming \subseteq Requests
  /\ Own \in Namespaces
  /\ Nil \notin Tenants \cup Namespaces \cup Services \cup {Empty}

VARIABLES isolation,   \* namespaceIsolationEnabled
          request,     \* the request a goroutine serves
          stage,       \* the stage of its handler that it has come to
          pc,          \* what the goroutine does about it
          originService,  \* the field it has put into the body
          forwarded,   \* what it has sent to dbaas-aggregator
          response,    \* the answer: who decided it, and the code
          strayed,     \* history: whose tenant a torn cache let through
          tmListed, tmEver, tmState, tmItem, tmAbsent,
          cpListed, cpEver, cpState, cpItem, cpAbsent,
          agState, agReached, agAnswer  \* the exchange with dbaas-aggregator

tmCheckVars == <<tmListed, tmEver, tmState, tmItem, tmAbsent>>
tmVars == <<tmCheckVars, strayed>>
cpVars == <<cpListed, cpEver, cpState, cpItem, cpAbsent>>
agVars == <<agState, agReached, agAnswer>>
requestVars == <<request, stage, pc, originService, forwarded, response>>
vars == <<isolation, requestVars, agVars, tmVars, cpVars>>

TM == INSTANCE MembershipCheck WITH
  Items <- Tenants, StrayItems <- Tenants,
  listed <- tmListed, ever <- tmEver, state <- tmState, item <- tmItem,
  absent <- tmAbsent

CP == INSTANCE MembershipCheck WITH
  Items <- (Namespaces \ {Own}) \cup {Empty}, StrayItems <- {Empty},
  listed <- cpListed, ever <- cpEver, state <- cpState, item <- cpItem,
  absent <- cpAbsent

OK == 200
BadRequest == 400
Forbidden == 403
NotFound == 404
ServerError == 500

\* The status codes that the handlers, or their clients, tell apart.
Verdicts == {OK, NotFound, ServerError}

AG == INSTANCE Exchange WITH
  Answers <- Verdicts, exState <- agState, reached <- agReached,
  answer <- agAnswer

\* What each handler does, in its order.
HandleGetOrCreateDatabaseV3 ==
  <<"read", "body", "tenant", "path", "classifier", "origin", "forward">>
HandleGettingConnectionByClassifierV3 ==
  <<"read", "tenant", "path", "classifier", "origin", "forward">>
HandleDeletionByClassifier == <<"read", "origin", "path", "forward">>
HandleRegistrationExternallyManageableDBV3 ==
  <<"read", "tenant", "path", "classifier", "origin", "forward">>
HandleGettingAllDatabasesByNamespaceV3 == <<"path", "forward">>
HandleGettingPhysicalDatabases == <<"forward">>
ForwardHandler == <<"forward">>
HandleGetHealth == <<"forward">>

Stages(route) ==
  CASE route = "getOrCreate" -> HandleGetOrCreateDatabaseV3
    [] route = "getByClassifier" -> HandleGettingConnectionByClassifierV3
    [] route = "delete" -> HandleDeletionByClassifier
    [] route = "register" -> HandleRegistrationExternallyManageableDBV3
    [] route = "list" -> HandleGettingAllDatabasesByNamespaceV3
    [] route = "physical" -> HandleGettingPhysicalDatabases
    [] route = "forward" -> ForwardHandler
    [] route = "health" -> HandleGetHealth

Init ==
  /\ isolation \in BOOLEAN
  /\ request = [c \in Callers |-> Nil]
  /\ stage = [c \in Callers |-> 0]
  /\ pc = [c \in Callers |-> "idle"]
  /\ originService = [c \in Callers |-> Nil]
  /\ forwarded = [c \in Callers |-> Nil]
  /\ response = [c \in Callers |-> Nil]
  /\ strayed = {}
  /\ TM!Init
  /\ CP!Init
  /\ AG!Init

-----------------------------------------------------------------------------

Receive(c, r) ==
  /\ pc[c] = "idle"
  /\ request' = [request EXCEPT ![c] = r]
  /\ stage' = [stage EXCEPT ![c] = 1]
  /\ pc' = [pc EXCEPT ![c] = "working"]
  /\ UNCHANGED <<isolation, originService, forwarded, response, agVars, tmVars,
                 cpVars>>

At(c, name) == pc[c] = "working" /\ Stages(request[c].route)[stage[c]] = name

Classifier(c) == ClassifierOf(request[c].body)

\* The ways a stage ends.
Pass(c) ==
  /\ stage' = [stage EXCEPT ![c] = @ + 1]
  /\ pc' = [pc EXCEPT ![c] = "working"]
  /\ UNCHANGED response

Respond(c, by, code) ==
  /\ pc' = [pc EXCEPT ![c] = "answered"]
  /\ response' = [response EXCEPT ![c] = [by |-> by, code |-> code]]
  /\ UNCHANGED stage

Refuse(c, code) == Respond(c, "agent", code)

Panic(c) ==
  /\ pc' = [pc EXCEPT ![c] = "panicked"]
  /\ UNCHANGED <<stage, response>>

unchangedByChecks == <<isolation, request, forwarded, agVars>>

\* readRequestBody
ReadBody(c) ==
  /\ At(c, "read")
  /\ IF request[c].body = Unreadable THEN Refuse(c, ServerError) ELSE Pass(c)
  /\ UNCHANGED <<unchangedByChecks, originService, tmVars, cpVars>>

RequireBody(c) ==
  /\ At(c, "body")
  /\ IF request[c].body = NoBody THEN Refuse(c, BadRequest) ELSE Pass(c)
  /\ UNCHANGED <<unchangedByChecks, originService, tmVars, cpVars>>

\* CheckTenantId, up to the call of CheckTenantIdExist.
CheckTenantId(c) ==
  LET r == request[c]
      t == TenantFromBody(r.body)
      skipped == r.route = "register" /\ r.tenant = Empty
  IN
  /\ At(c, "tenant")
  /\ \/ /\ r.tenant = NoContext
        /\ Refuse(c, Forbidden)
        /\ UNCHANGED tmVars
     \/ /\ r.tenant # NoContext
        /\ skipped \/ t = "none"
        /\ Pass(c)
        /\ UNCHANGED tmVars
     \/ /\ r.tenant # NoContext /\ ~skipped
        /\ t = "panic"
        /\ Panic(c)
        /\ UNCHANGED tmVars
     \/ /\ r.tenant # NoContext /\ ~skipped
        /\ t = "error" \/ (t \in Tenants /\ t # r.tenant)
        /\ Refuse(c, Forbidden)
        /\ UNCHANGED tmVars
     \/ /\ ~skipped
        /\ t \in Tenants /\ t = r.tenant
        /\ TM!Ask(c, t)
        /\ UNCHANGED strayed
        /\ pc' = [pc EXCEPT ![c] = "asking"]
        /\ UNCHANGED <<stage, response>>
  /\ UNCHANGED <<unchangedByChecks, originService, cpVars>>

\* A torn cache is what let this tenant through.
NoteStray(c) == strayed' = IF tmState[c] = "strayed" THEN strayed \cup {c}
                                                     ELSE strayed

\* Mutant: only a denial is looked at, and an error is not one.
TenantCheckedOpen(c) ==
  /\ pc[c] = "asking"
  /\ tmState[c] \in TM!Answers
  /\ TM!Return(c)
  /\ NoteStray(c)
  /\ IF tmState[c] # "denied" THEN Pass(c) ELSE Refuse(c, Forbidden)
  /\ UNCHANGED <<unchangedByChecks, originService, cpVars>>

\* What CheckTenantIdExist returned.
TenantChecked(c) ==
  /\ pc[c] = "asking"
  /\ tmState[c] \in TM!Answers
  /\ TM!Return(c)
  /\ NoteStray(c)
  /\ IF tmState[c] \in {"allowed", "strayed"} THEN Pass(c)
                                              ELSE Refuse(c, Forbidden)
  /\ UNCHANGED <<unchangedByChecks, originService, cpVars>>

\* CheckNamespaceIsolation and CheckNamespaceFromClassifier, up to the call
\* of GetCompositeStructure.
Exempt(ns) == ~isolation \/ ns = Own

CheckNamespace(c, ns) ==
  \/ Exempt(ns) /\ Pass(c) /\ UNCHANGED cpVars
  \/ /\ ~Exempt(ns)
     /\ CP!Ask(c, ns)
     /\ pc' = [pc EXCEPT ![c] = "asking"]
     /\ UNCHANGED <<stage, response>>

CheckNamespaceIsolation(c) ==
  /\ At(c, "path")
  /\ CheckNamespace(c, request[c].path)
  /\ UNCHANGED <<unchangedByChecks, originService, tmVars>>

ValidateNamespaceFromClassifier(c) ==
  LET ns == GetNamespaceFromClassifier(Classifier(c)) IN
  /\ At(c, "classifier")
  /\ \/ ns = "panic" /\ Panic(c) /\ UNCHANGED cpVars
     \/ ns = "error" /\ Refuse(c, BadRequest) /\ UNCHANGED cpVars
     \/ ns \notin {"panic", "error"} /\ CheckNamespace(c, ns)
  /\ UNCHANGED <<unchangedByChecks, originService, tmVars>>

\* What the check of a namespace returned.
NamespaceChecked(c) ==
  /\ pc[c] = "asking"
  /\ cpState[c] \in CP!Answers
  /\ CP!Return(c)
  /\ IF cpState[c] \in {"allowed", "strayed"} THEN Pass(c)
                                              ELSE Refuse(c, Forbidden)
  /\ UNCHANGED <<unchangedByChecks, originService, tmVars>>

\* Mutant: the length of the name is not looked at.
SetOriginServiceUnchecked(c) ==
  LET name == GetServiceName(Classifier(c)) IN
  /\ At(c, "origin")
  /\ \/ name = "panic" /\ Panic(c) /\ UNCHANGED originService
     \/ name = "error" /\ Refuse(c, ServerError) /\ UNCHANGED originService
     \/ /\ name \notin {"panic", "error"}
        /\ originService' = [originService EXCEPT ![c] = name]
        /\ Pass(c)
  /\ UNCHANGED <<unchangedByChecks, tmVars, cpVars>>

\* GetServiceName; the body is enriched with its result.
SetOriginService(c) ==
  LET name == GetServiceName(Classifier(c)) IN
  /\ At(c, "origin")
  /\ \/ name = "panic" /\ Panic(c) /\ UNCHANGED originService
     \/ name = "error" /\ Refuse(c, ServerError) /\ UNCHANGED originService
     \/ name = Empty /\ Refuse(c, BadRequest) /\ UNCHANGED originService
     \/ /\ name \in Services
        /\ originService' = [originService EXCEPT ![c] = name]
        /\ Pass(c)
  /\ UNCHANGED <<unchangedByChecks, tmVars, cpVars>>

-----------------------------------------------------------------------------

\* The routes that forward a body; the others send none, whatever they got.
SendsBody(route) == route \in DatabaseRoutes \cup {"forward"}

\* Forwarder.DoRequest(c.Method(), c.Path(), body): the path is without the
\* query of the request.
Forward(c) ==
  /\ At(c, "forward")
  /\ forwarded' = [forwarded EXCEPT ![c] =
       [route |-> request[c].route, path |-> request[c].path, query |-> FALSE,
        body |-> IF SendsBody(request[c].route) THEN request[c].body ELSE NoBody,
        originService |-> originService[c]]]
  /\ pc' = [pc EXCEPT ![c] = "forwarding"]
  /\ AG!Ask(c)
  /\ UNCHANGED <<isolation, request, stage, originService, response, tmVars,
                 cpVars>>

\* dbaas-aggregator carries the request out, or refuses to.
AggregatorRuns(c, code) ==
  /\ AG!Run(c, code)
  /\ UNCHANGED <<isolation, requestVars, tmVars, cpVars>>

\* An answer arrives and is passed on; the registration's handler takes a 404
\* for an aggregator that is too old.
ForwardReturns(c) ==
  /\ pc[c] = "forwarding"
  /\ \E code \in agReached[c] :
        /\ AG!Answered(c, code)
        /\ Respond(c, IF request[c].route = "register" /\ code = NotFound
                      THEN "agent" ELSE "aggregator", code)
  /\ UNCHANGED <<isolation, request, originService, forwarded, tmVars, cpVars>>

\* Mutant: an exchange that failed is taken for an answer.
ForwardFailsUnnoticed(c) ==
  /\ pc[c] = "forwarding"
  /\ AG!Fail(c)
  /\ Respond(c, "aggregator", OK)
  /\ UNCHANGED <<isolation, request, originService, forwarded, tmVars, cpVars>>

\* A timeout or a broken connection, before or after the aggregator ran.
ForwardFails(c) ==
  /\ pc[c] = "forwarding"
  /\ AG!Fail(c)
  /\ Refuse(c, ServerError)
  /\ UNCHANGED <<isolation, request, originService, forwarded, tmVars, cpVars>>

\* The answer is written; or a panic has been caught above the handlers.
Finish(c) ==
  /\ pc[c] \in {"answered", "panicked"}
  /\ request' = [request EXCEPT ![c] = Nil]
  /\ stage' = [stage EXCEPT ![c] = 0]
  /\ pc' = [pc EXCEPT ![c] = "idle"]
  /\ originService' = [originService EXCEPT ![c] = Nil]
  /\ forwarded' = [forwarded EXCEPT ![c] = Nil]
  /\ response' = [response EXCEPT ![c] = Nil]
  /\ IF agState[c] = "idle" THEN UNCHANGED agVars ELSE AG!Return(c)
  /\ strayed' = strayed \ {c}
  /\ UNCHANGED <<isolation, tmCheckVars, cpVars>>

-----------------------------------------------------------------------------

TenantManager ==
  TM!Upstream /\ UNCHANGED <<isolation, requestVars, agVars, strayed, cpVars>>
ControlPlane == CP!Upstream /\ UNCHANGED <<isolation, requestVars, agVars, tmVars>>

\* The process dies, of a panic or of a redeployment, and starts again.
Restart ==
  /\ request' = [c \in Callers |-> Nil]
  /\ stage' = [c \in Callers |-> 0]
  /\ pc' = [c \in Callers |-> "idle"]
  /\ originService' = [c \in Callers |-> Nil]
  /\ forwarded' = [c \in Callers |-> Nil]
  /\ response' = [c \in Callers |-> Nil]
  /\ strayed' = {}
  /\ TM!Restart
  /\ CP!Restart
  /\ AG!Restart
  /\ UNCHANGED isolation

\* Mutant: a client of dbaas-aggregator without timeouts, as the REST client is.
ForwardingUntimed(c) == ForwardReturns(c)

Forwarding(c) == ForwardReturns(c) \/ ForwardFails(c)

Handling(c) ==
  \/ ReadBody(c) \/ RequireBody(c)
  \/ CheckTenantId(c) \/ TenantChecked(c)
  \/ CheckNamespaceIsolation(c) \/ ValidateNamespaceFromClassifier(c)
  \/ NamespaceChecked(c)
  \/ SetOriginService(c)
  \/ Forward(c)
  \/ Forwarding(c)
  \/ Finish(c)

Next ==
  \/ \E c \in Callers :
        \/ \E r \in Incoming : Receive(c, r)
        \/ Handling(c)
        \/ \E code \in Verdicts : AggregatorRuns(c, code)
  \/ TenantManager
  \/ ControlPlane
  \/ Restart

Spec == Init /\ [][Next]_vars

\* The goroutines run, and the forwarder's timeouts end every exchange with
\* dbaas-aggregator.  Nothing ends a call to tenant-manager or control-plane.
FairSpec == Spec /\ \A c \in Callers : WF_vars(Handling(c))

-----------------------------------------------------------------------------

Answers == [by : {"agent"}, code : {BadRequest, Forbidden, NotFound, ServerError}]
             \cup [by : {"aggregator"}, code : Verdicts]

Forwarded == [route : Routes, path : Namespaces, query : {FALSE},
              body : Objects \cup {NoBody, Unreadable},
              originService : Services \cup {Nil}]

TypeOK ==
  /\ isolation \in BOOLEAN
  /\ pc \in [Callers -> {"idle", "working", "asking", "forwarding", "answered",
                         "panicked"}]
  /\ originService \in [Callers -> Services \cup {Nil}]
  /\ response \in [Callers -> Answers \cup {Nil}]
  /\ request \in [Callers -> Incoming \cup {Nil}]
  /\ stage \in [Callers -> Nat]
  /\ forwarded \in [Callers -> Forwarded \cup {Nil}]
  /\ \A c \in Callers : pc[c] # "idle" =>
        /\ request[c] \in Incoming
        /\ stage[c] \in 1..Len(Stages(request[c].route))
  /\ strayed \in SUBSET Callers
  /\ TM!TypeOK
  /\ CP!TypeOK
  /\ AG!TypeOK

\* What has been sent to dbaas-aggregator was authorised, route by route:
\*  - the path's namespace is the agent's own or has been in the platform
\*    since this process started;
\*  - so is the classifier's, except on the delete route (an empty one passes:
\*    see ControlPlaneClient);
\*  - a tenant in the body is the tenant of the request and one that
\*    tenant-manager has listed since then, except on the delete route, and on
\*    registration when the request has no tenant of its own;
\*  - a database request names its origin service.
\* The lists may have changed any number of times between these checks, so
\* what they allowed need not be listed any more.  (Short of a tenant that
\* passed on a torn copy of the cache: TenantManagerClient!Strays.)
ForwardedIsAuthorised ==
  \A c \in Callers : forwarded[c] # Nil =>
     LET r == request[c]
         t == TenantFromBody(r.body)
         judged == r.route \in DatabaseRoutes \ {"delete"}
     IN  /\ isolation /\ r.route \notin OpenRoutes => r.path \in cpEver \cup {Own}
         /\ isolation /\ judged =>
               GetNamespaceFromClassifier(Classifier(c))
                  \in cpEver \cup {Own, Empty}
         /\ judged /\ t \in Tenants /\ ~(r.route = "register" /\ r.tenant = Empty) =>
               t = r.tenant /\ (t \in tmEver \/ c \in strayed)
         /\ r.route \in DatabaseRoutes =>
               /\ forwarded[c].originService = Classifier(c).microserviceName
               /\ forwarded[c].originService \in Services

\* The client learns what became of its request: an answer in the aggregator's
\* name, and the 404 of the registration, is one the aggregator came to for this
\* very request; a refusal by the agent says that the aggregator was never asked
\* and never will be.  Only a 500 by the agent leaves it open.
AnswerTellsTheOutcome ==
  \A c \in Callers : pc[c] = "answered" =>
     /\ response[c].by = "aggregator" \/ response[c].code = NotFound =>
           response[c].code \in agReached[c]
     /\ response[c].by = "agent" /\ response[c].code \in {BadRequest, Forbidden} =>
           agState[c] = "idle" /\ agReached[c] = {} /\ forwarded[c] = Nil

\* A handler panics only over a body that the API does not describe.
WellFormedNeverPanics ==
  \A c \in Callers : pc[c] = "panicked" => ~WellFormed(request[c].body)

\* A request without a proper classifier is answered with "request must contain
\* a classifier" (GetNamespaceFromClassifier), also when the classifier is null.
NullClassifierIsAnswered ==
  \A c \in Callers : pc[c] = "panicked" => Classifier(c) # Null

\* The list route has a query parameter withResources, for dbaas-aggregator.
QueryReachesAggregator ==
  \A c \in Callers : forwarded[c] # Nil /\ request[c].route = "list" =>
     forwarded[c].query = request[c].query

\* A request is answered, or the answer of tenant-manager or control-plane
\* never comes: the calls without a timeout are the only place where the
\* process lets a request hang, whatever dbaas-aggregator does.
HangsOnlyInAChecksCall ==
  \A c \in Callers :
     \/ []<>(pc[c] = "idle")
     \/ <>[](tmState[c] = "asking" \/ cpState[c] = "asking")
=============================================================================
