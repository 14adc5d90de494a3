------------------------------ MODULE Requests ------------------------------
(***************************************************************************)
(* The requests a dbaas-agent serves, and what its handlers read from      *)
(* their JSON bodies.  The bodies are maps of interfaces: nothing checks   *)
(* their shape before a field is read, and a type assertion on a value of  *)
(* another type panics.                                                    *)
(***************************************************************************)
CONSTANTS Tenants,     \* tenant ids that are not empty
          Namespaces,  \* namespaces that are not empty
          Services,    \* microservice names that are not empty
          Absent,      \* a field that is not there
          Null,        \* null
          Other,       \* a JSON value that is no string, no object and not null
          Empty,       \* the empty string
          NoBody,      \* no body at all, or null
          Unreadable,  \* a body that is not a JSON object
          NoContext    \* no tenant in the request's context

JsonOddities == {Absent, Null, Other}

Classifiers == [namespace : Namespaces \cup {Empty} \cup JsonOddities,
                tenantId : Tenants \cup {Empty} \cup JsonOddities,
                microserviceName : Services \cup {Empty} \cup JsonOddities]

Objects == [classifier : Classifiers \cup JsonOddities,
            tenantId : Tenants \cup {Empty} \cup JsonOddities]

\* The routes of lib/server.go, the ones with the same handler as one.
DatabaseRoutes == {"getOrCreate", "getByClassifier", "delete", "register"}
OpenRoutes == {"physical", "forward", "health"}  \* those without any check
Routes == DatabaseRoutes \cup OpenRoutes \cup {"list"}

\* The tenant is the one of the request's context, the path's namespace a
\* segment of the URL.
Requests == [route : Routes,
             tenant : Tenants \cup {Empty, NoContext},
             path : Namespaces,
             query : BOOLEAN,
             body : Objects \cup {NoBody, Unreadable}]

ASSUME RequestsAssumption ==
  /\ {Absent, Null, Other, Empty, NoBody, Unreadable, NoContext,
      "panic", "error", "none"} \cap (Tenants \cup Namespaces \cup Services) = {}
  /\ Absent # Null /\ Absent # Other /\ Null # Other
  /\ Empty \notin JsonOddities \cup {"panic", "error", "none"}
  /\ JsonOddities \cap Classifiers = {}
  /\ {NoBody, Unreadable} \cap Objects = {}

-----------------------------------------------------------------------------

\* body["classifier"], of a body that may be nil.
ClassifierOf(body) == IF body = NoBody THEN Absent ELSE body.classifier

\* What a handler makes of a field: its value, or one of these.
Outcomes == {"panic", "error", "none"}

\* Mutant: a tenantId of null is not told apart from a string.
TenantFromBodyUnguarded(body) ==
  IF body = NoBody THEN "none"
  ELSE LET cl == body.classifier
       IN CASE cl \in Classifiers ->
                 (CASE cl.tenantId = Absent -> "none"
                    [] cl.tenantId = Empty -> "error"
                    [] cl.tenantId \in {Null, Other} -> "panic"
                    [] OTHER -> cl.tenantId)
            [] cl \in {Null, Other} -> "panic"
            [] cl = Absent ->
                 (CASE body.tenantId \in {Absent, Empty} -> "none"
                    [] body.tenantId \in {Null, Other} -> "panic"
                    [] OTHER -> body.tenantId)

\* CheckTenantId: the tenant id in the body.  The one beside the classifier
\* counts only if there is no classifier.
TenantFromBody(body) ==
  IF body = NoBody THEN "none"
  ELSE LET cl == body.classifier
       IN CASE cl \in Classifiers ->
                 (CASE cl.tenantId = Absent -> "none"
                    [] cl.tenantId \in {Null, Empty} -> "error"
                    [] cl.tenantId = Other -> "panic"
                    [] OTHER -> cl.tenantId)
            [] cl \in {Null, Other} -> "panic"
            [] cl = Absent ->
                 (CASE body.tenantId \in {Absent, Empty} -> "none"
                    [] body.tenantId \in {Null, Other} -> "panic"
                    [] OTHER -> body.tenantId)

GetNamespaceFromClassifier(cl) ==
  CASE cl \in {Absent, Null} -> "error"
    [] cl = Other -> "panic"
    [] cl \in Classifiers ->
         IF cl.namespace \in JsonOddities THEN "error" ELSE cl.namespace

\* GetServiceName, whose result is the body's originService.
GetServiceName(cl) ==
  CASE cl \in {Absent, Null} -> "error"
    [] cl = Other -> "panic"
    [] cl \in Classifiers ->
         (CASE cl.microserviceName = Absent -> "error"
            [] cl.microserviceName \in {Null, Other} -> "panic"
            [] OTHER -> cl.microserviceName)

\* A body as the API describes it: a classifier with strings where the
\* handlers look for them.
WellFormed(body) ==
  /\ body \in Objects
  /\ body.classifier \in Classifiers
  /\ body.classifier.tenantId # Other
  /\ body.classifier.microserviceName \notin {Null, Other}
=============================================================================
