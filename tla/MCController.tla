---------------------------- MODULE MCController ----------------------------
(***************************************************************************)
(* Instances of Controller for TLC.                                        *)
(***************************************************************************)
EXTENDS Controller, TLC

CONSTANTS t1, t2, sat, svc

Good == [namespace |-> sat, tenantId |-> t1, microserviceName |-> svc]

\* Good, and what it is when one of its fields is something else.
MCClassifiers ==
  [namespace : {Absent, Empty, Own, sat}, tenantId : {t1},
   microserviceName : {svc}]
  \cup [namespace : {sat}, tenantId : {Absent, Null, Other, Empty, t2},
        microserviceName : {svc}]
  \cup [namespace : {Own}, tenantId : {Absent},
        microserviceName : {Absent, Other, Empty}]

MCBodies ==
  {NoBody, Unreadable}
  \cup [classifier : MCClassifiers \cup {Null}, tenantId : {Absent}]
  \cup [classifier : {Absent}, tenantId : {Absent, Null, t1}]

Second == [Good EXCEPT !.tenantId = t2]

DatabaseRequests ==
  [route : DatabaseRoutes, tenant : {Empty, t1}, path : {sat},
   query : {FALSE}, body : MCBodies]
  \cup [route : DatabaseRoutes, tenant : {t2}, path : {sat},
        query : {FALSE}, body : [classifier : {Second}, tenantId : {Absent}]]
  \cup [route : DatabaseRoutes, tenant : {NoContext}, path : {Own},
        query : {FALSE}, body : [classifier : {Good}, tenantId : {Absent}]]

OtherRequests ==
  [route : {"list"}, tenant : {Empty}, path : {Own, sat},
   query : BOOLEAN, body : {NoBody}]
  \cup [route : OpenRoutes, tenant : {Empty}, path : {sat},
        query : {FALSE}, body : {NoBody, Unreadable}]

MCIncoming == DatabaseRequests \cup OtherRequests
=============================================================================
