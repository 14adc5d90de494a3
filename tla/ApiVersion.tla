----------------------------- MODULE ApiVersion -----------------------------
(***************************************************************************)
(* The API version service (service/api_version_service_impl.go).  Asked   *)
(* for the versions of its API, the agent asks dbaas-aggregator for the    *)
(* versions of the aggregator's, in an exchange of Exchange, and answers   *)
(* with what both have: for every root URL in both lists, the majors both  *)
(* support and the lower of the two minors.  The aggregator may be         *)
(* upgraded meanwhile.                                                     *)
(***************************************************************************)
EXTENDS Naturals, SequencesExt, FiniteSetsExt

CONSTANTS Callers,
          AgentLists,       \* what the agent's own file may list
          AggregatorLists,  \* and what the aggregator may answer
          NotJson,          \* an answer that does not parse, or not as a list
          Invalid,          \* a file that the validation refuses
          Missing,          \* a minor that is not there
          MaxReplies,       \* bound: replies the aggregator comes to in an exchange
          MaxLists,         \* bound: lists it has during one
          Nil

IsList(list) == list \in Seq(ToSet(list))

\* A specification, as it is in both lists (apiversion.Info).
IsInfo(spec) ==
  /\ DOMAIN spec = {"specRootUrl", "major", "minor", "supportedMajors"}
  /\ spec.minor \in Nat \cup {Missing}
  /\ IsList(spec.supportedMajors)

ASSUME ApiVersionAssumption ==
  /\ \A list \in (AgentLists \ {Invalid}) \cup AggregatorLists :
        IsList(list) /\ \A k \in DOMAIN list : IsInfo(list[k])
  /\ {NotJson, Nil} \cap AggregatorLists = {}
  /\ NotJson # Nil
  /\ MaxReplies \in Nat /\ MaxLists \in Nat

OK == 200
ServerError == 500

\* An error's JSON object parses into a list without specifications.
NoSpecs == <<>>
Replies == [code : {OK, ServerError}, body : AggregatorLists \cup {NoSpecs, NotJson}]

VARIABLES agentSpecs,  \* the agent's own list
          dbaasSpecs,  \* the aggregator's list, at this time
          seen,        \* the lists it had while a caller was asking
          avPc,        \* where a caller is in GetApiVersion
          resultSpecs, \* what GetApiVersion returned
          exState, reached, answer

exVars == <<exState, reached, answer>>
vars == <<agentSpecs, dbaasSpecs, seen, avPc, resultSpecs, exVars>>

EX == INSTANCE Exchange WITH Answers <- Replies

Init ==
  /\ agentSpecs \in AgentLists
  /\ dbaasSpecs \in AggregatorLists
  /\ seen = [c \in Callers |-> {}]
  /\ avPc = [c \in Callers |-> "idle"]
  /\ resultSpecs = [c \in Callers |-> Nil]
  /\ EX!Init

-----------------------------------------------------------------------------

\* Mutant: the majors of the one list, if the other has any of them.
FindSomeMajors(firstMajors, secondMajors) ==
  IF ToSet(firstMajors) \cap ToSet(secondMajors) = {} THEN <<>> ELSE firstMajors

\* In the order of the first, as often as in both.
FindCommonMajors(firstMajors, secondMajors) ==
  FlattenSeq([k \in DOMAIN firstMajors |->
    FlattenSeq([j \in DOMAIN secondMajors |->
      IF firstMajors[k] = secondMajors[j] THEN <<firstMajors[k]>> ELSE <<>>])])

\* Mutant: any two specifications are merged.
MatchesAnyRoot(agentSpec, dbaasSpec) == TRUE

Matches(agentSpec, dbaasSpec) == dbaasSpec.specRootUrl = agentSpec.specRootUrl

MergedInfo(agentSpec, dbaasSpec) ==
  [agentSpec EXCEPT
     !.minor = IF dbaasSpec.minor < agentSpec.minor THEN dbaasSpec.minor ELSE @,
     !.supportedMajors = FindCommonMajors(dbaasSpec.supportedMajors, @)]

\* The loop over both lists.
Merged(agentList, dbaasList) ==
  FlattenSeq([k \in DOMAIN agentList |->
    FlattenSeq([j \in DOMAIN dbaasList |->
      IF Matches(agentList[k], dbaasList[j])
      THEN <<MergedInfo(agentList[k], dbaasList[j])>> ELSE <<>>])])

\* Minors are dereferenced, unchecked, where roots match.
DereferencesMissing(agentList, dbaasList) ==
  \E k \in DOMAIN agentList, j \in DOMAIN dbaasList :
     /\ Matches(agentList[k], dbaasList[j])
     /\ Missing \in {agentList[k].minor, dbaasList[j].minor}

\* A list is not the absence of one.
ASSUME MergedAssumption ==
  \A agentList \in AgentLists \ {Invalid}, dbaasList \in AggregatorLists \cup {NoSpecs} :
     DereferencesMissing(agentList, dbaasList) \/ Merged(agentList, dbaasList) # Nil

-----------------------------------------------------------------------------

\* The agent's own list; if it is valid, getDbaasSpecs calls DoRequest.
GetApiVersion(c) ==
  /\ avPc[c] = "idle"
  /\ \/ /\ agentSpecs = Invalid
        /\ avPc' = [avPc EXCEPT ![c] = "failed"]
        /\ UNCHANGED <<seen, exVars>>
     \/ /\ agentSpecs # Invalid
        /\ avPc' = [avPc EXCEPT ![c] = "asking"]
        /\ seen' = [seen EXCEPT ![c] = {dbaasSpecs}]
        /\ EX!Ask(c)
  /\ UNCHANGED <<agentSpecs, dbaasSpecs, resultSpecs>>

\* The aggregator answers with its list of this moment, or with an error.
AggregatorRuns(c) ==
  /\ Cardinality(reached[c]) < MaxReplies
  /\ \/ EX!Run(c, [code |-> OK, body |-> dbaasSpecs])
     \/ \E body \in {NoSpecs, NotJson} : EX!Run(c, [code |-> ServerError, body |-> body])
  /\ UNCHANGED <<agentSpecs, dbaasSpecs, seen, avPc, resultSpecs>>

DoRequestReturns(c) ==
  /\ avPc[c] = "asking"
  /\ \E a \in reached[c] : EX!Answered(c, a)
  /\ UNCHANGED <<agentSpecs, dbaasSpecs, seen, avPc, resultSpecs>>

DoRequestFails(c) ==
  /\ avPc[c] = "asking"
  /\ EX!Fail(c)
  /\ avPc' = [avPc EXCEPT ![c] = "failed"]
  /\ UNCHANGED <<agentSpecs, dbaasSpecs, seen, resultSpecs>>

\* Mutant: the error of Unmarshal is dropped with the list.
UnmarshalFailsUnnoticed(c) ==
  /\ exState[c] = "answered" /\ avPc[c] = "asking"
  /\ answer[c].body = NotJson
  /\ avPc' = [avPc EXCEPT ![c] = "answered"]
  /\ UNCHANGED <<agentSpecs, dbaasSpecs, seen, resultSpecs, exVars>>

UnmarshalFails(c) ==
  /\ exState[c] = "answered" /\ avPc[c] = "asking"
  /\ answer[c].body = NotJson
  /\ avPc' = [avPc EXCEPT ![c] = "failed"]
  /\ UNCHANGED <<agentSpecs, dbaasSpecs, seen, resultSpecs, exVars>>

\* The body parses, whatever the status code is, and the lists are merged.
Merges(c) ==
  /\ exState[c] = "answered" /\ avPc[c] = "asking"
  /\ answer[c].body # NotJson
  /\ IF DereferencesMissing(agentSpecs, answer[c].body)
     THEN /\ avPc' = [avPc EXCEPT ![c] = "panicked"]
          /\ UNCHANGED resultSpecs
     ELSE /\ avPc' = [avPc EXCEPT ![c] = "answered"]
          /\ resultSpecs' = [resultSpecs EXCEPT ![c] =
                               Merged(agentSpecs, answer[c].body)]
  /\ UNCHANGED <<agentSpecs, dbaasSpecs, seen, exVars>>

\* The answer is written, and the next request may come.
Finish(c) ==
  /\ avPc[c] \in {"answered", "failed", "panicked"}
  /\ avPc' = [avPc EXCEPT ![c] = "idle"]
  /\ seen' = [seen EXCEPT ![c] = {}]
  /\ resultSpecs' = [resultSpecs EXCEPT ![c] = Nil]
  /\ IF exState[c] = "idle" THEN UNCHANGED exVars ELSE EX!Return(c)
  /\ UNCHANGED <<agentSpecs, dbaasSpecs>>

\* A new version of the aggregator lists something else.
Upgrade(c) ==
  /\ avPc[c] = "asking"
  /\ Cardinality(seen[c]) < MaxLists
  /\ dbaasSpecs' \in AggregatorLists \ {dbaasSpecs}
  /\ seen' = [d \in Callers |-> IF avPc[d] = "asking"
                                THEN seen[d] \cup {dbaasSpecs'} ELSE seen[d]]
  /\ UNCHANGED <<agentSpecs, avPc, resultSpecs, exVars>>

Next ==
  \E c \in Callers :
     \/ GetApiVersion(c) \/ AggregatorRuns(c)
     \/ DoRequestReturns(c) \/ DoRequestFails(c)
     \/ UnmarshalFails(c) \/ Merges(c)
     \/ Finish(c)
     \/ Upgrade(c)

Spec == Init /\ [][Next]_vars

-----------------------------------------------------------------------------

TypeOK ==
  /\ agentSpecs \in AgentLists /\ dbaasSpecs \in AggregatorLists
  /\ seen \in [Callers -> SUBSET AggregatorLists]
  /\ avPc \in [Callers -> {"idle", "asking", "answered", "failed", "panicked"}]
  /\ EX!TypeOK
  /\ DOMAIN resultSpecs = Callers
  /\ \A c \in Callers :
        IF avPc[c] = "answered"
        THEN resultSpecs[c] # Nil /\ \A k \in DOMAIN resultSpecs[c] :
                IsInfo(resultSpecs[c][k]) /\ resultSpecs[c][k].minor # Missing
        ELSE resultSpecs[c] = Nil

SpecsOf(list) == ToSet(list)

\* The reference: which answers are the common part of two lists.  The root
\* URLs are those of both; a major is supported under one only if both sides
\* support it there; and a minor under it is one of the two, the lower.
IsCommonPart(result, agentList, dbaasList) ==
  LET Pairs == {p \in SpecsOf(agentList) \X SpecsOf(dbaasList) :
                   p[1].specRootUrl = p[2].specRootUrl}
      Of(p, spec) ==
        /\ Missing \notin {p[1].minor, p[2].minor}
        /\ spec.specRootUrl = p[1].specRootUrl /\ spec.major = p[1].major
        /\ spec.minor = Min({p[1].minor, p[2].minor})
        /\ ToSet(spec.supportedMajors) =
              ToSet(p[1].supportedMajors) \cap ToSet(p[2].supportedMajors)
  IN  /\ \A p \in Pairs : \E spec \in SpecsOf(result) : Of(p, spec)
      /\ \A spec \in SpecsOf(result) : \E p \in Pairs : Of(p, spec)

\* What the agent says it supports, the aggregator supported too while the
\* agent was asking, and the other way round.  The only other answer is that
\* it supports nothing, after an error of the aggregator's: the status code is
\* not looked at, and an error's object is a list without specifications.
AnswersTheCommonPart ==
  \A c \in Callers : avPc[c] = "answered" =>
     \/ \E list \in seen[c] : IsCommonPart(resultSpecs[c], agentSpecs, list)
     \/ resultSpecs[c] = <<>> /\ \E a \in reached[c] : a.code # OK

Distinct(list) ==
  /\ IsInjective([k \in DOMAIN list |-> list[k].specRootUrl])
  /\ \A k \in DOMAIN list : IsInjective(list[k].supportedMajors)

\* Lists that name every root and every major once are merged into one that
\* does, with the roots in the agent's order.
NothingTwice ==
  \A c \in Callers :
     avPc[c] = "answered" /\ Distinct(agentSpecs) /\ (\A list \in seen[c] : Distinct(list)) =>
        /\ Distinct(resultSpecs[c])
        /\ \A i, j \in DOMAIN resultSpecs[c] : i < j =>
              \E k, l \in DOMAIN agentSpecs :
                 /\ k < l
                 /\ resultSpecs[c][i].specRootUrl = agentSpecs[k].specRootUrl
                 /\ resultSpecs[c][j].specRootUrl = agentSpecs[l].specRootUrl
=============================================================================
