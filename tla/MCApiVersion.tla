---------------------------- MODULE MCApiVersion ----------------------------
(***************************************************************************)
(* An instance of ApiVersion for TLC: lists of at most two specifications  *)
(* out of a few, which differ in everything that the merge looks at.       *)
(***************************************************************************)
EXTENDS ApiVersion

Info(root, major, minor, majors) ==
  [specRootUrl |-> root, major |-> major, minor |-> minor, supportedMajors |-> majors]

AgentInfos ==
  {Info("api", 3, 1, <<3, 2>>), Info("api", 2, Missing, <<2>>),
   Info("composite", 1, 1, <<1, 1>>), Info("composite", 2, 0, <<1, 2>>)}

AggregatorInfos ==
  {Info("api", 3, 2, <<2, 3>>), Info("api", 3, 0, <<3, 3, 4>>),
   Info("api", 2, Missing, <<2>>),
   Info("composite", 1, 1, <<2>>)}

MCAgentLists == BoundedSeq(AgentInfos, 2) \cup {Invalid}
MCAggregatorLists == BoundedSeq(AggregatorInfos, 2)
=============================================================================
