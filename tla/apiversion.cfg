SPECIFICATION Spec
CONSTANTS
  Callers = {c1}
  AgentLists <- MCAgentLists
  AggregatorLists <- MCAggregatorLists
  NotJson = NotJson
  Invalid = Invalid
  Missing = Missing
  MaxReplies = 2
  MaxLists = 2
  Nil = Nil
INVARIANTS TypeOK AnswersTheCommonPart NothingTwice
