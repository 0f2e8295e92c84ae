CONSTANT Callers = {c1, c2, c3}
SPECIFICATION DispatchSpec
INVARIANTS DispatchTypeOK MutualExclusion NobodyWaitsForNobody HonestAnswers WriteToolsExclusive
PROPERTIES FairSpec WriteCallsAnswered
