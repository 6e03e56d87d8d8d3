SPECIFICATION Spec
CONSTANTS
  MaxTokens = 6
  MaxGlob = 4
  MaxText = 4
  MaxTemplate = 6
  Bits = 22
INVARIANTS WiredThrough ParserExact MissingNeverSatisfies SchemaHonoured
  DecisionPolicies RoutesExact ReadsBack NearestBinding WayBack
