SPECIFICATION FairSpec
CONSTANTS
  w1 = w1  w2 = w2
  a = a  b = b  c = c  d = d
  k1 = k1  k2 = k2
  h1 = h1  h2 = h2
  text = text  code = code
  None = None
  Workflow = {w1}
  Node = {a, b, c}
  Worker = {k1}
  Capability = {text, code}
  Handler = {h1}
  Gated = {b}
  WorkflowOf <- WorkflowOfAll
  Deps <- DepsAll
  Needs <- NeedsAll
  MaxAttempts <- OneOrTwoAttempts
  Rank <- RankAll
  Registrations <- CapableRegistrations
PROPERTIES
  FailedNodeFailsWorkflow
