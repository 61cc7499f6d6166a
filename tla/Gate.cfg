\* every stage, over the three groups of inputs
SPECIFICATION Spec
CONSTANTS
  None = None
  Intents <- AllIntents
  Policies <- SomePolicies
  Contexts <- AllContexts
INVARIANTS TypeOK DecisionContract BlockersBlock
PROPERTIES KeepsPromise
CHECK_DEADLOCK FALSE
