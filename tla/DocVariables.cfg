SPECIFICATION Spec
CONSTANTS
    Tests <- NestedTests
    Answers <- MCAnswers
    FieldsOf <- FlattenJSON
    Finds <- HasElement
    RandomInts = {0, 41}
    MaxPolls = 1
INVARIANT VariablesResolve
