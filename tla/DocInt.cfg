SPECIFICATION Spec
CONSTANTS
    Tests <- IntTests
    Answers <- MCAnswers
    FieldsOf <- FlattenJSON
    Finds <- HasElement
    RandomInts = {0, 41}
    MaxPolls = 1
INVARIANT IntAssertionsExact
