SPECIFICATION Spec
CONSTANTS
    Tests <- MCTests
    Answers <- MCAnswers
    FieldsOf <- FlattenJSON
    Finds <- HasElement
    RandomInts = {0, 41}
    MaxPolls = 2
INVARIANT TypeOK
INVARIANT SequenceNumbersDistinct
INVARIANT RequestsCarryRunID
INVARIANT OneShotGenerators
INVARIANT OnlySharedStepsCrash
INVARIANT FieldsMatchDocument
INVARIANT IntAssertionsCompare
INVARIANT FailuresAreReported
