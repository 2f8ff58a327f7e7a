SPECIFICATION Spec
CONSTANTS
    None = None
    Identifiers <- MCIdentifiers
    Numbers <- MCNumbers
    Texts <- MCTexts
    Junk = {"@"}
    Schema <- MCSchema
    Base = 9
    MaxSchema = 60
    Lines <- MCLines
    Spelling <- MCSpelling
    Contents <- MCContents
    Evaluate <- EvaluateExpr
    Throw <- Thrown
    IsTrue <- Truth
    Damages = {0, 1, 8}
    MaxTokens = 6
INVARIANTS ExprsNest  RowsSelected SchemaKept
CHECK_DEADLOCK FALSE
