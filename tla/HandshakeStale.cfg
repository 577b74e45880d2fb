SPECIFICATION Spec
CONSTANTS
    Trailing = {TRUE}
    CopyAnswers = {"copyBoth"}
    MaxAttempts = 3
INVARIANT ReadsOwnAnswer
