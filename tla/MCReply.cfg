SPECIFICATION Spec
CONSTANTS
    Jobs <- MCJobs
    Numbers <- MCNumbers
INVARIANTS ReplyInv MessageWhole SchemaExact VerdictSound CellsExact AnswersExact
