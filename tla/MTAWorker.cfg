SPECIFICATION Spec
CONSTANTS
    j1 = j1
    j2 = j2
    j3 = j3
    c1 = c1
    c2 = c2
    NoJob = NoJob
    Jobs <- MCJobs
    Closers <- MCClosers
    Outcomes <- MCOutcomes
\* every caller has its answer: nothing is left to do
CHECK_DEADLOCK FALSE
INVARIANTS
    AnswerMatchesRun
    CloseQuiesces
PROPERTIES
    CallsAnswered
    ImplementsExecutor
