SPECIFICATION FairSpec
CONSTANTS
    Requests = {q1, q2}
    Routes = {plain, feed}
    Continuous = {feed}
    Faults = {"late", "silent", "poison", "unbound"}
    MaxEmits = 2
    SurvivesThrow = TRUE
INVARIANTS
    PipelineDeathHasCulprit
PROPERTIES
    AcceptedIsAnswered
CHECK_DEADLOCK FALSE
