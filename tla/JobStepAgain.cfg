SPECIFICATION Spec
CONSTANTS
    e1 = e1
    e2 = e2
    e3 = e3
    Executions = {e1, e2, e3}
    Names = {"notify", "charge", "nap", "ship"}
    Programs <- SmallPrograms
    Sleeps = {"nap"}
    Voids = {"notify"}
    MaxAttempts = 2
    Faults = {}
CHECK_DEADLOCK FALSE
PROPERTY
    CompletedIsNotRunAgain
