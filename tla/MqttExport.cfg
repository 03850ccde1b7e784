SPECIFICATION FairSpec
CONSTANT Scenarios <- MCScenarios
INVARIANTS EntityOwn 
PROPERTIES StateHasConfig 
CHECK_DEADLOCK FALSE
