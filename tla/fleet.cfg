SPECIFICATION Spec
CONSTANTS
    plan = plan
    ask = ask
    work = work
    end = end
    e1 = e1
    e2 = e2
    e3 = e3
    client = client
    operator = operator
    supervisor = supervisor
    human = human
    human2 = human2
    sweeper = sweeper
    sweeper2 = sweeper2
    deployer = deployer
    NoStage = NoStage
    Stages <- MCStages
    Answers = {yes}
    Engines = {e1, e2, e3}
    Tasks <- FleetTasks
    Host <- FleetHost
    Calls <- MCCalls
    GraphOf <- MCGraphOf
    Returns <- FleetReturns
    Fails <- MCFails
    Buggy <- FleetBuggy
    max_steps = 4
    SingleFlight = TRUE
    Reissue = FALSE
    MaxCrashes = 1
    MaxPauses = 0
INVARIANTS
    SingleDriver
    LogIsWalk
\* a run that has ended has nothing left to do
CHECK_DEADLOCK FALSE
