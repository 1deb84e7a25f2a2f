SPECIFICATION Spec
CONSTANTS
    plan = plan
    ask = ask
    work = work
    end = end
    e1 = e1
    e2 = e2
    e3 = e3
    client = client
    operator = operator
    supervisor = supervisor
    human = human
    human2 = human2
    sweeper = sweeper
    sweeper2 = sweeper2
    deployer = deployer
    NoStage = NoStage
    Stages <- MCStages
    Answers = {yes}
    Engines = {e1}
    Tasks <- SoloTasks
    Host <- SoloHost
    Calls <- MCCalls
    GraphOf <- MCGraphOf
    Returns <- SoloReturns
    Fails <- MCFails
    Buggy = {}
    max_steps = 4
    SingleFlight = FALSE
    Reissue = FALSE
    MaxCrashes = 1
    MaxPauses = 0
INVARIANTS
    AnsweredBeforePassed
\* a run that has ended has nothing left to do
CHECK_DEADLOCK FALSE
