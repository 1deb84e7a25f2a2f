------------------------------ MODULE MCEngine ------------------------------
(***************************************************************************)
(* Instances of Engine for TLC.  One pathway has every kind of result:     *)
(* plan sleeps, ask waits for a human, work may fail and be retried and    *)
(* may send the run back to plan, and end ends it.                         *)
(***************************************************************************)
EXTENDS Engine

CONSTANTS plan, ask, work, end, e1, e2, e3,
          client, operator, supervisor, human, human2, sweeper, sweeper2, deployer

MCStages == {plan, ask, work, end}

Review ==
    [names |-> MCStages,
     entry |-> plan,
     transitions  |-> [s \in Stages |-> CASE s = plan -> {ask, work}
                                          [] s = ask  -> {work}
                                          [] s = work -> {plan, end}
                                          [] s = end  -> {}],
     exhausted_to |-> [s \in Stages |-> IF s = work THEN end ELSE NoStage],
     max_attempts |-> [s \in Stages |-> 2],
     on_exhausted |-> [s \in Stages |-> IF s = end THEN "fail" ELSE "degraded"]]

(* The same pathway edited in place: plan may end the run at once.         *)
Edited == [Review EXCEPT !.transitions[plan] = {ask, work, end}]

MCGraphOf == [e \in Engines |-> IF e = e3 THEN Edited ELSE Review]

-----------------------------------------------------------------------------
(* One process, in which everything happens: the client starts the run, an *)
(* operator pauses and unpauses it, a supervisor resumes it after a crash, *)
(* a human answers, the sweeper sweeps.  Every stage is well written.      *)

SoloTasks == {client, operator, supervisor, human, sweeper}
SoloHost  == [t \in Tasks |-> e1]

MCCalls ==
    [t \in Tasks |-> CASE t = client               -> {"run", "start"}
                       [] t = operator             -> {"pause", "unpause"}
                       [] t = supervisor           -> {"resume"}
                       [] t \in {human, human2}     -> {"answer"}
                       [] t \in {sweeper, sweeper2} -> {"sweep"}
                       [] t = deployer             -> {"resume", "sweep"}]

MCFails == {work, end}

SoloReturns ==
    [s \in Stages |-> CASE s = plan -> {Wait(ask), Transition(work)}
                        [] s = ask  -> {AwaitHuman(work), Transition(work)}
                        [] s = work -> {Transition(plan), Transition(end)}
                        [] s = end  -> {Done, Degraded(NoStage)}]

(* Fairness.  asyncio schedules every ready coroutine, so a task that can  *)
(* take its next step takes it; clocks advance; the sweeper keeps ticking; *)
(* and the people around the run do their part: the run is asked for, a    *)
(* run left running is resumed, a paused one is unpaused, a question is    *)
(* answered.  Those last three calls are refused while some drive is       *)
(* registered, so they are repeated (strong fairness).  Nothing forces a   *)
(* crash, a pause, a failure or a particular stage result.  unpause        *)
(* registers even on a run that is not paused, so an operator who never    *)
(* stopped calling it could turn every wake away: such calls must end.     *)
TimerIds == (0..(max_steps - 1)) \X (0..1)

NeededUnpause == [][\A t \in Tasks : Unpause(t) => status = "paused"]_vars

Fairness ==
    /\ \A t \in Tasks : WF_vars(Progress(t))
    /\ WF_vars(Run(client) \/ Start(client))
    /\ WF_vars(Tick(sweeper))
    /\ SF_vars(Resume(supervisor))
    /\ SF_vars(Unpause(operator) /\ status = "paused")
    /\ SF_vars(ProvideHumanInput(human))
    /\ \A id \in TimerIds :
          WF_vars((TimerFallsDue(id) \/ LeaseGoesStale(id))
                  /\ UNCHANGED <<task, driving, bg, crashes, pauses>>)
    /\ <>NeededUnpause

SoloSpec == Spec /\ Fairness

(* Every run ends, whatever crashes, pauses and failures befall it: no     *)
(* wake, retry or answer is lost.                                          *)
RunEnds == <>(status \in Terminal)

-----------------------------------------------------------------------------
(* A fleet.  The client's process e1, a second one e2 with a supervisor    *)
(* that resumes (one driver at a time, the operator's duty), and e3 where  *)
(* the pathway was edited in place under the same version.  Stages may     *)
(* return an undeclared route (plan's to end is one, except in e3) or have *)
(* a bug.                                                                  *)

FleetTasks == {client, supervisor, human, human2, sweeper, sweeper2, deployer}
FleetHost  == [t \in Tasks |-> IF t \in {client, human, sweeper} THEN e1
                               ELSE IF t = deployer THEN e3 ELSE e2]
FleetReturns == [SoloReturns EXCEPT ![plan] = @ \cup {Transition(end)}]
FleetBuggy == {ask}

=============================================================================
