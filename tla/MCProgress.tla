----------------------------- MODULE MCProgress -----------------------------
(***************************************************************************)
(* The parts that must go on by themselves, model-checked side by side:    *)
(* locks that are reclaimed, stores that are swept, sessions that retire,  *)
(* consolidations that are scheduled.  They share no state, and each       *)
(* behaviour is one of theirs, chosen at the start.                        *)
(***************************************************************************)
EXTENDS FileLock, StoreActivity, Retirement, AutoSchedule

VARIABLE part
vars == <<part, lockVars, actVars, retVars, schedVars>>

Init ==
    /\ part \in {"lock", "activity", "retirement", "schedule"}
    /\ LockInit /\ ActInit /\ RetInit /\ SchedInit
    \* The schedule's choices are made only where it runs.
    /\ part # "schedule" => usable /\ \A r, q \in Runs : home[r] = home[q]
    /\ part # "schedule" => \A r \in Runs : home[r] = CHOOSE p \in Processes : TRUE

Lock(A) == part = "lock" /\ A /\ UNCHANGED <<part, actVars, retVars, schedVars>>
Activity(A) == part = "activity" /\ A /\ UNCHANGED <<part, lockVars, retVars, schedVars>>
Retire(A) == part = "retirement" /\ A /\ UNCHANGED <<part, lockVars, actVars, schedVars>>
Schedule(A) == part = "schedule" /\ A /\ UNCHANGED <<part, lockVars, actVars, retVars>>

Next == Lock(LockNext) \/ Activity(ActNext) \/ Retire(RetNext) \/ Schedule(SchedNext)

\* The fairness of the part that runs.
Fairness ==
    /\ \A p \in Procs : WF_vars(Lock(LockProgress(p) \/ LockRestart(p)))
    /\ WF_vars(Lock(LockAges))
    /\ \A h \in Hosts : WF_vars(Activity(PublishStep(h))) /\ WF_vars(Activity(DrainStep(h)))
    /\ WF_vars(Activity(RetryTimeComes))
    /\ WF_vars(Retire(LaneTask)) /\ WF_vars(Retire(DrainTask))
    /\ WF_vars(Retire(RetryFires)) /\ WF_vars(Retire(Forget))
    /\ \A r \in Runs : WF_vars(Schedule(RunStep(r)))
    /\ \A p \in Processes : WF_vars(Schedule(Trigger(p)))
    /\ WF_vars(Schedule(AnHour))

Spec == Init /\ [][Next]_vars /\ Fairness

\* The type invariants of the four parts.
PartsTypeOK == LockTypeOK /\ ActTypeOK /\ RetTypeOK /\ SchedTypeOK
=============================================================================
