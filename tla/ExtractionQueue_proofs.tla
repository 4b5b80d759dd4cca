---------------------- MODULE ExtractionQueue_proofs ----------------------
(***************************************************************************)
(* Proofs about ExtractionQueue, for every set of jobs, sessions, workers  *)
(* and providers and every value of the timing constants.                  *)
(***************************************************************************)
EXTENDS ExtractionQueue, FiniteSetTheorems, WellFoundedInduction, TLAPS

(***************************************************************************)
(* Rows stay rows under the updates the actions are built from.            *)
(***************************************************************************)
\* Leaving processing, whatever the reason, keeps a row well formed.
LEMMA OutType ==
    ASSUME NEW r \in Row, NEW status \in Statuses, NEW why \in Reasons
    PROVE  /\ Out(r, status, why) \in Row
           /\ Out(r, status, why).status = status
           /\ Out(r, status, why).why = why
           /\ Out(r, status, why).attempts = r.attempts
           /\ Out(r, status, why).created = r.created
           /\ Out(r, status, why).wait = r.wait
           /\ Out(r, status, why).lease = 0
           /\ Out(r, status, why).token = NoRun
  BY DEF Out, Row

\* Rows with one counter replaced.
LEMMA CounterType ==
    ASSUME NEW r \in Row, NEW n \in Nat, NEW i \in Int
    PROVE  /\ [r EXCEPT !.attempts = n] \in Row
           /\ [r EXCEPT !.wait = i] \in Row
           /\ [r EXCEPT !.lease = n] \in Row
           /\ [r EXCEPT !.attempts = n, !.wait = i] \in Row
  BY DEF Row

\* A row that waits for something else.
LEMMA WaitType ==
    ASSUME NEW r \in Row, NEW i \in Int
    PROVE  [r EXCEPT !.wait = i] \in Row
  BY DEF Row

\* A revived row is well formed.
LEMMA UnblockedType ==
    ASSUME NEW r \in Row
    PROVE  /\ Unblocked(r) \in Row
           /\ Unblocked(r).status = "pending"
           /\ Unblocked(r).attempts = r.attempts
<1> DEFINE due == [r EXCEPT !.wait = 0]
<1>1. due \in Row /\ due.attempts = r.attempts
  <2>1. PICK zero \in Int : zero = 0
    OBVIOUS
  <2> QED
    BY <2>1 DEF Row
<1> HIDE DEF due
<1>2. /\ Out(due, "pending", "none") \in Row
      /\ Out(due, "pending", "none").status = "pending"
      /\ Out(due, "pending", "none").attempts = due.attempts
  BY <1>1, OutType DEF Statuses, Reasons
<1>3. Unblocked(r) = Out(due, "pending", "none")
  BY DEF Unblocked, due
<1> QED
  BY <1>1, <1>2, <1>3

\* So is a revived dead letter, which starts with no attempts.
LEMMA RevivedType ==
    ASSUME NEW r \in Row
    PROVE  /\ Revived(r) \in Row
           /\ Revived(r).status = "pending"
           /\ Revived(r).attempts = 0
<1>1. [r EXCEPT !.attempts = 0] \in Row /\ [r EXCEPT !.attempts = 0].attempts = 0
  BY DEF Row
<1> QED
  BY <1>1, UnblockedType DEF Revived

\* A claimed row is well formed.
LEMMA ClaimedType ==
    ASSUME NEW r \in Row, NEW w \in Workers
    PROVE  /\ Claimed(r, w) \in Row
           /\ Claimed(r, w).status = "processing"
           /\ Claimed(r, w).attempts = r.attempts + 1
<1>1. r.attempts + 1 \in Nat /\ Lease \in Nat
  BY TimingAssumption DEF Row
<1> QED
  BY <1>1 DEF Claimed, Row, Statuses, Reasons

\* Handing an attempt back never makes the count negative.
LEMMA HandBackType == ASSUME NEW r \in Row PROVE HandBack(r) \in Nat
  BY DEF HandBack, MaxOf, Row

\* The stage row after an upsert is one of the two rows compared.
LEMMA UpsertType ==
    ASSUME NEW old \in StageRow, NEW new \in StageRow
    PROVE  Upsert(old, new) \in StageRow
  BY DEF Upsert

\* A checkpoint built from a row is a stage row.
LEMMA CheckpointType ==
    ASSUME TypeOK, NEW j \in Jobs
    PROVE  Checkpoint(j) \in StageRow
  BY DEF TypeOK, Checkpoint, Rank, StageRow, Row, Events

\* A run that owns a row names a job whose claim is live.
LEMMA OwnsType ==
    ASSUME TypeOK, NEW w \in Workers, Owns(w)
    PROVE  run[w].job \in Jobs /\ Live(run[w].job)
  BY DEF TypeOK, Owns, Run

----------------------------------------------------------------------------
(***************************************************************************)
(* Type correctness                                                        *)
(***************************************************************************)
\* The empty queue, with every worker idle, is well typed.
LEMMA InitType == Init => TypeOK
<1> SUFFICES ASSUME Init PROVE TypeOK
  OBVIOUS
<1>1. row \in [Jobs -> Row]
  BY DEF Init, Row, Statuses, Reasons
<1>2. stage \in [Sessions -> StageRow]
  BY DEF Init, StageRow, NoStage
<1>3. run \in [Workers -> Run]
  BY DEF Init, Run, Idle, Outcomes
<1>4. ledger \in [Jobs -> [failed : Nat, lost : Nat]] /\ landed \in [Jobs -> Nat]
  BY DEF Init
<1>5. paused \in BOOLEAN /\ policyMarker \in BOOLEAN
  BY DEF Init
<1> QED
  BY <1>1, <1>2, <1>3, <1>4, <1>5 DEF Init, TypeOK

\* Host actions.
LEMMA HostType == TypeOK /\ Host => TypeOK'
<1> SUFFICES ASSUME TypeOK, Host PROVE TypeOK'
  OBVIOUS
<1> USE DEF TypeOK
<1>1. ASSUME NEW j \in Jobs, Enqueue(j) PROVE TypeOK'
  BY <1>1 DEF Enqueue, NewRow, Row, Statuses, Reasons
<1>2. ASSUME NEW j \in Jobs, RequeueDead(j) PROVE TypeOK'
  BY <1>2, RevivedType DEF RequeueDead, Disturb
<1>3. ASSUME NEW s \in Sessions, Purge(s) PROVE TypeOK'
  BY <1>3, OutType DEF Purge, Disturb, NoStage, StageRow, Statuses, Reasons
<1>4. ASSUME NEW p \in Providers, RequeuePolicyRejected(p) PROVE TypeOK'
  BY <1>4, RevivedType DEF RequeuePolicyRejected
<1>5. ASSUME NEW p \in Providers, Unconfigure(p) \/ Configure(p) PROVE TypeOK'
  BY <1>5 DEF Unconfigure, Configure, Disturb, tables, history
<1>6. CASE Pause \/ Resume
  <2>1. paused' \in BOOLEAN
    BY <1>6 DEF Pause, Resume
  <2>2. disturbances' \in Nat
    BY <1>6 DEF Pause, Resume, Disturb
  <2>3. UNCHANGED <<row, stage, policyMarker, ledger, landed, wiped, run, configured, enqueues>>
    BY <1>6 DEF Pause, Resume, tables, history
  <2> QED
    BY <2>1, <2>2, <2>3
<1> QED
  BY <1>1, <1>2, <1>3, <1>4, <1>5, <1>6 DEF Host

\* A run whose provider call has settled is well formed.
LEMMA ReturnedType ==
    ASSUME NEW r \in Run, NEW o \in Outcomes \cup {"paused"}
    PROVE  [r EXCEPT !.pc = "returned", !.outcome = o] \in Run
  BY DEF Run

\* The actions of one worker run.
LEMMA WorkerType == ASSUME TypeOK, NEW w \in Workers, Worker(w) PROVE TypeOK'
<1> USE DEF TypeOK
<1>a. Idle \in Run
  BY DEF Idle, Run, Outcomes
<1>b. ASSUME Finish(w) PROVE run' \in [Workers -> Run]
  BY <1>a, <1>b DEF Finish
<1>c. ASSUME NEW o \in Outcomes \cup {"paused"}, Return(w, o) PROVE run' \in [Workers -> Run]
  <2>1. run' = [run EXCEPT ![w] = [run[w] EXCEPT !.pc = "returned", !.outcome = o]]
    BY <1>c DEF Return
  <2>2. [run[w] EXCEPT !.pc = "returned", !.outcome = o] \in Run
    BY ReturnedType
  <2> QED
    BY <2>1, <2>2
<1>1. CASE StartDrain(w)
  BY <1>1 DEF StartDrain, tables, history, env, Run
<1>2. CASE BlockProvider(w)
  <2>1. row' \in [Jobs -> Row]
    BY <1>2, OutType DEF BlockProvider, Statuses, Reasons
  <2>2. ledger' \in [Jobs -> [failed : Nat, lost : Nat]]
    BY <1>2 DEF BlockProvider, WriteOff
  <2> QED
    BY <1>2, <1>b, <2>1, <2>2 DEF BlockProvider, env
<1>3. CASE UnblockProvider(w)
  <2>1. row' \in [Jobs -> Row]
    BY <1>3, UnblockedType DEF UnblockProvider
  <2>2. run' \in [Workers -> Run]
    BY <1>3 DEF UnblockProvider, Run
  <2> QED
    BY <1>3, <2>1, <2>2 DEF UnblockProvider, env, history
<1>4. CASE ClaimNothing(w)
  <2>1. row' \in [Jobs -> Row]
    BY <1>4, OutType DEF ClaimNothing, Retire, Statuses, Reasons
  <2> QED
    BY <1>4, <1>b, <2>1 DEF ClaimNothing, env, history
<1>5. ASSUME NEW j \in Jobs, Claim(w, j) PROVE TypeOK'
  <2>1. Claimed(row[j], w) \in Row
    BY ClaimedType
  <2>2. \A k \in Jobs : Retire(row[k]) \in Row
    BY OutType DEF Retire, Statuses, Reasons
  <2>3. row' \in [Jobs -> Row]
    BY <1>5, <2>1, <2>2 DEF Claim
  <2>4. ledger' \in [Jobs -> [failed : Nat, lost : Nat]]
    BY <1>5 DEF Claim, WriteOff
  <2>5. run' \in [Workers -> Run]
    BY <1>5 DEF Claim, Run
  <2> QED
    BY <1>5, <2>3, <2>4, <2>5 DEF Claim, env
<1>6. ASSUME NEW o \in Outcomes, ProviderReturns(w, o) PROVE TypeOK'
  <2>1. run' \in [Workers -> Run]
    BY <1>6, <1>c DEF ProviderReturns
  <2>2. disturbances' \in Nat
    BY <1>6 DEF ProviderReturns, Disturb
  <2> QED
    BY <1>6, <2>1, <2>2 DEF ProviderReturns, tables, history, env
<1>7. CASE CommitPaused(w)
  BY <1>7, <1>c DEF CommitPaused, tables, history, env
<1>8. CASE CommitThrows(w)
  BY <1>8, <1>c DEF CommitThrows, Disturb, tables, history, env, Outcomes
<1>9. CASE Commit(w)
  <2>1. run[w].job \in Jobs
    BY <1>9, OwnsType DEF Commit, Fenced
  <2>2. stage' \in [Sessions -> StageRow]
    BY <1>9, <2>1, CheckpointType, UpsertType, ShapeAssumption DEF Commit
  <2>3. row' \in [Jobs -> Row]
    BY <1>9, <2>1, OutType DEF Commit, HasResult, Statuses, Reasons
  <2>4. landed' \in [Jobs -> Nat]
    BY <1>9, <2>1 DEF Commit
  <2> QED
    BY <1>9, <1>b, <2>2, <2>3, <2>4 DEF Commit, env
<1>10. CASE Release(w)
  <2>1. run[w].job \in Jobs
    BY <1>10, OwnsType DEF Release
  <2>2. row' \in [Jobs -> Row]
    <3> DEFINE out == Out(row[run[w].job], "pending", "released")
               n == HandBack(row[run[w].job])
    <3>1. out \in Row
      BY <2>1, OutType DEF Statuses, Reasons
    <3>2. n \in Nat /\ ReleaseDelay \in Int
      BY <2>1, HandBackType, TimingAssumption
    <3>3. row' = [row EXCEPT ![run[w].job] = [out EXCEPT !.attempts = n, !.wait = ReleaseDelay]]
      BY <1>10 DEF Release
    <3> HIDE DEF out, n
    <3>4. [out EXCEPT !.attempts = n, !.wait = ReleaseDelay] \in Row
      BY <3>1, <3>2 DEF Row
    <3> QED
      BY <2>1, <3>3, <3>4
  <2> QED
    BY <1>10, <1>b, <2>2 DEF Release, env, history
<1>11. CASE BlockClaim(w)
  <2>1. run[w].job \in Jobs
    BY <1>11, OwnsType DEF BlockClaim
  <2>2. row' \in [Jobs -> Row]
    <3> DEFINE out == Out(row[run[w].job], "blocked", "unconfigured")
               n == HandBack(row[run[w].job])
    <3>1. out \in Row
      BY <2>1, OutType DEF Statuses, Reasons
    <3>2. n \in Nat /\ ReleaseDelay \in Int
      BY <2>1, HandBackType, TimingAssumption
    <3>3. row' = [row EXCEPT ![run[w].job] = [out EXCEPT !.attempts = n]]
      BY <1>11 DEF BlockClaim
    <3> HIDE DEF out, n
    <3>4. [out EXCEPT !.attempts = n] \in Row
      BY <3>1, <3>2 DEF Row
    <3> QED
      BY <2>1, <3>3, <3>4
  <2> QED
    BY <1>11, <1>b, <2>2 DEF BlockClaim, env, history
<1>12. CASE Fail(w)
  <2>1. run[w].job \in Jobs
    BY <1>12, OwnsType DEF Fail
  <2>2. /\ Out(row[run[w].job], "dead", run[w].outcome) \in Row
        /\ [Out(row[run[w].job], "pending", run[w].outcome) EXCEPT !.wait = RetryDelay] \in Row
    <3>1. run[w].outcome \in Reasons
      BY <1>12 DEF Fail, Reasons
    <3>2. /\ Out(row[run[w].job], "dead", run[w].outcome) \in Row
          /\ Out(row[run[w].job], "pending", run[w].outcome) \in Row
      <4>1. row[run[w].job] \in Row /\ "dead" \in Statuses /\ "pending" \in Statuses
        BY <2>1 DEF Statuses
      <4> QED
        BY <3>1, <4>1, OutType
    <3> DEFINE out == Out(row[run[w].job], "pending", run[w].outcome)
    <3> HIDE DEF out
    <3>3. ASSUME out \in Row PROVE [out EXCEPT !.wait = RetryDelay] \in Row
      <4>1. RetryDelay \in Int
        BY TimingAssumption
      <4> QED
        BY <3>3, <4>1, WaitType
    <3> QED
      BY <3>2, <3>3 DEF out
  <2>3. \A k \in Jobs : Out(row[k], "absent", "pruned") \in Row
    BY OutType DEF Statuses, Reasons
  <2>4. row' \in [Jobs -> Row]
    <3> DEFINE dead == Out(row[run[w].job], "dead", run[w].outcome)
               again == [Out(row[run[w].job], "pending", run[w].outcome)
                           EXCEPT !.wait = RetryDelay]
    <3>1. row' = [k \in Jobs |-> row'[k]]
      BY <1>12 DEF Fail
    <3>2. ASSUME NEW k \in Jobs
          PROVE  \/ row'[k] = dead \/ row'[k] = again
                 \/ row'[k] = Out(row[k], "absent", "pruned") \/ row'[k] = row[k]
      BY <1>12, <3>2 DEF Fail
    <3> HIDE DEF dead, again
    <3>3. dead \in Row /\ again \in Row /\ \A k \in Jobs : row[k] \in Row
      BY <2>2 DEF dead, again
    <3>4. ASSUME NEW k \in Jobs PROVE row'[k] \in Row
      BY <2>3, <3>2, <3>3
    <3> QED
      BY <3>1, <3>4
  <2>5. ledger' \in [Jobs -> [failed : Nat, lost : Nat]]
    BY <1>12, <2>1 DEF Fail
  <2> QED
    BY <1>12, <1>b, <2>4, <2>5 DEF Fail, env
<1>13. CASE GiveUp(w)
  BY <1>13, <1>b DEF GiveUp, tables, history, env
<1>14. CASE Renew(w)
  <2>1. CASE Owns(w)
    <3>1. run[w].job \in Jobs
      BY <2>1, OwnsType
    <3>2. [row[run[w].job] EXCEPT !.lease = Lease] \in Row
      BY <3>1, TimingAssumption DEF Row
    <3>3. row' \in [Jobs -> Row]
      BY <1>14, <2>1, <3>1, <3>2 DEF Renew
    <3> QED
      BY <1>14, <2>1, <3>3 DEF Renew, env, history
  <2>2. CASE ~Owns(w)
    <3>1. run' = [run EXCEPT ![w] = [run[w] EXCEPT !.lost = TRUE]]
      BY <1>14, <2>2 DEF Renew
    <3>2. [run[w] EXCEPT !.lost = TRUE] \in Run
      BY DEF Run
    <3>3. run' \in [Workers -> Run]
      BY <3>1, <3>2
    <3> QED
      BY <1>14, <2>2, <3>3 DEF Renew, env, history
  <2> QED
    BY <2>1, <2>2
<1>15. CASE Crash(w)
  BY <1>15, <1>b DEF Crash, Disturb, tables, history, env
<1> QED
  BY <1>1, <1>2, <1>3, <1>4, <1>5, <1>6, <1>7, <1>8, <1>9, <1>10, <1>11, <1>12,
     <1>13, <1>14, <1>15 DEF Worker

\* The clock.
LEMMA ElapseType == TypeOK /\ (Tick \/ Stall) => TypeOK'
<1> SUFFICES ASSUME TypeOK, Tick \/ Stall PROVE TypeOK'
  OBVIOUS
<1> USE DEF TypeOK
<1>1. row' \in [Jobs -> Row]
  <2>1. \A j \in Jobs : /\ (IF row[j].lease > 0 THEN row[j].lease - 1 ELSE 0) \in Nat
                        /\ MaxOf(row[j].wait - 1, -OrderWindow) \in Int
                        /\ row[j].wait \in Int
    BY TimingAssumption DEF Row, MaxOf
  <2>2. ASSUME NEW r \in Row, NEW n \in Nat, NEW i \in Int
        PROVE  [r EXCEPT !.lease = n, !.wait = i] \in Row
    BY DEF Row
  <2>3. row' = [j \in Jobs |->
                 [row[j] EXCEPT
                    !.lease = IF row[j].lease > 0 THEN row[j].lease - 1 ELSE 0,
                    !.wait = IF row[j].status \in {"pending", "processing"}
                             THEN MaxOf(row[j].wait - 1, -OrderWindow) ELSE row[j].wait]]
    BY DEF Tick, Stall, Elapse
  <2> QED
    BY <2>1, <2>2, <2>3
<1>2. disturbances' \in Nat
  BY DEF Tick, Stall, Disturb
<1>3. UNCHANGED <<stage, policyMarker, run, paused, configured, enqueues, ledger, landed, wiped>>
  BY DEF Tick, Stall, Elapse, env, history
<1> QED
  BY <1>1, <1>2, <1>3

\* The clock changes nothing but the lease and the wait of a row.
LEMMA ElapseKeeps ==
    ASSUME TypeOK, Tick \/ Stall, NEW k \in Jobs
    PROVE  /\ row'[k].status = row[k].status
           /\ row'[k].lease = IF row[k].lease > 0 THEN row[k].lease - 1 ELSE 0
           /\ row'[k].attempts = row[k].attempts
           /\ row'[k].why = row[k].why
           /\ row'[k].created = row[k].created
           /\ row'[k].token = row[k].token
<1>1. ASSUME NEW r \in Row, NEW n, NEW i
      PROVE  /\ [r EXCEPT !.lease = n, !.wait = i].status = r.status
             /\ [r EXCEPT !.lease = n, !.wait = i].lease = n
             /\ [r EXCEPT !.lease = n, !.wait = i].attempts = r.attempts
             /\ [r EXCEPT !.lease = n, !.wait = i].why = r.why
             /\ [r EXCEPT !.lease = n, !.wait = i].created = r.created
             /\ [r EXCEPT !.lease = n, !.wait = i].token = r.token
  BY DEF Row
<1> DEFINE n == IF row[k].lease > 0 THEN row[k].lease - 1 ELSE 0
           i == IF row[k].status \in {"pending", "processing"}
                THEN MaxOf(row[k].wait - 1, -OrderWindow) ELSE row[k].wait
<1>2. row'[k] = [row[k] EXCEPT !.lease = n, !.wait = i]
  BY DEF Tick, Stall, Elapse
<1>3. row[k] \in Row
  BY DEF TypeOK
<1>4. n = IF row[k].lease > 0 THEN row[k].lease - 1 ELSE 0
  OBVIOUS
<1> HIDE DEF n, i
<1> QED
  BY <1>1, <1>2, <1>3, <1>4

\* Every step keeps the shape of every table, run and counter.
LEMMA TypeStep == TypeOK /\ [Next]_vars => TypeOK'
<1> SUFFICES ASSUME TypeOK, [Next]_vars PROVE TypeOK'
  OBVIOUS
<1>1. CASE Host
  BY <1>1, HostType
<1>2. ASSUME NEW w \in Workers, Worker(w) PROVE TypeOK'
  BY <1>2, WorkerType
<1>3. CASE Tick \/ Stall
  BY <1>3, ElapseType
<1>4. CASE UNCHANGED vars
  BY <1>4 DEF TypeOK, vars
<1> QED
  BY <1>1, <1>2, <1>3, <1>4 DEF Next

\* Every table, run and counter keeps its shape.
THEOREM TypeCorrect == Spec => []TypeOK
  BY InitType, TypeStep, PTL DEF Spec

----------------------------------------------------------------------------
(***************************************************************************)
(* The running cap                                                         *)
(***************************************************************************)
\* An action that starts no new claim cannot exceed the cap.
LEMMA CapKept ==
    ASSUME RunningCap, \A k \in Jobs : Live(k)' => Live(k)
    PROVE  RunningCap'
<1> SUFFICES ASSUME NEW p \in Providers PROVE Cardinality(Running(p)') <= MaxRunning
  BY DEF RunningCap
<1>1. Running(p)' \subseteq Running(p)
  BY DEF Running
<1>2. IsFiniteSet(Running(p))
  BY FiniteJobs, FS_Subset DEF Running
<1>3. /\ Cardinality(Running(p)') <= Cardinality(Running(p))
      /\ Cardinality(Running(p)') \in Nat /\ Cardinality(Running(p)) \in Nat
  BY <1>1, <1>2, FS_Subset, FS_CardinalityType
<1> QED
  BY <1>3, TimingAssumption DEF RunningCap

\* A claim adds one row, and only where the cap left room.
LEMMA CapClaimed ==
    ASSUME RunningCap, NEW j \in Jobs, ~AtCap(ProviderOf[j]),
           \A k \in Jobs \ {j} : Live(k)' => Live(k)
    PROVE  RunningCap'
<1> SUFFICES ASSUME NEW p \in Providers PROVE Cardinality(Running(p)') <= MaxRunning
  BY DEF RunningCap
<1>1. IsFiniteSet(Running(p)) /\ Cardinality(Running(p)) \in Nat
  BY FiniteJobs, FS_Subset, FS_CardinalityType DEF Running
<1>2. CASE ProviderOf[j] = p
  <2>1. Running(p)' \subseteq Running(p) \cup {j}
    BY DEF Running
  <2>2. /\ IsFiniteSet(Running(p) \cup {j})
        /\ Cardinality(Running(p) \cup {j}) <= Cardinality(Running(p)) + 1
    <3> DEFINE R == Running(p)
    <3>1. IsFiniteSet(R) /\ Cardinality(R) \in Nat
      BY <1>1
    <3> HIDE DEF R
    <3>2. /\ IsFiniteSet(R \cup {j})
          /\ Cardinality(R \cup {j}) = IF j \in R THEN Cardinality(R) ELSE Cardinality(R) + 1
      BY <3>1, FS_AddElement, Zenon
    <3>3. Cardinality(R \cup {j}) <= Cardinality(R) + 1
      BY <3>1, <3>2
    <3> QED
      BY <3>2, <3>3 DEF R
  <2>3. /\ Cardinality(Running(p)') <= Cardinality(Running(p) \cup {j})
        /\ Cardinality(Running(p)') \in Nat
        /\ Cardinality(Running(p) \cup {j}) \in Nat
    BY <2>1, <2>2, FS_Subset, FS_CardinalityType
  <2>4. Cardinality(Running(p)) < MaxRunning
    BY <1>1, <1>2, TimingAssumption DEF AtCap
  <2> QED
    BY <1>1, <2>2, <2>3, <2>4, TimingAssumption
<1>3. CASE ProviderOf[j] # p
  <2>1. Running(p)' \subseteq Running(p)
    BY <1>3 DEF Running
  <2>2. /\ Cardinality(Running(p)') <= Cardinality(Running(p))
        /\ Cardinality(Running(p)') \in Nat
    BY <1>1, <2>1, FS_Subset, FS_CardinalityType
  <2> QED
    BY <1>1, <2>2, TimingAssumption DEF RunningCap
<1> QED
  BY <1>2, <1>3

\* A row that has been written out of processing is not live, and a pending
\* one never is.
LEMMA NotLive ==
    ASSUME NEW r \in Row, NEW status \in Statuses, NEW why \in Reasons
    PROVE  ~(Out(r, status, why).lease > 0)
  BY OutType

\* Only a claim makes a row live.
LEMMA OnlyClaimsGoLive ==
    ASSUME TypeOK, [Next]_vars, ~\E w \in Workers, j \in Jobs : Claim(w, j)
    PROVE  \A k \in Jobs : Live(k)' => Live(k)
<1> SUFFICES ASSUME NEW k \in Jobs, Live(k)' PROVE Live(k)
  OBVIOUS
<1> USE DEF Live
<1>t. row \in [Jobs -> Row] /\ row[k] \in Row /\ "processing" \in Statuses
  BY DEF TypeOK, Statuses
<1>1. CASE UNCHANGED row
  BY <1>1
<1>2. ASSUME NEW j \in Jobs, Enqueue(j) PROVE Live(k)
  BY <1>2, <1>t DEF Enqueue, NewRow
<1>3. ASSUME NEW j \in Jobs, RequeueDead(j) PROVE Live(k)
  BY <1>3, <1>t, RevivedType DEF RequeueDead
<1>4. ASSUME NEW s \in Sessions, Purge(s) PROVE Live(k)
  BY <1>4, <1>t, OutType DEF Purge, Statuses, Reasons
<1>5. ASSUME NEW p \in Providers, RequeuePolicyRejected(p) PROVE Live(k)
  BY <1>5, <1>t, RevivedType DEF RequeuePolicyRejected
<1>6. ASSUME NEW w \in Workers, BlockProvider(w) PROVE Live(k)
  BY <1>6, <1>t, OutType DEF BlockProvider, Statuses, Reasons
<1>7. ASSUME NEW w \in Workers, UnblockProvider(w) PROVE Live(k)
  BY <1>7, <1>t, UnblockedType DEF UnblockProvider
<1>8. ASSUME NEW w \in Workers, ClaimNothing(w) PROVE Live(k)
  BY <1>8, <1>t, OutType DEF ClaimNothing, Retire, Statuses, Reasons
<1>9. ASSUME NEW w \in Workers, Commit(w) PROVE Live(k)
  BY <1>9, <1>t, OutType DEF Commit, HasResult, Statuses, Reasons
<1>10. ASSUME NEW w \in Workers, Release(w) PROVE Live(k)
  <2>1. run[w].job \in Jobs /\ Live(run[w].job)
    BY <1>10, OwnsType DEF Release
  <2> QED
    BY <1>10, <1>t, <2>1 DEF Release
<1>11. ASSUME NEW w \in Workers, BlockClaim(w) PROVE Live(k)
  <2>1. run[w].job \in Jobs /\ Live(run[w].job)
    BY <1>11, OwnsType DEF BlockClaim
  <2> QED
    BY <1>11, <1>t, <2>1 DEF BlockClaim
<1>12. ASSUME NEW w \in Workers, Fail(w) PROVE Live(k)
  <2>1. run[w].job \in Jobs /\ Live(run[w].job)
    BY <1>12, OwnsType DEF Fail
  <2>2. CASE k = run[w].job
    BY <2>1, <2>2
  <2>3. CASE k # run[w].job
    BY <1>12, <1>t, <2>3, OutType DEF Fail, Statuses, Reasons
  <2> QED
    BY <2>2, <2>3
<1>13. ASSUME NEW w \in Workers, Renew(w) PROVE Live(k)
  <2>1. CASE Owns(w)
    <3>1. run[w].job \in Jobs /\ Live(run[w].job)
      BY <2>1, OwnsType
    <3> QED
      BY <1>13, <1>t, <2>1, <3>1 DEF Renew
  <2>2. CASE ~Owns(w)
    BY <1>13, <2>2 DEF Renew
  <2> QED
    BY <2>1, <2>2
<1>14. CASE Tick \/ Stall
  <2>1. /\ row'[k].status = row[k].status
        /\ row'[k].lease = IF row[k].lease > 0 THEN row[k].lease - 1 ELSE 0
    BY <1>14, ElapseKeeps
  <2> QED
    BY <2>1, <1>t
<1>15. ASSUME NEW w \in Workers,
              StartDrain(w) \/ CommitPaused(w) \/ CommitThrows(w) \/ GiveUp(w) \/ Crash(w)
                \/ \E o \in Outcomes : ProviderReturns(w, o)
       PROVE  UNCHANGED row
  BY <1>15 DEF StartDrain, CommitPaused, CommitThrows, GiveUp, Crash, ProviderReturns, tables
<1>16. ASSUME Pause \/ Resume \/ \E p \in Providers : Unconfigure(p) \/ Configure(p)
       PROVE  UNCHANGED row
  BY <1>16 DEF Pause, Resume, Unconfigure, Configure, tables
<1>17. CASE UNCHANGED vars
  BY <1>1, <1>17 DEF vars
<1> QED
  BY <1>1, <1>2, <1>3, <1>4, <1>5, <1>6, <1>7, <1>8, <1>9, <1>10, <1>11, <1>12, <1>13,
     <1>14, <1>15, <1>16, <1>17 DEF Next, Host, Worker

\* The cap holds for every number of jobs, workers and providers.
THEOREM CapHolds == Spec => []RunningCap
<1>1. Init => RunningCap
  <2> SUFFICES ASSUME Init, NEW p \in Providers PROVE Cardinality(Running(p)) <= MaxRunning
    BY DEF RunningCap
  <2>1. Running(p) = {}
    BY DEF Init, Running, Live
  <2> QED
    BY <2>1, FS_EmptySet, TimingAssumption
<1>2. TypeOK /\ RunningCap /\ [Next]_vars => RunningCap'
  <2> SUFFICES ASSUME TypeOK, RunningCap, [Next]_vars PROVE RunningCap'
    OBVIOUS
  <2>1. ASSUME NEW w \in Workers, NEW j \in Jobs, Claim(w, j) PROVE RunningCap'
    <3>1. ~AtCap(ProviderOf[j])
      BY <2>1 DEF Claim, Ready
    <3>2. ASSUME NEW k \in Jobs \ {j} PROVE Live(k)' => Live(k)
      <4>1. row'[k] = row[k] \/ row'[k] = Retire(row[k])
        BY <2>1 DEF Claim
      <4>2. Retire(row[k]).status = "completed"
        BY OutType DEF Retire, TypeOK, Statuses, Reasons
      <4> QED
        BY <4>1, <4>2 DEF Live
    <3> QED
      BY <3>1, <3>2, CapClaimed
  <2>2. CASE ~\E w \in Workers, j \in Jobs : Claim(w, j)
    BY <2>2, OnlyClaimsGoLive, CapKept
  <2> QED
    BY <2>1, <2>2
<1> QED
  BY <1>1, <1>2, TypeCorrect, PTL DEF Spec

----------------------------------------------------------------------------
(***************************************************************************)
(* Terminal rows                                                           *)
(***************************************************************************)
\* What a step may do to a row that is out of the queue.
StaysOut(k) ==
    /\ row[k].status = "completed" => row'[k].status \in {"completed", "absent"}
    /\ row[k].status = "dead" =>
         \/ row'[k].status \in {"dead", "absent"}
         \/ row'[k].status = "pending" /\ row'[k].attempts = 0
    /\ row[k].status = "absent" => row'[k].status = "absent" \/ Enqueue(k)

\* No action takes up a terminal row, except an insertion and the revivals.
LEMMA TerminalStep ==
    ASSUME TypeOK, [Next]_vars, NEW k \in Jobs
    PROVE  StaysOut(k)
<1> USE DEF StaysOut
<1>t. row \in [Jobs -> Row] /\ row[k] \in Row
  BY DEF TypeOK
<1>1. CASE UNCHANGED row
  BY <1>1
<1>2. ASSUME NEW j \in Jobs, Enqueue(j) PROVE StaysOut(k)
  BY <1>2, <1>t DEF Enqueue
<1>3. ASSUME NEW j \in Jobs, RequeueDead(j) PROVE StaysOut(k)
  BY <1>3, <1>t, RevivedType DEF RequeueDead
<1>4. ASSUME NEW s \in Sessions, Purge(s) PROVE StaysOut(k)
  BY <1>4, <1>t, OutType DEF Purge, Purged, Statuses, Reasons
<1>5. ASSUME NEW p \in Providers, RequeuePolicyRejected(p) PROVE StaysOut(k)
  BY <1>5, <1>t, RevivedType DEF RequeuePolicyRejected, PolicyRejected
<1>6. ASSUME NEW w \in Workers, BlockProvider(w) PROVE StaysOut(k)
  BY <1>6, <1>t DEF BlockProvider
<1>7. ASSUME NEW w \in Workers, UnblockProvider(w) PROVE StaysOut(k)
  BY <1>7, <1>t DEF UnblockProvider, Blocked
<1>8. ASSUME NEW w \in Workers, ClaimNothing(w) PROVE StaysOut(k)
  BY <1>8, <1>t DEF ClaimNothing, Ready
<1>9. ASSUME NEW w \in Workers, NEW j \in Jobs, Claim(w, j) PROVE StaysOut(k)
  <2>1. row'[k] = row[k] \/ row[k].status \in {"pending", "processing"}
    BY <1>9 DEF Claim, Ready
  <2> QED
    BY <2>1
<1>10. ASSUME NEW w \in Workers, Commit(w) PROVE StaysOut(k)
  <2>1. run[w].job \in Jobs /\ row[run[w].job].status = "processing"
    BY <1>10, OwnsType DEF Commit, Fenced, Live
  <2>2. \/ row'[k] = row[k]
        \/ row[k].status = "processing"
        \/ row[k].status = "completed" /\ row'[k] = Out(row[k], "absent", "pruned")
    BY <1>10, <2>1 DEF Commit, Prunable
  <2> QED
    BY <1>t, <2>2, OutType DEF Statuses, Reasons
<1>11. ASSUME NEW w \in Workers, Fail(w) PROVE StaysOut(k)
  <2>1. run[w].job \in Jobs /\ row[run[w].job].status = "processing"
    BY <1>11, OwnsType DEF Fail, Live
  <2>2. \/ row'[k] = row[k]
        \/ row[k].status = "processing"
        \/ row[k].status = "dead" /\ row'[k] = Out(row[k], "absent", "pruned")
    BY <1>11, <2>1 DEF Fail, Prunable
  <2> QED
    BY <1>t, <2>2, OutType DEF Statuses, Reasons
<1>12. ASSUME NEW w \in Workers, Release(w) \/ BlockClaim(w) \/ Renew(w) PROVE StaysOut(k)
  <2>1. CASE Owns(w)
    <3>1. run[w].job \in Jobs /\ row[run[w].job].status = "processing"
      BY <2>1, OwnsType DEF Live
    <3>2. row'[k] = row[k] \/ k = run[w].job
      BY <1>12, <1>t, <2>1 DEF Release, BlockClaim, Renew
    <3> QED
      BY <3>1, <3>2
  <2>2. CASE ~Owns(w)
    BY <1>12, <2>2 DEF Release, BlockClaim, Renew
  <2> QED
    BY <2>1, <2>2
<1>13. CASE Tick \/ Stall
  BY <1>13, ElapseKeeps
<1>14. ASSUME NEW w \in Workers,
              StartDrain(w) \/ CommitPaused(w) \/ CommitThrows(w) \/ GiveUp(w) \/ Crash(w)
                \/ \E o \in Outcomes : ProviderReturns(w, o)
       PROVE  UNCHANGED row
  BY <1>14 DEF StartDrain, CommitPaused, CommitThrows, GiveUp, Crash, ProviderReturns, tables
<1>15. ASSUME Pause \/ Resume \/ \E p \in Providers : Unconfigure(p) \/ Configure(p)
       PROVE  UNCHANGED row
  BY <1>15 DEF Pause, Resume, Unconfigure, Configure, tables
<1>16. CASE UNCHANGED vars
  BY <1>1, <1>16 DEF vars
<1> QED
  BY <1>1, <1>2, <1>3, <1>4, <1>5, <1>6, <1>7, <1>8, <1>9, <1>10, <1>11, <1>12, <1>13,
     <1>14, <1>15, <1>16 DEF Next, Host, Worker

\* A finished job is never run again, whatever late worker returns to it, and a
\* dead letter is only revived with its whole budget.
THEOREM TerminalHolds == Spec => TerminalIsFinal
<1>1. TypeOK /\ [Next]_vars => [\A j \in Jobs :
         /\ row[j].status = "completed" => row'[j].status \in {"completed", "absent"}
         /\ row[j].status = "dead" =>
              \/ row'[j].status \in {"dead", "absent"}
              \/ row'[j].status = "pending" /\ row'[j].attempts = 0]_vars
  BY TerminalStep DEF StaysOut
<1> QED
  BY <1>1, TypeCorrect, PTL DEF Spec, TerminalIsFinal

----------------------------------------------------------------------------
(***************************************************************************)
(* At most one outcome per job                                             *)
(***************************************************************************)
\* Strengthening of LandsOnce: a job whose outcome is in is out of the queue.
LandedIsOut ==
    \A j \in Jobs : \/ landed[j] = 0
                    \/ landed[j] = 1 /\ row[j].status \in {"completed", "absent"}

\* Only a commit counts an outcome, and it takes the row out of processing;
\* only an insertion starts the count again.
LEMMA LandedStep ==
    ASSUME TypeOK, [Next]_vars, NEW k \in Jobs
    PROVE  \/ landed'[k] = landed[k]
           \/ landed'[k] = 0
           \/ /\ landed'[k] = landed[k] + 1
              /\ row[k].status = "processing"
              /\ row'[k].status = "completed"
<1>t. row[k] \in Row /\ landed \in [Jobs -> Nat]
  BY DEF TypeOK
<1>1. ASSUME NEW j \in Jobs, Enqueue(j) PROVE landed'[k] = 0 \/ landed'[k] = landed[k]
  BY <1>1, <1>t DEF Enqueue
<1>2. ASSUME NEW w \in Workers, Commit(w)
      PROVE  \/ landed'[k] = landed[k]
             \/ /\ landed'[k] = landed[k] + 1
                /\ row[k].status = "processing"
                /\ row'[k].status = "completed"
  <2>1. run[w].job \in Jobs /\ row[run[w].job].status = "processing"
    BY <1>2, OwnsType DEF Commit, Fenced, Live
  <2>2. CASE k # run[w].job
    BY <1>2, <1>t, <2>1, <2>2 DEF Commit
  <2>3. CASE k = run[w].job
    <3>1. landed'[k] = landed[k] + 1
      BY <1>2, <1>t, <2>1, <2>3 DEF Commit
    <3>2. row'[k] = Out(row[k], "completed", run[w].outcome)
      BY <1>2, <2>1, <2>3 DEF Commit
    <3>3. row'[k].status = "completed"
      BY <1>2, <1>t, <3>2, OutType DEF Commit, HasResult, Statuses, Reasons
    <3> QED
      BY <2>1, <2>3, <3>1, <3>3
  <2> QED
    BY <2>2, <2>3
<1>3. CASE ~(\E j \in Jobs : Enqueue(j)) /\ ~(\E w \in Workers : Commit(w))
  <2>1. ASSUME Host PROVE UNCHANGED landed
    BY <1>3, <2>1 DEF Host, RequeueDead, Purge, RequeuePolicyRejected, Unconfigure, Configure,
        Pause, Resume, history
  <2>2. ASSUME NEW w \in Workers, Worker(w) PROVE UNCHANGED landed
    BY <1>3, <2>2 DEF Worker, StartDrain, BlockProvider, UnblockProvider, ClaimNothing, Claim,
        ProviderReturns, CommitPaused, CommitThrows, Release, BlockClaim, Fail, GiveUp, Renew,
        Crash, history
  <2>3. ASSUME Tick \/ Stall PROVE UNCHANGED landed
    BY <2>3 DEF Tick, Stall, Elapse, history
  <2> QED
    BY <1>3, <2>1, <2>2, <2>3 DEF Next, vars
<1> QED
  BY <1>1, <1>2, <1>3

\* A job is reclaimed as often as it takes, and still lands once.
THEOREM LandsOnceHolds == Spec => []LandsOnce
<1>1. Init => LandedIsOut
  BY DEF Init, LandedIsOut
<1>2. TypeOK /\ LandedIsOut /\ [Next]_vars => LandedIsOut'
  <2> SUFFICES ASSUME TypeOK, LandedIsOut, [Next]_vars, NEW k \in Jobs
               PROVE  \/ landed'[k] = 0
                      \/ landed'[k] = 1 /\ row'[k].status \in {"completed", "absent"}
    BY DEF LandedIsOut
  <2>1. \/ landed[k] = 0
        \/ landed[k] = 1 /\ row[k].status \in {"completed", "absent"}
    BY DEF LandedIsOut
  <2>2. CASE Enqueue(k)
    <3>1. landed' = [landed EXCEPT ![k] = 0]
      BY <2>2 DEF Enqueue
    <3> QED
      BY <3>1 DEF TypeOK
  <2>3. CASE ~Enqueue(k)
    <3>1. StaysOut(k)
      BY TerminalStep
    <3>2. \/ landed'[k] = landed[k]
          \/ landed'[k] = 0
          \/ /\ landed'[k] = landed[k] + 1
             /\ row[k].status = "processing"
             /\ row'[k].status = "completed"
      BY LandedStep
    <3> QED
      BY <2>1, <2>3, <3>1, <3>2 DEF StaysOut
  <2> QED
    BY <2>2, <2>3
<1>3. LandedIsOut => LandsOnce
  BY DEF LandedIsOut, LandsOnce
<1> QED
  BY <1>1, <1>2, <1>3, TypeCorrect, PTL DEF Spec

----------------------------------------------------------------------------
(***************************************************************************)
(* The attempt ledger                                                      *)
(***************************************************************************)
\* AttemptLedger of one row and its entry in the ledger.
Balanced(r, l) ==
    r.status \in {"pending", "processing", "blocked", "dead"} =>
        r.attempts = l.failed + l.lost + (IF r.status = "processing" THEN 1 ELSE 0)

Entry == [failed : Nat, lost : Nat]

\* AttemptLedger says that every row balances its entry in the ledger.
LEMMA LedgerIsBalance == AttemptLedger <=> \A j \in Jobs : Balanced(row[j], ledger[j])
  BY DEF AttemptLedger, Balanced

\* A balanced row stays balanced when it waits, is revived, is retired, is
\* written off or is claimed, and when its attempt fails or is handed back.
LEMMA BalanceKept ==
    ASSUME NEW r \in Row, NEW l \in Entry, Balanced(r, l),
           NEW why \in Reasons, NEW w \in Workers
    PROVE  /\ Balanced(Out(r, "completed", why), l)
           /\ Balanced(Out(r, "absent", why), l)
           /\ Balanced(Revived(r), [failed |-> 0, lost |-> 0])
           /\ r.status = "blocked" => Balanced(Unblocked(r), l)
           /\ r.status = "pending" =>
                /\ Balanced(Out(r, "blocked", why), l)
                /\ Balanced(Claimed(r, w), l)
           /\ r.status = "processing" =>
                /\ Balanced(Out(r, "blocked", why), [l EXCEPT !.lost = @ + 1])
                /\ Balanced(Claimed(r, w), [l EXCEPT !.lost = @ + 1])
                /\ \A status \in {"pending", "dead"} :
                     Balanced(Out(r, status, why), [l EXCEPT !.failed = @ + 1])
                /\ HandBack(r) = l.failed + l.lost
<1>1. /\ l.failed \in Nat /\ l.lost \in Nat /\ r.attempts \in Nat
      /\ [l EXCEPT !.lost = @ + 1].lost = l.lost + 1
      /\ [l EXCEPT !.lost = @ + 1].failed = l.failed
      /\ [l EXCEPT !.failed = @ + 1].failed = l.failed + 1
      /\ [l EXCEPT !.failed = @ + 1].lost = l.lost
  BY DEF Entry, Row
<1>2. {"pending", "processing", "blocked", "completed", "dead", "absent"} \subseteq Statuses
  BY DEF Statuses
<1>3. \A status \in Statuses : /\ Out(r, status, why).status = status
                               /\ Out(r, status, why).attempts = r.attempts
  BY OutType
<1>4. Balanced(Out(r, "completed", why), l) /\ Balanced(Out(r, "absent", why), l)
  BY <1>2, <1>3 DEF Balanced
<1>5. Balanced(Revived(r), [failed |-> 0, lost |-> 0])
  BY RevivedType DEF Balanced
<1>6. ASSUME r.status = "blocked" PROVE Balanced(Unblocked(r), l)
  BY <1>1, <1>6, UnblockedType DEF Balanced
<1>7. ASSUME r.status = "pending"
      PROVE  Balanced(Out(r, "blocked", why), l) /\ Balanced(Claimed(r, w), l)
  BY <1>1, <1>2, <1>3, <1>7, ClaimedType DEF Balanced
<1>8. ASSUME r.status = "processing"
      PROVE  /\ Balanced(Out(r, "blocked", why), [l EXCEPT !.lost = @ + 1])
             /\ Balanced(Claimed(r, w), [l EXCEPT !.lost = @ + 1])
             /\ \A status \in {"pending", "dead"} :
                   Balanced(Out(r, status, why), [l EXCEPT !.failed = @ + 1])
             /\ HandBack(r) = l.failed + l.lost
  <2>1. r.attempts = l.failed + l.lost + 1
    BY <1>8 DEF Balanced
  <2>2. /\ Balanced(Out(r, "blocked", why), [l EXCEPT !.lost = @ + 1])
        /\ Balanced(Claimed(r, w), [l EXCEPT !.lost = @ + 1])
    BY <1>1, <1>2, <1>3, <2>1, ClaimedType DEF Balanced
  <2>3. ASSUME NEW status \in {"pending", "dead"}
        PROVE  Balanced(Out(r, status, why), [l EXCEPT !.failed = @ + 1])
    BY <1>1, <1>2, <1>3, <2>1 DEF Balanced
  <2>4. HandBack(r) = l.failed + l.lost
    BY <1>1, <2>1 DEF HandBack, MaxOf
  <2> QED
    BY <2>2, <2>3, <2>4
<1> QED
  BY <1>4, <1>5, <1>6, <1>7, <1>8

\* Only status, attempts and the entry matter to the balance.
LEMMA BalanceOnlyCounts ==
    ASSUME NEW r, NEW q, NEW l, Balanced(r, l),
           q.status = r.status, q.attempts = r.attempts
    PROVE  Balanced(q, l)
  BY DEF Balanced

\* Every step keeps every row balanced.
LEMMA LedgerStep ==
    ASSUME TypeOK, [Next]_vars, NEW k \in Jobs, Balanced(row[k], ledger[k])
    PROVE  Balanced(row'[k], ledger'[k])
<1>t. /\ row \in [Jobs -> Row] /\ row[k] \in Row
      /\ ledger \in [Jobs -> Entry] /\ ledger[k] \in Entry
  BY DEF TypeOK, Entry
<1>r. {"pruned", "purged", "superseded", "unconfigured", "released", "output", "noop",
       "failed", "rejected"} \subseteq Reasons
  BY DEF Reasons
<1>0. CASE row'[k] = row[k] /\ ledger'[k] = ledger[k]
  BY <1>0
<1>1. ASSUME NEW j \in Jobs, Enqueue(j) PROVE Balanced(row'[k], ledger'[k])
  <2>1. CASE k = j
    <3>1. row'[k] = NewRow(enqueues + 1) /\ ledger'[k] = [failed |-> 0, lost |-> 0]
      BY <1>1, <1>t, <2>1 DEF Enqueue
    <3> QED
      BY <3>1 DEF Balanced, NewRow
  <2>2. CASE k # j
    BY <1>0, <1>1, <1>t, <2>2 DEF Enqueue
  <2> QED
    BY <2>1, <2>2
<1>2. ASSUME NEW j \in Jobs, RequeueDead(j) PROVE Balanced(row'[k], ledger'[k])
  <2>1. CASE k = j
    <3>1. row'[k] = Revived(row[k]) /\ ledger'[k] = [failed |-> 0, lost |-> 0]
      BY <1>2, <1>t, <2>1 DEF RequeueDead
    <3> QED
      BY <3>1, RevivedType, <1>t DEF Balanced
  <2>2. CASE k # j
    BY <1>0, <1>2, <1>t, <2>2 DEF RequeueDead
  <2> QED
    BY <2>1, <2>2
<1>3. ASSUME NEW s \in Sessions, Purge(s) PROVE Balanced(row'[k], ledger'[k])
  <2>1. ledger' = ledger /\ (row'[k] = row[k] \/ row'[k] = Out(row[k], "absent", "purged"))
    BY <1>3 DEF Purge
  <2>2. Out(row[k], "absent", "purged").status = "absent"
    BY <1>t, <1>r, OutType DEF Statuses
  <2> QED
    BY <1>0, <2>1, <2>2 DEF Balanced
<1>4. ASSUME NEW p \in Providers, RequeuePolicyRejected(p) PROVE Balanced(row'[k], ledger'[k])
  <2>1. \/ row'[k] = row[k] /\ ledger'[k] = ledger[k]
        \/ row'[k] = Revived(row[k]) /\ ledger'[k] = [failed |-> 0, lost |-> 0]
    BY <1>4 DEF RequeuePolicyRejected
  <2> QED
    BY <1>0, <1>t, <2>1, RevivedType DEF Balanced
<1>5. ASSUME NEW w \in Workers, BlockProvider(w) PROVE Balanced(row'[k], ledger'[k])
  <2>1. \/ row'[k] = row[k] /\ ledger'[k] = ledger[k]
        \/ /\ row[k].status = "pending"
           /\ row'[k] = Out(row[k], "blocked", "unconfigured") /\ ledger'[k] = ledger[k]
        \/ /\ row[k].status = "processing"
           /\ row'[k] = Out(row[k], "blocked", "unconfigured") /\ ledger'[k] = WriteOff(k)
    BY <1>5 DEF BlockProvider, Abandoned
  <2>2. ASSUME row[k].status = "pending"
        PROVE  Balanced(Out(row[k], "blocked", "unconfigured"), ledger[k])
    BY <1>t, <1>r, <1>5, <2>2, BalanceKept
  <2>3. ASSUME row[k].status = "processing"
        PROVE  Balanced(Out(row[k], "blocked", "unconfigured"), WriteOff(k))
    BY <1>t, <1>r, <1>5, <2>3, BalanceKept DEF WriteOff
  <2> QED
    BY <1>0, <2>1, <2>2, <2>3
<1>6. ASSUME NEW w \in Workers, UnblockProvider(w) PROVE Balanced(row'[k], ledger'[k])
  <2>1. /\ ledger'[k] = ledger[k]
        /\ \/ row'[k] = row[k]
           \/ row[k].status = "blocked" /\ row'[k] = Unblocked(row[k])
    BY <1>6 DEF UnblockProvider, Blocked, history
  <2> QED
    BY <1>0, <1>t, <1>r, <2>1, BalanceKept
<1>7. ASSUME NEW w \in Workers, ClaimNothing(w) PROVE Balanced(row'[k], ledger'[k])
  <2>1. /\ ledger'[k] = ledger[k]
        /\ row'[k] = row[k] \/ row'[k] = Out(row[k], "completed", "superseded")
    BY <1>7 DEF ClaimNothing, Retire, history
  <2> QED
    BY <1>0, <1>t, <1>r, <2>1, BalanceKept
<1>8. ASSUME NEW w \in Workers, NEW j \in Jobs, Claim(w, j) PROVE Balanced(row'[k], ledger'[k])
  <2>1. CASE k # j
    <3>1. /\ ledger'[k] = ledger[k]
          /\ row'[k] = row[k] \/ row'[k] = Out(row[k], "completed", "superseded")
      BY <1>8, <1>t, <2>1 DEF Claim, Retire
    <3> QED
      BY <1>0, <1>t, <1>r, <3>1, BalanceKept
  <2>2. CASE k = j
    <3>1. /\ row'[k] = Claimed(row[k], w)
          /\ ledger'[k] = IF Abandoned(k) THEN WriteOff(k) ELSE ledger[k]
          /\ row[k].status \in {"pending", "processing"}
      BY <1>8, <1>t, <2>2 DEF Claim, Ready
    <3>2. CASE row[k].status = "pending"
      <4>1. ledger'[k] = ledger[k]
        BY <3>1, <3>2 DEF Abandoned
      <4> QED
        BY <1>t, <1>r, <3>1, <3>2, <4>1, BalanceKept
    <3>3. CASE row[k].status = "processing"
      <4>1. ledger'[k] = [ledger[k] EXCEPT !.lost = @ + 1]
        BY <3>1, <3>3 DEF Abandoned, WriteOff
      <4>2. Balanced(Claimed(row[k], w), [ledger[k] EXCEPT !.lost = @ + 1])
        BY <1>t, <1>r, <3>3, BalanceKept
      <4> QED
        BY <3>1, <4>1, <4>2
    <3> QED
      BY <3>1, <3>2, <3>3
  <2> QED
    BY <2>1, <2>2
<1>9. ASSUME NEW w \in Workers, Commit(w) PROVE Balanced(row'[k], ledger'[k])
  <2>1. /\ ledger'[k] = ledger[k]
        /\ \/ row'[k] = row[k]
           \/ row'[k] = Out(row[k], "completed", run[w].outcome)
           \/ row'[k] = Out(row[k], "absent", "pruned")
    BY <1>9 DEF Commit
  <2>2. run[w].outcome \in Reasons
    BY <1>9 DEF Commit, HasResult, Reasons
  <2> QED
    BY <1>0, <1>t, <1>r, <2>1, <2>2, BalanceKept
<1>10. ASSUME NEW w \in Workers, Release(w) \/ BlockClaim(w) PROVE Balanced(row'[k], ledger'[k])
  <2>1. run[w].job \in Jobs /\ row[run[w].job].status = "processing"
    BY <1>10, OwnsType DEF Release, BlockClaim, Live
  <2>2. CASE k # run[w].job
    BY <1>0, <1>10, <1>t, <2>2 DEF Release, BlockClaim, history
  <2>3. CASE k = run[w].job
    <3> DEFINE pending == Out(row[k], "pending", "released")
               blocked == Out(row[k], "blocked", "unconfigured")
               n == HandBack(row[k])
    <3>1. /\ pending \in Row /\ pending.status = "pending"
          /\ blocked \in Row /\ blocked.status = "blocked"
      BY <1>t, <1>r, OutType DEF Statuses
    <3>2. n = ledger[k].failed + ledger[k].lost
      BY <1>t, <1>r, <1>10, <2>1, <2>3, BalanceKept
    <3>3. \/ row'[k] = [pending EXCEPT !.attempts = n, !.wait = ReleaseDelay]
          \/ row'[k] = [blocked EXCEPT !.attempts = n]
      BY <1>10, <1>t, <2>3 DEF Release, BlockClaim
    <3>4. ledger'[k] = ledger[k]
      BY <1>10 DEF Release, BlockClaim, history
    <3>5. ledger[k].failed + ledger[k].lost \in Nat
      BY <1>t DEF Entry
    <3> HIDE DEF pending, blocked, n
    <3>6. /\ [pending EXCEPT !.attempts = n, !.wait = ReleaseDelay].status = "pending"
          /\ [pending EXCEPT !.attempts = n, !.wait = ReleaseDelay].attempts = n
          /\ [blocked EXCEPT !.attempts = n].status = "blocked"
          /\ [blocked EXCEPT !.attempts = n].attempts = n
      BY <3>1 DEF Row
    <3>7. row'[k].status \in {"pending", "blocked"} /\ row'[k].attempts = n
      BY <3>3, <3>6
    <3> QED
      BY <3>2, <3>4, <3>5, <3>7 DEF Balanced
  <2> QED
    BY <2>2, <2>3
<1>11. ASSUME NEW w \in Workers, Fail(w) PROVE Balanced(row'[k], ledger'[k])
  <2>1. run[w].job \in Jobs /\ row[run[w].job].status = "processing"
    BY <1>11, OwnsType DEF Fail, Live
  <2>2. CASE k # run[w].job
    <3>1. /\ ledger'[k] = ledger[k]
          /\ row'[k] = row[k] \/ row'[k] = Out(row[k], "absent", "pruned")
      BY <1>11, <1>t, <2>2 DEF Fail
    <3> QED
      BY <1>0, <1>t, <1>r, <3>1, BalanceKept
  <2>3. CASE k = run[w].job
    <3> DEFINE pending == Out(row[k], "pending", run[w].outcome)
               entry == [ledger[k] EXCEPT !.failed = @ + 1]
    <3>1. run[w].outcome \in Reasons
      BY <1>11 DEF Fail, Reasons
    <3>2. /\ Balanced(Out(row[k], "dead", run[w].outcome), entry)
          /\ Balanced(pending, entry)
          /\ pending \in Row
      BY <1>t, <1>r, <2>1, <2>3, <3>1, BalanceKept, OutType DEF Statuses
    <3>3. ledger'[k] = entry
      BY <1>11, <1>t, <2>3 DEF Fail
    <3>4. \/ row'[k] = Out(row[k], "dead", run[w].outcome)
          \/ row'[k] = [pending EXCEPT !.wait = RetryDelay]
      BY <1>11, <2>1, <2>3 DEF Fail
    <3> HIDE DEF pending, entry
    <3>5. Balanced([pending EXCEPT !.wait = RetryDelay], entry)
      <4>1. /\ [pending EXCEPT !.wait = RetryDelay].status = pending.status
            /\ [pending EXCEPT !.wait = RetryDelay].attempts = pending.attempts
        BY <3>2 DEF Row
      <4> QED
        BY <3>2, <4>1, BalanceOnlyCounts
    <3> QED
      BY <3>2, <3>3, <3>4, <3>5
  <2> QED
    BY <2>2, <2>3
<1>12. ASSUME NEW w \in Workers, Renew(w) PROVE Balanced(row'[k], ledger'[k])
  <2>1. ledger'[k] = ledger[k] /\ (row'[k] = row[k] \/ row'[k] = [row[k] EXCEPT !.lease = Lease])
    BY <1>12, <1>t DEF Renew, history
  <2>2. /\ [row[k] EXCEPT !.lease = Lease].status = row[k].status
        /\ [row[k] EXCEPT !.lease = Lease].attempts = row[k].attempts
    BY <1>t DEF Row
  <2> QED
    BY <1>0, <2>1, <2>2, BalanceOnlyCounts
<1>13. CASE Tick \/ Stall
  <2>1. ledger'[k] = ledger[k]
    BY <1>13 DEF Tick, Stall, Elapse, history
  <2> QED
    BY <1>13, <2>1, ElapseKeeps, BalanceOnlyCounts
<1>14. ASSUME NEW w \in Workers,
              StartDrain(w) \/ CommitPaused(w) \/ CommitThrows(w) \/ GiveUp(w) \/ Crash(w)
                \/ \E o \in Outcomes : ProviderReturns(w, o)
       PROVE  UNCHANGED <<row, ledger>>
  BY <1>14 DEF StartDrain, CommitPaused, CommitThrows, GiveUp, Crash, ProviderReturns,
      tables, history
<1>15. ASSUME Pause \/ Resume \/ \E p \in Providers : Unconfigure(p) \/ Configure(p)
       PROVE  UNCHANGED <<row, ledger>>
  BY <1>15 DEF Pause, Resume, Unconfigure, Configure, tables, history
<1>16. CASE UNCHANGED <<row, ledger>>
  BY <1>0, <1>16
<1>17. CASE UNCHANGED vars
  BY <1>16, <1>17 DEF vars
<1> QED
  BY <1>1, <1>2, <1>3, <1>4, <1>5, <1>6, <1>7, <1>8, <1>9, <1>10, <1>11, <1>12, <1>13,
     <1>14, <1>15, <1>16, <1>17 DEF Next, Host, Worker

\* attempts never drifts from what was really consumed, through any mix of
\* lost workers, aborts, blocks and revivals.
THEOREM LedgerHolds == Spec => []AttemptLedger
<1>1. Init => AttemptLedger
  BY DEF Init, AttemptLedger
<1>2. TypeOK /\ AttemptLedger /\ [Next]_vars => AttemptLedger'
  <2> SUFFICES ASSUME TypeOK, AttemptLedger, [Next]_vars PROVE AttemptLedger'
    OBVIOUS
  <2>1. \A k \in Jobs : Balanced(row'[k], ledger'[k])
    BY LedgerIsBalance, LedgerStep
  <2> QED
    BY <2>1 DEF AttemptLedger, Balanced
<1> QED
  BY <1>1, <1>2, TypeCorrect, PTL DEF Spec

----------------------------------------------------------------------------
(***************************************************************************)
(* Purges                                                                  *)
(***************************************************************************)
\* What a step may do to the stage row of a session: nothing, a purge, or the
\* upsert of a commit.
StageMoves(s) ==
    \/ stage'[s] = stage[s]
    \/ Purge(s) /\ stage'[s] = NoStage
    \/ \E w \in Workers :
          /\ Commit(w) /\ run[w].outcome = "output" /\ SessionOf[run[w].job] = s
          /\ stage'[s] = Upsert(stage[s], Checkpoint(run[w].job))

\* Only purges and commits write stage rows.
LEMMA StageStep ==
    ASSUME TypeOK, [Next]_vars, NEW s \in Sessions
    PROVE  StageMoves(s)
<1>t. stage \in [Sessions -> StageRow]
  BY DEF TypeOK
<1>1. ASSUME NEW z \in Sessions, Purge(z) PROVE StageMoves(s)
  BY <1>1, <1>t DEF Purge, StageMoves
<1>2. ASSUME NEW w \in Workers, Commit(w) PROVE StageMoves(s)
  <2>1. run[w].job \in Jobs
    BY <1>2, OwnsType DEF Commit, Fenced
  <2>2. CASE run[w].outcome = "output" /\ SessionOf[run[w].job] = s
    <3>1. stage' = [stage EXCEPT ![s] = Upsert(stage[s], Checkpoint(run[w].job))]
      BY <1>2, <2>2 DEF Commit
    <3> QED
      BY <1>2, <1>t, <2>2, <3>1 DEF StageMoves
  <2>3. CASE ~(run[w].outcome = "output" /\ SessionOf[run[w].job] = s)
    <3>1. stage'[s] = stage[s]
      BY <1>2, <1>t, <2>3 DEF Commit
    <3> QED
      BY <3>1 DEF StageMoves
  <2> QED
    BY <2>2, <2>3
<1>3. CASE ~(\E z \in Sessions : Purge(z)) /\ ~(\E w \in Workers : Commit(w))
  <2>1. ASSUME Host PROVE UNCHANGED stage
    BY <1>3, <2>1 DEF Host, Enqueue, RequeueDead, RequeuePolicyRejected, Unconfigure, Configure,
        Pause, Resume, tables
  <2>2. ASSUME NEW w \in Workers, Worker(w) PROVE UNCHANGED stage
    BY <1>3, <2>2 DEF Worker, StartDrain, BlockProvider, UnblockProvider, ClaimNothing, Claim,
        ProviderReturns, CommitPaused, CommitThrows, Release, BlockClaim, Fail, GiveUp, Renew,
        Crash, tables
  <2>3. ASSUME Tick \/ Stall PROVE UNCHANGED stage
    BY <2>3 DEF Tick, Stall, Elapse
  <2> QED
    BY <1>3, <2>1, <2>2, <2>3 DEF Next, vars, StageMoves
<1> QED
  BY <1>1, <1>2, <1>3

\* A session is wiped by its purge, and no longer when it enqueues again.
LEMMA WipedStep ==
    ASSUME TypeOK, [Next]_vars, NEW s \in Sessions, s \in wiped'
    PROVE  \/ Purge(s)
           \/ s \in wiped /\ ~\E j \in Jobs : SessionOf[j] = s /\ Enqueue(j)
<1>1. ASSUME NEW j \in Jobs, Enqueue(j)
      PROVE  s \in wiped /\ SessionOf[j] # s /\ ~\E k \in Jobs \ {j} : Enqueue(k)
  <2>1. wiped' = wiped \ {SessionOf[j]} /\ row' = [row EXCEPT ![j] = NewRow(enqueues + 1)]
    BY <1>1 DEF Enqueue
  <2>2. ASSUME NEW k \in Jobs \ {j}, Enqueue(k) PROVE FALSE
    <3>1. row' = [row EXCEPT ![k] = NewRow(enqueues + 1)] /\ row[k].status = "absent"
      BY <2>2 DEF Enqueue
    <3>2. row'[k].status = "pending" /\ row'[k] = row[k]
      BY <2>1, <3>1 DEF TypeOK, NewRow
    <3> QED
      BY <3>1, <3>2
  <2> QED
    BY <2>1, <2>2
<1>2. ASSUME NEW z \in Sessions, Purge(z) PROVE Purge(s) \/ s \in wiped
  BY <1>2 DEF Purge
<1>3. CASE ~(\E z \in Sessions : Purge(z)) /\ ~(\E j \in Jobs : Enqueue(j))
  <2>1. ASSUME Host PROVE UNCHANGED wiped
    BY <1>3, <2>1 DEF Host, RequeueDead, RequeuePolicyRejected, Unconfigure, Configure,
        Pause, Resume, history
  <2>2. ASSUME NEW w \in Workers, Worker(w) PROVE UNCHANGED wiped
    BY <2>2 DEF Worker, StartDrain, BlockProvider, UnblockProvider, ClaimNothing, Claim,
        ProviderReturns, CommitPaused, CommitThrows, Commit, Release, BlockClaim, Fail, GiveUp,
        Renew, Crash, history
  <2>3. ASSUME Tick \/ Stall PROVE UNCHANGED wiped
    BY <2>3 DEF Tick, Stall, Elapse, history
  <2> QED
    BY <1>3, <2>1, <2>2, <2>3 DEF Next, vars
<1>4. CASE \E j \in Jobs : Enqueue(j)
  <2>1. PICK j \in Jobs : Enqueue(j)
    BY <1>4
  <2> QED
    BY <1>1, <2>1
<1>5. CASE (\E z \in Sessions : Purge(z)) /\ ~(\E j \in Jobs : Enqueue(j))
  BY <1>2, <1>5
<1> QED
  BY <1>3, <1>4, <1>5

\* Strengthening of PurgeIsFinal: of a purged session there is neither a stage
\* row nor a job, so no worker owns one.
WipedIsGone ==
    \A s \in wiped : stage[s] = NoStage /\ \A j \in Jobs : SessionOf[j] = s => row[j].status = "absent"

\* A worker that still runs a job of a purged session never commits it, and
\* nothing else brings the session's stage row back.
THEOREM PurgeHolds == Spec => []PurgeIsFinal
<1>1. Init => WipedIsGone
  BY DEF Init, WipedIsGone
<1>2. TypeOK /\ WipedIsGone /\ [Next]_vars => WipedIsGone'
  <2> SUFFICES ASSUME TypeOK, WipedIsGone, [Next]_vars, NEW s \in Sessions, s \in wiped'
               PROVE  /\ stage'[s] = NoStage
                      /\ \A j \in Jobs : SessionOf[j] = s => row'[j].status = "absent"
    BY TypeStep DEF WipedIsGone, TypeOK
  <2>1. CASE Purge(s)
    <3>1. ASSUME NEW j \in Jobs, SessionOf[j] = s PROVE row'[j].status = "absent"
      BY <2>1, <3>1, OutType DEF Purge, Purged, TypeOK, Statuses, Reasons
    <3> QED
      BY <2>1, <3>1 DEF Purge, TypeOK
  <2>2. CASE s \in wiped /\ ~\E j \in Jobs : SessionOf[j] = s /\ Enqueue(j)
    <3>1. s \in Sessions /\ stage[s] = NoStage
      BY <2>2 DEF TypeOK, WipedIsGone
    <3>2. ASSUME NEW j \in Jobs, SessionOf[j] = s PROVE row'[j].status = "absent"
      <4>1. row[j].status = "absent"
        BY <2>2, <3>2 DEF WipedIsGone
      <4> QED
        BY <2>2, <3>2, <4>1, TerminalStep DEF StaysOut
    <3>3. ASSUME NEW w \in Workers, Commit(w) PROVE SessionOf[run[w].job] # s
      <4>1. run[w].job \in Jobs /\ row[run[w].job].status = "processing"
        BY <3>3, OwnsType DEF Commit, Fenced, Live
      <4> QED
        BY <2>2, <4>1 DEF WipedIsGone
    <3>4. stage'[s] = NoStage
      BY <3>1, <3>3, StageStep DEF StageMoves
    <3> QED
      BY <3>2, <3>4
  <2> QED
    BY <2>1, <2>2, WipedStep
<1>3. WipedIsGone => PurgeIsFinal
  BY DEF WipedIsGone, PurgeIsFinal
<1> QED
  BY <1>1, <1>2, <1>3, TypeCorrect, PTL DEF Spec

----------------------------------------------------------------------------
(***************************************************************************)
(* Completions                                                             *)
(***************************************************************************)
\* What makes a row completed: it was so before, a claim that found a newer
\* checkpoint retired it, or a commit.
Completes(k) ==
    \/ row[k].status = "completed" /\ row'[k].why = row[k].why
    \/ row'[k].why = "superseded" /\ Superseded(k)
    \/ \E w \in Workers : Commit(w) /\ run[w].job = k /\ row'[k].why = run[w].outcome
\* When a row was inserted changes by its insertion only.
CreatedMoves(k) ==
    \/ enqueues' >= enqueues /\ row'[k].created = row[k].created
    \/ /\ enqueues' = enqueues + 1 /\ row'[k].created = enqueues + 1
       /\ row[k].status = "absent" /\ row'[k].status = "pending"

\* A revived row was inserted when it was.
LEMMA RevivedKeeps ==
    ASSUME NEW r \in Row
    PROVE  Revived(r).created = r.created /\ Unblocked(r).created = r.created
<1>1. /\ \A q \in Row : Out(q, "pending", "none").created = q.created
      /\ [r EXCEPT !.wait = 0] \in Row /\ [r EXCEPT !.wait = 0].created = r.created
      /\ [r EXCEPT !.attempts = 0] \in Row /\ [r EXCEPT !.attempts = 0].created = r.created
  BY DEF Row, Out
<1>2. \A q \in Row : [q EXCEPT !.wait = 0] \in Row /\ [q EXCEPT !.wait = 0].created = q.created
  BY DEF Row
<1> QED
  BY <1>1, <1>2 DEF Revived, Unblocked

\* Only claims retire, and only commits complete with an outcome.
LEMMA CompletionStep ==
    ASSUME TypeOK, [Next]_vars, NEW k \in Jobs
    PROVE  /\ row'[k].status = "completed" => Completes(k)
           /\ CreatedMoves(k)
<1> DEFINE Goal == (row'[k].status = "completed" => Completes(k)) /\ CreatedMoves(k)
<1> SUFFICES Goal
  OBVIOUS
<1>t. row \in [Jobs -> Row] /\ row[k] \in Row /\ enqueues \in Nat
  BY DEF TypeOK
<1>r. /\ {"pruned", "purged", "superseded", "unconfigured", "released", "output", "noop",
          "failed", "rejected"} \subseteq Reasons
      /\ {"pending", "processing", "blocked", "completed", "dead", "absent"} \subseteq Statuses
  BY DEF Reasons, Statuses
<1>0. ASSUME UNCHANGED enqueues, row'[k].status = row[k].status, row'[k].why = row[k].why,
             row'[k].created = row[k].created
      PROVE  Goal
  BY <1>0, <1>t DEF Completes, CreatedMoves
\* A row that leaves for any status but "completed".
<1>o. ASSUME UNCHANGED enqueues, row'[k].status # "completed", row'[k].created = row[k].created
      PROVE  Goal
  BY <1>o, <1>t DEF CreatedMoves
<1>1. ASSUME NEW j \in Jobs, Enqueue(j) PROVE Goal
  <2>1. CASE k = j
    <3>1. row'[k] = NewRow(enqueues + 1) /\ enqueues' = enqueues + 1 /\ row[k].status = "absent"
      BY <1>1, <1>t, <2>1 DEF Enqueue
    <3> QED
      BY <3>1 DEF NewRow, CreatedMoves
  <2>2. CASE k # j
    <3>1. row'[k] = row[k] /\ enqueues' = enqueues + 1
      BY <1>1, <1>t, <2>2 DEF Enqueue
    <3> QED
      BY <1>t, <3>1 DEF Completes, CreatedMoves
  <2> QED
    BY <2>1, <2>2
<1>2. ASSUME NEW j \in Jobs, RequeueDead(j) PROVE Goal
  <2>1. UNCHANGED enqueues /\ (row'[k] = row[k] \/ row'[k] = Revived(row[k]))
    BY <1>2, <1>t DEF RequeueDead
  <2> QED
    BY <1>0, <1>o, <1>t, <2>1, RevivedType, RevivedKeeps
<1>3. ASSUME NEW s \in Sessions, Purge(s) PROVE Goal
  <2>1. UNCHANGED enqueues /\ (row'[k] = row[k] \/ row'[k] = Out(row[k], "absent", "purged"))
    BY <1>3 DEF Purge
  <2>2. /\ Out(row[k], "absent", "purged").status = "absent"
        /\ Out(row[k], "absent", "purged").created = row[k].created
    BY <1>t, <1>r, OutType
  <2> QED
    BY <1>0, <1>o, <2>1, <2>2
<1>4. ASSUME NEW p \in Providers, RequeuePolicyRejected(p) PROVE Goal
  <2>1. UNCHANGED enqueues /\ (row'[k] = row[k] \/ row'[k] = Revived(row[k]))
    BY <1>4, <1>t DEF RequeuePolicyRejected
  <2> QED
    BY <1>0, <1>o, <1>t, <2>1, RevivedType, RevivedKeeps
<1>5. ASSUME NEW w \in Workers, BlockProvider(w) PROVE Goal
  <2>1. UNCHANGED enqueues /\ (row'[k] = row[k] \/ row'[k] = Out(row[k], "blocked", "unconfigured"))
    BY <1>5 DEF BlockProvider
  <2>2. /\ Out(row[k], "blocked", "unconfigured").status = "blocked"
        /\ Out(row[k], "blocked", "unconfigured").created = row[k].created
    BY <1>t, <1>r, OutType
  <2> QED
    BY <1>0, <1>o, <2>1, <2>2
<1>6. ASSUME NEW w \in Workers, UnblockProvider(w) PROVE Goal
  <2>1. UNCHANGED enqueues /\ (row'[k] = row[k] \/ row'[k] = Unblocked(row[k]))
    BY <1>6 DEF UnblockProvider
  <2> QED
    BY <1>0, <1>o, <1>t, <2>1, UnblockedType, RevivedKeeps
\* Retirement, by either end of a claim.
<1>s. ASSUME UNCHANGED enqueues, Superseded(k), row'[k] = Retire(row[k])
      PROVE  Goal
  <2>1. /\ Retire(row[k]).why = "superseded"
        /\ Retire(row[k]).created = row[k].created
    BY <1>t, <1>r, OutType DEF Retire
  <2> QED
    BY <1>s, <1>t, <2>1 DEF Completes, CreatedMoves
<1>7. ASSUME NEW w \in Workers, ClaimNothing(w) PROVE Goal
  <2>1. /\ UNCHANGED enqueues
        /\ \/ row'[k] = row[k]
           \/ row'[k] = Retire(row[k]) /\ Superseded(k)
    BY <1>7 DEF ClaimNothing
  <2> QED
    BY <1>0, <1>s, <2>1
<1>8. ASSUME NEW w \in Workers, NEW j \in Jobs, Claim(w, j) PROVE Goal
  <2>1. /\ UNCHANGED enqueues
        /\ \/ row'[k] = row[k]
           \/ row'[k] = Retire(row[k]) /\ Superseded(k)
           \/ row'[k] = Claimed(row[k], w)
    <3> DEFINE stale == {i \in Ready(WorkerProvider[w]) : Superseded(i)}
    <3>1. PICK met \in SUBSET stale :
             row' = [i \in Jobs |-> IF i = j THEN Claimed(row[i], w)
                                    ELSE IF i \in met THEN Retire(row[i]) ELSE row[i]]
      BY <1>8 DEF Claim
    <3>2. k \in met => Superseded(k)
      OBVIOUS
    <3>3. UNCHANGED enqueues
      BY <1>8 DEF Claim
    <3> QED
      BY <3>1, <3>2, <3>3
  <2>2. Claimed(row[k], w).status = "processing" /\ Claimed(row[k], w).created = row[k].created
    BY <1>t, ClaimedType DEF Claimed, Row
  <2> QED
    BY <1>0, <1>o, <1>s, <2>1, <2>2
<1>9. ASSUME NEW w \in Workers, Commit(w) PROVE Goal
  <2>1. UNCHANGED enqueues /\ run[w].outcome \in Reasons
    BY <1>9 DEF Commit, HasResult, Reasons
  <2>2. CASE k = run[w].job
    <3>1. row'[k] = Out(row[k], "completed", run[w].outcome)
      BY <1>9, <2>2 DEF Commit
    <3>2. row'[k].why = run[w].outcome /\ row'[k].created = row[k].created
      <4>1. "completed" \in Statuses
        BY DEF Statuses
      <4> QED
        BY <1>t, <2>1, <3>1, <4>1, OutType
    <3> QED
      BY <1>9, <1>t, <2>1, <2>2, <3>2 DEF Completes, CreatedMoves
  <2>3. CASE k # run[w].job
    <3>1. row'[k] = row[k] \/ row'[k] = Out(row[k], "absent", "pruned")
      BY <1>9, <2>3 DEF Commit
    <3>2. /\ Out(row[k], "absent", "pruned").status = "absent"
          /\ Out(row[k], "absent", "pruned").created = row[k].created
      BY <1>t, <1>r, OutType
    <3> QED
      BY <1>0, <1>o, <2>1, <3>1, <3>2
  <2> QED
    BY <2>2, <2>3
<1>10. ASSUME NEW w \in Workers, Release(w) \/ BlockClaim(w) PROVE Goal
  <2>1. UNCHANGED enqueues /\ run[w].job \in Jobs
    BY <1>10, OwnsType DEF Release, BlockClaim
  <2> DEFINE pending == Out(row[k], "pending", "released")
             blocked == Out(row[k], "blocked", "unconfigured")
             n == HandBack(row[k])
  <2>2. /\ pending \in Row /\ pending.status = "pending" /\ pending.created = row[k].created
        /\ blocked \in Row /\ blocked.status = "blocked" /\ blocked.created = row[k].created
    BY <1>t, <1>r, OutType
  <2>3. \/ row'[k] = row[k]
        \/ row'[k] = [pending EXCEPT !.attempts = n, !.wait = ReleaseDelay]
        \/ row'[k] = [blocked EXCEPT !.attempts = n]
    BY <1>10, <1>t, <2>1 DEF Release, BlockClaim
  <2> HIDE DEF pending, blocked, n
  <2>4. /\ [pending EXCEPT !.attempts = n, !.wait = ReleaseDelay].status = "pending"
        /\ [pending EXCEPT !.attempts = n, !.wait = ReleaseDelay].created = pending.created
        /\ [blocked EXCEPT !.attempts = n].status = "blocked"
        /\ [blocked EXCEPT !.attempts = n].created = blocked.created
    BY <2>2 DEF Row
  <2> HIDE DEF Goal
  <2> QED
    BY <1>0, <1>o, <2>1, <2>2, <2>3, <2>4
<1>11. ASSUME NEW w \in Workers, Fail(w) PROVE Goal
  <2>1. UNCHANGED enqueues /\ run[w].outcome \in Reasons
    BY <1>11 DEF Fail, Reasons
  <2> DEFINE pending == Out(row[k], "pending", run[w].outcome)
  <2>2. /\ pending \in Row /\ pending.status = "pending" /\ pending.created = row[k].created
    <3>1. "pending" \in Statuses
      BY DEF Statuses
    <3> QED
      BY <1>t, <2>1, <3>1, OutType
  <2>o. \A status \in Statuses, why \in Reasons :
           /\ Out(row[k], status, why).status = status
           /\ Out(row[k], status, why).created = row[k].created
    BY <1>t, OutType
  <2>3. \/ row'[k] = row[k]
        \/ row'[k] = [pending EXCEPT !.wait = RetryDelay]
        \/ row'[k] = Out(row[k], "dead", run[w].outcome)
        \/ row'[k] = Out(row[k], "absent", "pruned")
    <3>1. CASE k = run[w].job
      BY <1>11, <3>1 DEF Fail
    <3>2. CASE k # run[w].job
      BY <1>11, <3>2 DEF Fail
    <3> QED
      BY <3>1, <3>2
  <2> HIDE DEF pending
  <2>4. /\ [pending EXCEPT !.wait = RetryDelay].status = "pending"
        /\ [pending EXCEPT !.wait = RetryDelay].created = pending.created
    BY <2>2 DEF Row
  <2> HIDE DEF Goal
  <2>5. \/ row'[k] = row[k]
        \/ row'[k].status # "completed" /\ row'[k].created = row[k].created
    <3>1. /\ Out(row[k], "dead", run[w].outcome).status = "dead"
          /\ Out(row[k], "dead", run[w].outcome).created = row[k].created
          /\ Out(row[k], "absent", "pruned").status = "absent"
          /\ Out(row[k], "absent", "pruned").created = row[k].created
      BY <1>r, <2>1, <2>o
    <3> QED
      BY <2>2, <2>3, <2>4, <3>1
  <2> QED
    BY <1>0, <1>o, <2>1, <2>5
<1>12. ASSUME NEW w \in Workers, Renew(w) PROVE Goal
  <2>1. UNCHANGED enqueues /\ (row'[k] = row[k] \/ row'[k] = [row[k] EXCEPT !.lease = Lease])
    BY <1>12, <1>t DEF Renew
  <2>2. /\ [row[k] EXCEPT !.lease = Lease].status = row[k].status
        /\ [row[k] EXCEPT !.lease = Lease].why = row[k].why
        /\ [row[k] EXCEPT !.lease = Lease].created = row[k].created
    BY <1>t DEF Row
  <2> QED
    BY <1>0, <2>1, <2>2
<1>13. CASE Tick \/ Stall
  <2>1. UNCHANGED enqueues
    BY <1>13 DEF Tick, Stall, Elapse
  <2> QED
    BY <1>0, <1>13, <2>1, ElapseKeeps
<1>14. ASSUME NEW w \in Workers,
              StartDrain(w) \/ CommitPaused(w) \/ CommitThrows(w) \/ GiveUp(w) \/ Crash(w)
                \/ \E o \in Outcomes : ProviderReturns(w, o)
       PROVE  UNCHANGED <<row, enqueues>>
  BY <1>14 DEF StartDrain, CommitPaused, CommitThrows, GiveUp, Crash, ProviderReturns, tables
<1>15. ASSUME Pause \/ Resume \/ \E p \in Providers : Unconfigure(p) \/ Configure(p)
       PROVE  UNCHANGED <<row, enqueues>>
  BY <1>15 DEF Pause, Resume, Unconfigure, Configure, tables
<1>16. CASE UNCHANGED <<row, enqueues>>
  BY <1>0, <1>16
<1>17. CASE UNCHANGED vars
  BY <1>16, <1>17 DEF vars
<1> HIDE DEF Goal
<1> QED
  BY <1>1, <1>2, <1>3, <1>4, <1>5, <1>6, <1>7, <1>8, <1>9, <1>10, <1>11, <1>12, <1>13,
     <1>14, <1>15, <1>16, <1>17 DEF Next, Host, Worker

----------------------------------------------------------------------------
(***************************************************************************)
(* The stage row of a session                                              *)
(***************************************************************************)
\* A stage row covers another that is of no higher rank, and no newer at the same.
AtLeast(a, b) ==
    \/ a.rank > b.rank
    \/ /\ a.rank = b.rank
       /\ a.updated >= b.updated

\* The upsert covers both of the rows it compares.
LEMMA UpsertCovers ==
    ASSUME NEW old \in StageRow, NEW new \in StageRow
    PROVE  AtLeast(Upsert(old, new), old) /\ AtLeast(Upsert(old, new), new)
<1>1. /\ old.rank \in Int /\ old.updated \in Int
      /\ new.rank \in Int /\ new.updated \in Int
  BY DEF StageRow
<1>2. CASE AtLeast(new, old)
  <2>1. Upsert(old, new) = new
    BY <1>1, <1>2 DEF Upsert, AtLeast
  <2> QED
    BY <1>1, <1>2, <2>1 DEF AtLeast
<1>3. CASE ~AtLeast(new, old)
  <2>1. Upsert(old, new) = old
    BY <1>1, <1>3 DEF Upsert, AtLeast
  <2> QED
    BY <1>1, <1>3, <2>1 DEF AtLeast
<1> QED
  BY <1>2, <1>3

\* Covering is transitive.
LEMMA AtLeastTransitive ==
    ASSUME NEW a \in StageRow, NEW b \in StageRow, NEW c \in StageRow, AtLeast(a, b), AtLeast(b, c)
    PROVE  AtLeast(a, c)
  BY DEF AtLeast, StageRow

\* Covers compares the stage row with the checkpoint of a job.
LEMMA CoversIsAtLeast ==
    ASSUME NEW s, NEW j
    PROVE  Covers(s, j) <=> AtLeast(stage[s], Checkpoint(j))
<1>1. Checkpoint(j).rank = Rank(EventOf[j]) /\ Checkpoint(j).updated = row[j].created
  BY DEF Checkpoint
<1> QED
  BY <1>1 DEF Covers, AtLeast

\* Whatever the order in which workers finish, and although jobs are retired,
\* pruned and purged meanwhile, no stage row falls behind a committed output.
THEOREM StageHolds == Spec => []StageNeverBehind
<1>1. Init => StageNeverBehind
  BY DEF Init, StageNeverBehind
<1>2. TypeOK /\ StageNeverBehind /\ [Next]_vars => StageNeverBehind'
  <2> SUFFICES ASSUME TypeOK, StageNeverBehind, [Next]_vars, NEW j \in Jobs,
                      row'[j].status = "completed", row'[j].why = "output"
               PROVE  AtLeast(stage'[SessionOf[j]], Checkpoint(j)')
    BY DEF StageNeverBehind, Covers, AtLeast, Checkpoint
  <2> DEFINE s == SessionOf[j]
  <2>1. /\ s \in Sessions /\ stage[s] \in StageRow /\ stage'[s] \in StageRow
        /\ Checkpoint(j) \in StageRow /\ TypeOK'
    <3>1. s \in Sessions /\ stage[s] \in StageRow
      BY ShapeAssumption DEF TypeOK
    <3>2. TypeOK'
      BY TypeStep
    <3>3. stage'[s] \in StageRow
      BY <3>1, <3>2 DEF TypeOK
    <3> QED
      BY <3>1, <3>2, <3>3, CheckpointType
  <2>2. Checkpoint(j)' = Checkpoint(j)
    <3>1. row'[j].created = row[j].created
      BY CompletionStep DEF CreatedMoves
    <3> QED
      BY <3>1 DEF Checkpoint
  <2>3. Completes(j)
    BY CompletionStep
  <2>4. ~Purge(s)
    <3>1. SUFFICES ASSUME Purge(s) PROVE FALSE
      OBVIOUS
    <3>2. row'[j].status = "absent"
      BY <3>1, OutType DEF Purge, Purged, TypeOK, Statuses, Reasons
    <3> QED
      BY <3>2
  <2>5. AtLeast(stage'[s], stage[s])
    <3>1. CASE stage'[s] = stage[s]
      BY <2>1, <3>1 DEF AtLeast, StageRow
    <3>2. ASSUME NEW w \in Workers, Commit(w),
                 stage'[s] = Upsert(stage[s], Checkpoint(run[w].job))
          PROVE  AtLeast(stage'[s], stage[s])
      <4>1. Checkpoint(run[w].job) \in StageRow
        BY <3>2, OwnsType, CheckpointType DEF Commit, Fenced
      <4> QED
        BY <2>1, <3>2, <4>1, UpsertCovers
    <3> QED
      BY <2>1, <2>4, <3>1, <3>2, StageStep DEF StageMoves
  <2>6. CASE row[j].status = "completed" /\ row'[j].why = row[j].why
    <3>1. AtLeast(stage[s], Checkpoint(j))
      BY <2>6, CoversIsAtLeast DEF StageNeverBehind
    <3> QED
      BY <2>1, <2>2, <2>5, <3>1, AtLeastTransitive
  <2>7. ASSUME NEW w \in Workers, Commit(w), run[w].job = j, row'[j].why = run[w].outcome
        PROVE  AtLeast(stage'[s], Checkpoint(j)')
    <3>1. stage' = [stage EXCEPT ![s] = Upsert(stage[s], Checkpoint(j))]
      BY <2>7 DEF Commit
    <3>2. stage'[s] = Upsert(stage[s], Checkpoint(j))
      BY <2>1, <3>1 DEF TypeOK
    <3> QED
      BY <2>1, <2>2, <3>2, UpsertCovers
  <2> QED
    BY <2>3, <2>6, <2>7 DEF Completes
<1> QED
  BY <1>1, <1>2, TypeCorrect, PTL DEF Spec

----------------------------------------------------------------------------
(***************************************************************************)
(* The heir of a retired checkpoint                                        *)
(***************************************************************************)
\* A nonempty set of jobs has one that was inserted last.
LEMMA LastInserted ==
    ASSUME TypeOK, NEW H \in SUBSET Jobs, H # {},
           \A k \in H : row[k].created <= enqueues
    PROVE  \E k \in H : \A i \in H : row[i].created <= row[k].created
<1> DEFINE Age(k) == enqueues - row[k].created
           Ages == {Age(k) : k \in H}
<1>1. Ages \subseteq Nat /\ Ages # {}
  BY DEF TypeOK, Row
<1>2. PICK a \in Ages : \A b \in Ages : ~(<<b, a>> \in OpToRel(<, Nat))
  BY <1>1, WFMin, NatLessThanWellFounded
<1>3. \A b \in Ages : ~(b < a)
  BY <1>1, <1>2 DEF OpToRel
<1>4. PICK k \in H : a = Age(k)
  BY <1>2
<1>5. ASSUME NEW i \in H PROVE row[i].created <= row[k].created
  <2>1. /\ row[i].created \in Nat /\ row[k].created \in Nat /\ enqueues \in Nat
    BY DEF TypeOK, Row
  <2>2. ~(Age(i) < Age(k))
    BY <1>3, <1>4
  <2> QED
    BY <2>1, <2>2
<1> QED
  BY <1>5

\* With RetiredHasHeir, no row is newer than the last insertion.
HeirInv == RetiredHasHeir /\ \A j \in Jobs : row[j].created <= enqueues

\* Superseding is by a checkpoint at least as final.
LEMMA SupersedesRank ==
    ASSUME NEW k \in Jobs, NEW j \in Jobs, Supersedes(k, j)
    PROVE  Rank(EventOf[k]) >= Rank(EventOf[j])
  BY ShapeAssumption DEF Supersedes, Rank, Events

\* Heirs inherit.
LEMMA HeirTransitive ==
    ASSUME TypeOK, NEW i \in Jobs, NEW k \in Jobs, NEW j \in Jobs,
           SessionOf[k] = SessionOf[j], row[k].created > row[j].created,
           Rank(EventOf[k]) >= Rank(EventOf[j]), Heir(i, k)
    PROVE  Heir(i, j)
<1>1. /\ row[i].created \in Nat /\ row[k].created \in Nat /\ row[j].created \in Nat
      /\ \A e : Rank(e) \in Nat
  BY DEF TypeOK, Row, Rank
<1> QED
  BY <1>1 DEF Heir

\* What was retired, or can be, has an heir.
LEMMA DoomedHasHeir ==
    ASSUME TypeOK, RetiredHasHeir, NEW j \in Jobs, Retired(j) \/ Superseded(j)
    PROVE  \E k \in Jobs : Heir(k, j)
<1>1. CASE Retired(j)
  BY <1>1 DEF RetiredHasHeir
<1>2. CASE Superseded(j)
  <2>1. PICK k \in Jobs : Supersedes(k, j)
    BY <1>2 DEF Superseded
  <2>2. /\ SessionOf[k] = SessionOf[j] /\ row[k].created > row[j].created
        /\ Rank(EventOf[k]) >= Rank(EventOf[j])
    BY <2>1, SupersedesRank DEF Supersedes
  <2>3. CASE ~Retired(k)
    BY <2>2, <2>3 DEF Heir
  <2>4. CASE Retired(k)
    <3>1. PICK i \in Jobs : Heir(i, k)
      BY <2>4 DEF RetiredHasHeir
    <3> QED
      BY <2>2, <3>1, HeirTransitive
  <2> QED
    BY <2>3, <2>4
<1> QED
  BY <1>1, <1>2

\* Retiring never strands a session, although heirs are themselves retired,
\* pruned, purged and enqueued again: of the newer checkpoints the last one
\* inserted is not retired.
THEOREM HeirHolds == Spec => []RetiredHasHeir
<1>1. Init => HeirInv
  BY DEF Init, HeirInv, RetiredHasHeir, Retired
<1>2. TypeOK /\ HeirInv /\ [Next]_vars => HeirInv'
  <2> SUFFICES ASSUME TypeOK, HeirInv, [Next]_vars PROVE HeirInv'
    OBVIOUS
  <2>0. enqueues \in Nat /\ enqueues' \in Nat
    BY TypeStep DEF TypeOK
  <2>1. \A j \in Jobs : CreatedMoves(j) /\ row[j].created \in Nat /\ enqueues \in Nat
    BY CompletionStep DEF TypeOK, Row
  <2>2. \A j \in Jobs : row'[j].created <= enqueues'
    BY <2>0, <2>1 DEF HeirInv, CreatedMoves
  <2>3. ASSUME NEW j \in Jobs, Retired(j)' PROVE \E k \in Jobs : Heir(k, j)'
    <3> DEFINE H == {k \in Jobs : Heir(k, j)}
    <3>1. Retired(j) \/ Superseded(j)
      BY <2>3, CompletionStep DEF Completes, Retired, Commit, HasResult
    <3>2. H # {}
      BY <3>1, DoomedHasHeir DEF HeirInv
    <3>3. PICK k \in H : \A i \in H : row[i].created <= row[k].created
      BY <3>2, LastInserted DEF HeirInv
    <3>4. k \in Jobs /\ Heir(k, j) /\ row[k].created \in Nat
      BY <2>1, <3>3
    <3>5. ~Retired(k)'
      <4> SUFFICES ASSUME Retired(k)' PROVE FALSE
        OBVIOUS
      <4>1. Retired(k) \/ Superseded(k)
        BY <3>4, CompletionStep DEF Completes, Retired, Commit, HasResult
      <4>2. PICK i \in Jobs : Heir(i, k)
        BY <3>4, <4>1, DoomedHasHeir DEF HeirInv
      <4>3. Heir(i, j)
        BY <3>4, <4>2, HeirTransitive DEF Heir
      <4>4. row[i].created <= row[k].created /\ row[i].created > row[k].created
        BY <3>3, <4>2, <4>3 DEF Heir
      <4> QED
        BY <2>1, <3>4, <4>4
    <3>6. row'[j].created = row[j].created
      BY <2>1, <2>3 DEF CreatedMoves, Retired
    <3>7. row'[k].created >= row[k].created
      BY <2>1, <3>4 DEF CreatedMoves, HeirInv
    <3>8. row'[k].created > row'[j].created
      <4>1. row[k].created > row[j].created
        BY <3>4 DEF Heir
      <4>2. row'[k].created \in Nat
        BY <2>1, <3>4 DEF CreatedMoves
      <4> QED
        BY <2>1, <3>4, <3>6, <3>7, <4>1, <4>2
    <3>9. SessionOf[k] = SessionOf[j] /\ Rank(EventOf[k]) >= Rank(EventOf[j])
      BY <3>4 DEF Heir
    <3> QED
      BY <3>4, <3>5, <3>8, <3>9 DEF Heir
  <2> QED
    BY <2>2, <2>3 DEF HeirInv, RetiredHasHeir
<1> QED
  BY <1>1, <1>2, TypeCorrect, PTL DEF Spec, HeirInv
=============================================================================
