------------------------- MODULE Automation_proofs -------------------------
(***************************************************************************)
(* What holds of runs for every set of API keys, runs and steps, however   *)
(* the unlocked requests interleave, and what holds in addition when one   *)
(* key serves them in turn; then, of the automation loop as a whole.  The  *)
(* loop takes no step that the control plane does not take                 *)
(* (LoopStepIsRunStep), so that the invariant of AutomationRuns carries    *)
(* over; what is new is that a worker acts on runs it looked at earlier,   *)
(* and that they may have been overwritten since.                          *)
(***************************************************************************)
EXTENDS Automation, TLAPS

\* A step of any request keeps the types of runs, counters and requests.
LEMMA RunsTypeStep == TypeOK /\ [Next]_vars => TypeOK'
<1> USE DEF TypeOK, RunRows, Requests, Ops, States, Awaiting
<1> SUFFICES ASSUME TypeOK, [Next]_vars
             PROVE  TypeOK'
  OBVIOUS
<1>1. ASSUME NEW k \in Keys, NEW op \in Ops, NEW r \in Runs, Read(k, op, r)
      PROVE  TypeOK'
  BY <1>1 DEF Read
<1>2. ASSUME NEW k \in Keys, Commit(k)
      PROVE  TypeOK'
  <2>1. request[k] \in Requests /\ Done(k)
    BY <1>2 DEF Commit, propose_run, approve_run, reject_run, dispatch_run, Asked
  <2>2. request' \in [Keys -> Requests \cup {None}]
    BY <2>1 DEF Done
  <2>3. CASE propose_run(k)
    BY <2>1, <2>2, <2>3 DEF propose_run, Absent
  <2>4. CASE approve_run(k)
    BY <2>1, <2>2, <2>4 DEF approve_run, Enough
  <2>5. CASE reject_run(k)
    BY <2>1, <2>2, <2>5 DEF reject_run
  <2>6. CASE dispatch_run(k)
    <3> DEFINE r == request[k].run
    <3>1. \A i \in Steps : stored[r][i] + 1 \in Nat
      BY <2>1
    <3>2. stored' \in [Runs -> [Steps -> Nat]]
      BY <2>1, <2>6, <3>1 DEF dispatch_run
    <3>3. run' \in [Runs -> RunRows]
      BY <2>1, <2>6 DEF dispatch_run
    <3> QED
      BY <2>2, <3>2, <3>3
  <2> QED
    BY <1>2, <2>3, <2>4, <2>5, <2>6 DEF Commit
<1>3. ASSUME NEW k \in Keys, Rollback(k)
      PROVE  TypeOK'
  BY <1>3 DEF Rollback, Done
<1>4. CASE UNCHANGED vars
  BY <1>4 DEF vars
<1> QED
  BY <1>1, <1>2, <1>3, <1>4 DEF Next

\* Rows, counters and requests keep their types through every commit.
THEOREM RunsTypeCorrect == Spec => []TypeOK
<1>1. Init => TypeOK
  BY DEF Init, Absent, TypeOK, RunRows, Requests, Ops, States, Awaiting
<1> QED
  BY <1>1, RunsTypeStep, PTL DEF Spec

-----------------------------------------------------------------------------
(* The inductive invariant, one action at a time. *)

\* A request that ends takes nothing from the others.
LEMMA OthersKept ==
    ASSUME TypeOK, NEW k \in Keys, Done(k), NEW j \in Keys, NEW op, Asked(j, op)'
    PROVE  request[j] \in Requests /\ request'[j] = request[j] /\ Asked(j, op)
BY DEF Done, Asked, TypeOK

\* A request that has only read changes no row; a dispatch has read an approval.
LEMMA ReadInv ==
    ASSUME RunsInv, TypeOK', NEW k \in Keys, NEW op \in Ops, NEW r \in Runs, Read(k, op, r)
    PROVE  RunsInv'
<1>1. UNCHANGED <<run, stored>> /\ Accepts(op, k, run[r])
  BY DEF Read
<1>2. ASSUME NEW j \in Keys, Asked(j, "dispatch")'
      PROVE  run'[request'[j].run].approvals # {}
  <2>1. CASE j = k
    <3>1. request'[k] = [op |-> op, run |-> r, seen |-> run[r]]
      BY DEF Read, RunsInv, TypeOK
    <3>2. op = "dispatch" /\ request'[j].run = r
      BY <1>2, <2>1, <3>1 DEF Asked
    <3>3. run[r].state = "approved"
      BY <1>1, <3>2 DEF Accepts
    <3> QED
      BY <1>1, <3>2, <3>3 DEF RunsInv
  <2>2. CASE j # k
    <3>1. request'[j] = request[j]
      BY <2>2 DEF Read, RunsInv, TypeOK
    <3>2. Asked(j, "dispatch")
      BY <1>2, <3>1 DEF Asked
    <3> QED
      BY <1>1, <3>1, <3>2 DEF RunsInv
  <2> QED
    BY <2>1, <2>2
<1> QED
  BY <1>1, <1>2 DEF RunsInv, ApprovedFirst, DispatchedWhole, DispatchRecorded, Fresh

\* Every commit writes one run and leaves approvals where there were some.
LEMMA CommitInv ==
    ASSUME RunsInv, TypeOK', NEW k \in Keys, Commit(k)
    PROVE  RunsInv'
<1> DEFINE r == request[k].run
           Kept == \A s \in Runs : run[s].approvals # {} => run'[s].approvals # {}
<1>1. request[k] \in Requests /\ r \in Runs /\ Done(k)
  BY DEF Commit, propose_run, approve_run, reject_run, dispatch_run, Asked, RunsInv, TypeOK,
         Requests
<1>2. run \in [Runs -> RunRows] /\ stored \in [Runs -> [Steps -> Nat]]
  BY DEF RunsInv, TypeOK
<1> HIDE DEF r
<1>3. ASSUME Kept
      PROVE  \A j \in Keys : Asked(j, "dispatch")' => run'[request'[j].run].approvals # {}
  <2> SUFFICES ASSUME NEW j \in Keys, Asked(j, "dispatch")'
               PROVE  run'[request'[j].run].approvals # {}
    OBVIOUS
  <2>1. request[j] \in Requests /\ request'[j] = request[j] /\ Asked(j, "dispatch")
    BY <1>1, OthersKept DEF RunsInv
  <2> QED
    BY <1>3, <2>1 DEF RunsInv, Requests
<1>4. CASE propose_run(k)
  <2>1. /\ run[r].state = "absent" /\ stored' = stored
        /\ run'[r].state = "proposed" /\ run'[r].approvals = {} /\ ~run'[r].dispatchedAt
        /\ \A s \in Runs : s # r => run'[s] = run[s]
    BY <1>1, <1>2, <1>4 DEF propose_run, Absent, r
  <2>2. run[r].approvals = {}
    BY <1>1, <2>1 DEF RunsInv
  <2>3. Fresh(r) /\ ~run[r].dispatchedAt
    BY <1>1, <2>2 DEF RunsInv, ApprovedFirst, DispatchRecorded
  <2>4. Kept
    BY <2>1, <2>2
  <2>5. ApprovedFirst' /\ DispatchedWhole' /\ DispatchRecorded'
    BY <1>1, <2>1, <2>3
       DEF RunsInv, ApprovedFirst, DispatchedWhole, DispatchRecorded, Fresh
  <2> QED
    BY <1>3, <2>1, <2>4, <2>5 DEF RunsInv
<1>5. CASE approve_run(k)
  <2>1. /\ stored' = stored
        /\ run'[r].state \in {"approved", "partially_approved"} /\ run'[r].approvals # {}
        /\ run'[r].dispatchedAt = run[r].dispatchedAt
        /\ \A s \in Runs : s # r => run'[s] = run[s]
    BY <1>1, <1>2, <1>5 DEF approve_run, Enough, r, RunRows
  <2>2. ApprovedFirst' /\ DispatchedWhole' /\ DispatchRecorded'
    BY <2>1 DEF RunsInv, ApprovedFirst, DispatchedWhole, DispatchRecorded, Fresh
  <2> QED
    BY <1>3, <2>1, <2>2 DEF RunsInv
<1>6. CASE reject_run(k)
  <2>1. /\ stored' = stored
        /\ run'[r].state = "rejected" /\ run'[r].approvals = run[r].approvals
        /\ run'[r].dispatchedAt = run[r].dispatchedAt
        /\ \A s \in Runs : s # r => run'[s] = run[s]
    BY <1>1, <1>2, <1>6 DEF reject_run, r, RunRows
  <2>2. ApprovedFirst' /\ DispatchedWhole' /\ DispatchRecorded'
    BY <2>1 DEF RunsInv, ApprovedFirst, DispatchedWhole, DispatchRecorded, Fresh
  <2> QED
    BY <1>3, <2>1, <2>2 DEF RunsInv
<1>7. CASE dispatch_run(k)
  <2>1. /\ run'[r].state = "dispatched" /\ run'[r].approvals = run[r].approvals
        /\ run'[r].dispatchedAt
        /\ \A s \in Runs : s # r => run'[s] = run[s]
    BY <1>1, <1>2, <1>7 DEF dispatch_run, r, RunRows
  <2>2. Fresh(r) /\ Asked(k, "dispatch")
    BY <1>7 DEF dispatch_run, r
  <2>3. /\ \A i \in Steps : stored'[r][i] = 1
        /\ \A s \in Runs : s # r => stored'[s] = stored[s]
    <3>1. stored' = [stored EXCEPT ![r] = [i \in Steps |-> stored[r][i] + 1]]
      BY <1>1, <1>2, <1>7 DEF dispatch_run, r
    <3>2. stored'[r] = [i \in Steps |-> stored[r][i] + 1]
      BY <1>1, <1>2, <3>1
    <3>3. \A i \in Steps : stored[r][i] + 1 = 1
      BY <2>2 DEF Fresh
    <3> QED
      BY <1>2, <3>1, <3>2, <3>3
  <2>4. run[r].approvals # {}
    BY <2>2 DEF RunsInv, r
  <2>5. ~ \A i \in Steps : stored'[r][i] = 0
    BY <2>3, RunsAssumption
  <2>6. ApprovedFirst'
    BY <2>1, <2>3, <2>4 DEF RunsInv, ApprovedFirst, Fresh
  <2>7. DispatchedWhole'
    BY <2>3 DEF RunsInv, DispatchedWhole, Fresh
  <2>8. DispatchRecorded'
    <3>1. \A s \in Runs : s # r => (Fresh(s)' <=> Fresh(s))
      BY <2>3 DEF Fresh
    <3>2. ASSUME NEW s \in Runs
          PROVE  /\ run'[s].dispatchedAt <=> ~Fresh(s)'
                 /\ run'[s].state = "dispatched" => run'[s].dispatchedAt
      <4>1. CASE s = r
        BY <2>1, <2>5, <4>1 DEF Fresh
      <4>2. CASE s # r
        BY <2>1, <3>1, <4>2 DEF RunsInv, DispatchRecorded
      <4> QED
        BY <4>1, <4>2
    <3> QED
      BY <3>2 DEF DispatchRecorded
  <2> QED
    BY <1>3, <2>1, <2>4, <2>6, <2>7, <2>8 DEF RunsInv
<1> QED
  BY <1>4, <1>5, <1>6, <1>7 DEF Commit

\* A step of any request keeps the invariant.
LEMMA RunsInvStep == RunsInv /\ [Next]_vars => RunsInv'
<1> SUFFICES ASSUME RunsInv, [Next]_vars
             PROVE  RunsInv'
  OBVIOUS
<1>0. TypeOK'
  BY RunsTypeStep DEF RunsInv
<1>1. ASSUME NEW k \in Keys, Rollback(k)
      PROVE  RunsInv'
  <2>1. Done(k) /\ UNCHANGED <<run, stored>>
    BY <1>1 DEF Rollback
  <2>2. \A j \in Keys : Asked(j, "dispatch")' => run'[request'[j].run].approvals # {}
    BY <2>1, OthersKept DEF RunsInv
  <2> QED
    BY <1>0, <2>1, <2>2 DEF RunsInv, ApprovedFirst, DispatchedWhole, DispatchRecorded, Fresh
<1>2. CASE UNCHANGED vars
  BY <1>0, <1>2 DEF vars, RunsInv, TypeOK, ApprovedFirst, DispatchedWhole, DispatchRecorded, Fresh,
             Asked
<1> QED
  BY <1>0, <1>1, <1>2, ReadInv, CommitInv DEF Next

\* The named parts of RunsInv hold however requests interleave.
THEOREM RunsInvariant == Spec => []RunsInv
<1>1. Init => RunsInv
  BY DEF Init, RunsInv, TypeOK, Absent, RunRows, States, ApprovedFirst, DispatchedWhole,
         DispatchRecorded, Fresh, Asked
<1> QED
  BY <1>1, RunsInvStep, PTL DEF Spec

\* No outbox row without a recorded approval (dispatch_run, orchestration.py:338).
THEOREM NothingUnapproved == Spec => []ApprovedFirst
<1>1. RunsInv => ApprovedFirst
  BY DEF RunsInv
<1> QED
  BY <1>1, RunsInvariant, PTL

\* The steps of a run enter the outbox once and together (orchestration.py:346-365
\* under the constraint uq_automation_outbox_run_step).
THEOREM NothingTwice == Spec => []DispatchedWhole
<1>1. RunsInv => DispatchedWhole
  BY DEF RunsInv
<1> QED
  BY <1>1, RunsInvariant, PTL

\* dispatched_at tells whether a run's steps are in the outbox, whatever has become of its
\* state since (dispatch_run writes both in one transaction, orchestration.py:346-367).
THEOREM DispatchesRecorded == Spec => []DispatchRecorded
<1>1. RunsInv => DispatchRecorded
  BY DEF RunsInv
<1> QED
  BY <1>1, RunsInvariant, PTL

-----------------------------------------------------------------------------
(* One key: what a request loaded is still what the run holds. *)

\* No other key can have written the run since.
ReadIsCurrent ==
    \A k \in Keys : request[k] # None =>
        /\ request[k].seen = run[request[k].run]
        /\ Accepts(request[k].op, k, request[k].seen)

\* Inductive for a single key.
OneKeyInv == TypeOK /\ ReadIsCurrent

\* The life cycle of a run is kept while one key serves its requests in turn; it
\* takes a second key to break it.
THEOREM OneKeyIsOrderly ==
    ASSUME \A j, k \in Keys : j = k
    PROVE  Spec => OrderlyLife
<1>1. Init => OneKeyInv
  BY DEF Init, OneKeyInv, TypeOK, Absent, RunRows, States, ReadIsCurrent
<1>2. OneKeyInv /\ [Next]_vars /\ TypeOK' => OneKeyInv'
  <2> SUFFICES ASSUME OneKeyInv, [Next]_vars, TypeOK'
               PROVE  ReadIsCurrent'
    BY DEF OneKeyInv
  <2>1. ASSUME NEW k \in Keys, NEW op \in Ops, NEW r \in Runs, Read(k, op, r)
        PROVE  ReadIsCurrent'
    <3>1. request'[k] = [op |-> op, run |-> r, seen |-> run[r]]
      BY <2>1 DEF Read, OneKeyInv, TypeOK
    <3> QED
      BY <2>1, <3>1 DEF Read, ReadIsCurrent
  <2>2. ASSUME NEW k \in Keys, Commit(k) \/ Rollback(k)
        PROVE  ReadIsCurrent'
    <3>1. Done(k)
      BY <2>2 DEF Commit, propose_run, approve_run, reject_run, dispatch_run, Rollback
    <3>2. \A j \in Keys : request'[j] = None
      BY <3>1 DEF Done, OneKeyInv, TypeOK
    <3> QED
      BY <3>2 DEF ReadIsCurrent
  <2>3. CASE UNCHANGED vars
    BY <2>3 DEF vars, OneKeyInv, ReadIsCurrent
  <2> QED
    BY <2>1, <2>2, <2>3 DEF Next
<1>3. OneKeyInv /\ RunsInv /\ [Next]_vars
         => [\A r \in Runs :
                /\ run'[r].state # run[r].state => <<run[r].state, run'[r].state>> \in Moves
                /\ run[r].approvals \subseteq run'[r].approvals]_vars
  <2> SUFFICES ASSUME OneKeyInv, RunsInv, Next, NEW r \in Runs
               PROVE  /\ run'[r].state # run[r].state
                             => <<run[r].state, run'[r].state>> \in Moves
                      /\ run[r].approvals \subseteq run'[r].approvals
    OBVIOUS
  <2>1. CASE UNCHANGED run
    BY <2>1
  <2>2. ASSUME NEW k \in Keys, Commit(k), request[k].run = r
        PROVE  /\ run'[r].state # run[r].state
                       => <<run[r].state, run'[r].state>> \in Moves
               /\ run[r].approvals \subseteq run'[r].approvals
    <3>1. /\ request[k] \in Requests /\ run \in [Runs -> RunRows]
          /\ request[k].seen = run[r]
          /\ Accepts(request[k].op, k, run[r])
      BY <2>2 DEF Commit, propose_run, approve_run, reject_run, dispatch_run, Asked,
                  OneKeyInv, ReadIsCurrent, TypeOK
    <3>2. CASE propose_run(k)
      <4>1. run'[r].state = "proposed" /\ run[r].state = "absent"
        BY <2>2, <3>1, <3>2 DEF propose_run, Absent
      <4>2. run[r].approvals \subseteq run'[r].approvals
        BY <3>1, <4>1 DEF RunsInv
      <4> QED
        BY <4>1, <4>2 DEF Moves
    <3>3. CASE approve_run(k)
      BY <2>2, <3>1, <3>3 DEF approve_run, Asked, Accepts, Awaiting, Enough, Moves, RunRows
    <3>4. CASE reject_run(k)
      BY <2>2, <3>1, <3>4 DEF reject_run, Asked, Accepts, Awaiting, Moves, RunRows
    <3>5. CASE dispatch_run(k)
      BY <2>2, <3>1, <3>5 DEF dispatch_run, Asked, Accepts, Moves, RunRows
    <3> QED
      BY <2>2, <3>2, <3>3, <3>4, <3>5 DEF Commit
  <2>3. ASSUME NEW k \in Keys, Commit(k), request[k].run # r
        PROVE  run'[r] = run[r]
    BY <2>3 DEF Commit, propose_run, approve_run, reject_run, dispatch_run, OneKeyInv, TypeOK
  <2> QED
    BY <2>1, <2>2, <2>3 DEF Next, Read, Rollback
<1> QED
  BY <1>1, <1>2, <1>3, RunsTypeCorrect, RunsInvariant, PTL DEF Spec, OrderlyLife

-----------------------------------------------------------------------------
(* The loop. *)

\* A replay is refused and nothing else of the loop writes runs: every step is a
\* request of the control plane or leaves it alone.
LEMMA LoopStepIsRunStep == LoopInv /\ [LoopNext]_loopVars => [Next]_vars
<1> SUFFICES ASSUME LoopInv, [LoopNext]_loopVars
             PROVE  [Next]_vars
  OBVIOUS
<1>1. ASSUME NEW k \in Keys, Dispatch(k)
      PROVE  Next
  BY <1>1 DEF Dispatch, Next, Commit
<1>2. ASSUME NEW k \in Keys, Control(k)
      PROVE  Next
  BY <1>2 DEF Control, Next, Commit
<1>3. ASSUME NEW k \in Keys, NEW r \in Runs, NEW i \in Steps, Replay(k, r, i)
      PROVE  UNCHANGED vars
  <2>1. stored[r][i] # 0
    BY <1>3 DEF Replay, Replayable, LoopInv, RowsExist
  <2> QED
    BY <1>3, <2>1 DEF Replay, vars
<1>4. ASSUME NEW r \in Runs, NEW i \in Steps, Connector(r, i)
      PROVE  UNCHANGED vars
  BY <1>4 DEF Connector
<1>5. ASSUME NEW w \in Workers,
             \/ ClaimRows(w)
             \/ \E row \in InternalRows : LoadRun(w, row)
             \/ CommitBatch(w)
             \/ AbortBatch(w)
      PROVE  UNCHANGED vars
  BY <1>5 DEF ClaimRows, LoadRun, CommitBatch, AbortBatch
<1>6. CASE UNCHANGED loopVars
  BY <1>6 DEF loopVars
<1> QED
  BY <1>1, <1>2, <1>3, <1>4, <1>5, <1>6 DEF LoopNext

\* A run that was overwritten after its dispatch never shows as dispatched again:
\* its steps are in the outbox, and a second dispatch cannot insert them.
LEMMA OverwrittenForGood ==
    ASSUME RunsInv, [Next]_vars, NEW r \in Runs, ~Fresh(r)
    PROVE  /\ ~Fresh(r)'
           /\ run[r].state # "dispatched" => run'[r].state # "dispatched"
<1> USE DEF RunsInv
<1>1. ASSUME NEW k \in Keys, NEW op \in Ops, NEW s \in Runs, Read(k, op, s)
      PROVE  UNCHANGED <<run, stored>>
  BY <1>1 DEF Read
<1>2. ASSUME NEW k \in Keys, Rollback(k)
      PROVE  UNCHANGED <<run, stored>>
  BY <1>2 DEF Rollback
<1>3. ASSUME NEW k \in Keys, Commit(k)
      PROVE  /\ ~Fresh(r)'
             /\ run[r].state # "dispatched" => run'[r].state # "dispatched"
  <2> DEFINE s == request[k].run
  <2>1. request[k] \in Requests /\ s \in Runs
    BY <1>3 DEF Commit, propose_run, approve_run, reject_run, dispatch_run, Asked, TypeOK,
                Requests
  <2>2. CASE dispatch_run(k)
    <3>1. s # r
      BY <2>2 DEF dispatch_run
    <3>2. run'[r] = run[r] /\ stored'[r] = stored[r]
      BY <2>1, <2>2, <3>1 DEF dispatch_run, TypeOK
    <3> QED
      BY <3>2 DEF Fresh
  <2>3. CASE ~dispatch_run(k)
    <3>1. stored' = stored
      BY <1>3, <2>3 DEF Commit, propose_run, approve_run, reject_run
    <3>2. CASE s # r
      <4>1. run'[r] = run[r]
        BY <1>3, <2>1, <2>3, <3>2 DEF Commit, propose_run, approve_run, reject_run, TypeOK
      <4> QED
        BY <3>1, <4>1 DEF Fresh
    <3>3. CASE s = r
      <4>1. run'[r].state \in {"proposed", "partially_approved", "approved", "rejected"}
        <5>1. CASE propose_run(k)
          BY <2>1, <3>3, <5>1 DEF propose_run, Absent, TypeOK
        <5>2. CASE approve_run(k)
          BY <2>1, <3>3, <5>2 DEF approve_run, Enough, TypeOK, RunRows
        <5>3. CASE reject_run(k)
          BY <2>1, <3>3, <5>3 DEF reject_run, TypeOK, RunRows
        <5> QED
          BY <1>3, <2>3, <5>1, <5>2, <5>3 DEF Commit
      <4> QED
        BY <3>1, <4>1 DEF Fresh
    <3> QED
      BY <3>2, <3>3
  <2> QED
    BY <2>2, <2>3
<1> QED
  BY <1>1, <1>2, <1>3 DEF Next, vars, Fresh

-----------------------------------------------------------------------------
(* The inductive invariant, one action at a time. *)

\* The parts of LoopInv beyond types and the invariant of the runs.
LoopRest == RowsExist /\ RowsHeldOnce /\ FindingsHold /\ CreatedOnce /\ DispatchedNeverDead

\* Every action keeps the types of the outbox and of the workers.
LEMMA LoopTypeStep == LoopInv /\ [LoopNext]_loopVars => LoopTypeOK'
<1> SUFFICES ASSUME LoopInv, [LoopNext]_loopVars
             PROVE  LoopTypeOK'
  OBVIOUS
<1> USE AutomationAssumption DEF LoopTypeOK
<1>1. TypeOK' /\ LoopTypeOK
  BY LoopStepIsRunStep, RunsTypeStep DEF LoopInv
<1>2. ASSUME NEW k \in Keys, Dispatch(k)
      PROVE  LoopTypeOK'
  BY <1>1, <1>2 DEF Dispatch, workerVars, RowStates
<1>3. ASSUME NEW k \in Keys, Control(k)
      PROVE  LoopTypeOK'
  BY <1>1, <1>3 DEF Control, outboxVars, workerVars
<1>4. ASSUME NEW k \in Keys, NEW r \in Runs, NEW i \in Steps, Replay(k, r, i)
      PROVE  LoopTypeOK'
  <2>1. stored[r][i] # 0
    BY <1>4 DEF Replay, Replayable, LoopInv, RowsExist
  <2> QED
    BY <1>1, <1>4, <2>1 DEF Replay, workerVars
<1>5. ASSUME NEW r \in Runs, NEW i \in Steps, Connector(r, i)
      PROVE  LoopTypeOK'
  BY <1>1, <1>5 DEF Connector, workerVars, RowStates
<1>6. ASSUME NEW w \in Workers, ClaimRows(w)
      PROVE  LoopTypeOK'
  BY <1>1, <1>6 DEF ClaimRows, outboxVars, Queued
<1>7. ASSUME NEW w \in Workers, NEW row \in InternalRows, LoadRun(w, row)
      PROVE  LoopTypeOK'
  BY <1>1, <1>7 DEF LoadRun, outboxVars, Findings
<1>8. ASSUME NEW w \in Workers, Released(w)
      PROVE  /\ batch' \in [Workers -> SUBSET InternalRows]
             /\ found' \in [Workers -> [InternalRows -> Findings]]
  BY <1>1, <1>8 DEF Released, Unread, Findings
<1>9. ASSUME NEW w \in Workers, CommitBatch(w)
      PROVE  LoopTypeOK'
  <2>1. outcome' \in [Runs -> [Steps -> RowStates]]
    BY <1>1, <1>9 DEF CommitBatch, Marked, RowStates
  <2>2. created' \in [Runs -> [Internal -> Nat]]
    BY <1>1, <1>9 DEF CommitBatch, Marked
  <2> QED
    BY <1>1, <1>8, <1>9, <2>1, <2>2 DEF CommitBatch
<1>10. ASSUME NEW w \in Workers, AbortBatch(w)
       PROVE  LoopTypeOK'
  <2>1. aborts' \in 0..MaxAborts
    BY <1>1, <1>10 DEF AbortBatch
  <2> QED
    BY <1>1, <1>8, <1>10, <2>1 DEF AbortBatch, outboxVars
<1>11. CASE UNCHANGED loopVars
  BY <1>1, <1>11 DEF loopVars, outboxVars, workerVars
<1> QED
  BY <1>2, <1>3, <1>4, <1>5, <1>6, <1>7, <1>9, <1>10, <1>11 DEF LoopNext

\* A dispatch inserts rows nobody holds and nothing was created for.
LEMMA DispatchKeeps ==
    ASSUME LoopInv, [Next]_vars, TypeOK', NEW k \in Keys, Dispatch(k)
    PROVE  LoopRest'
<1> DEFINE s == request[k].run
<1> USE AutomationAssumption DEF LoopInv
<1>1. s \in Runs /\ Fresh(s)
  BY DEF Dispatch, dispatch_run, Asked, LoopTypeOK, TypeOK, Requests
<1>2. \A r \in Runs, i \in Steps :
         /\ outcome'[r][i] = IF r = s THEN "queued" ELSE outcome[r][i]
         /\ stored'[r][i] = IF r = s THEN 1 ELSE stored[r][i]
  BY <1>1 DEF Dispatch, dispatch_run, LoopTypeOK, TypeOK, Fresh
<1>3. \A i \in Steps : outcome[s][i] = "absent"
  BY <1>1 DEF Fresh, RowsExist
<1>4. UNCHANGED <<created, batch, found>>
  BY DEF Dispatch, workerVars
<1>5. RowsExist'
  BY <1>2 DEF RowsExist
<1>6. RowsHeldOnce'
  <2>1. ASSUME NEW w \in Workers, NEW row \in batch[w]
        PROVE  outcome'[row[1]][row[2]] = "queued"
    <3>1. row[1] \in Runs /\ row[2] \in Steps /\ outcome[row[1]][row[2]] = "queued"
      BY DEF RowsHeldOnce, LoopTypeOK, InternalRows
    <3> QED
      BY <1>2, <3>1
  <2> QED
    BY <1>4, <2>1 DEF RowsHeldOnce
<1>7. FindingsHold'
  BY <1>4, OverwrittenForGood DEF FindingsHold
<1>8. CreatedOnce'
  BY <1>2, <1>3, <1>4 DEF CreatedOnce
<1>9. DispatchedNeverDead'
  <2>1. ASSUME NEW r \in Runs, r # s
        PROVE  run'[r] = run[r]
    BY <2>1 DEF Dispatch, dispatch_run, LoopTypeOK, TypeOK
  <2> QED
    BY <1>2, <2>1 DEF DispatchedNeverDead
<1> QED
  BY <1>5, <1>6, <1>7, <1>8, <1>9 DEF LoopRest

\* Whatever a request, a replay or a claim does to runs, it moves no row.
LEMMA RowsUntouched ==
    ASSUME LoopInv, [Next]_vars, UNCHANGED <<stored, outcome, created, found>>, RowsHeldOnce'
    PROVE  LoopRest'
<1> USE AutomationAssumption DEF LoopInv
<1>1. RowsExist' /\ CreatedOnce'
  BY DEF RowsExist, CreatedOnce
<1>2. FindingsHold'
  BY OverwrittenForGood DEF FindingsHold
<1>3. DispatchedNeverDead'
  <2> SUFFICES ASSUME NEW r \in Runs, NEW i \in Internal, outcome[r][i] = "dead_letter"
               PROVE  run'[r].state # "dispatched"
    BY DEF DispatchedNeverDead
  <2>1. run[r].state # "dispatched" /\ ~Fresh(r)
    BY DEF DispatchedNeverDead, Fresh, RowsExist
  <2> QED
    BY <2>1, OverwrittenForGood
<1> QED
  BY <1>1, <1>2, <1>3 DEF LoopRest

\* A commit settles the rows it holds by what was found of their runs.
LEMMA CommitBatchKeeps ==
    ASSUME LoopInv, NEW w \in Workers, CommitBatch(w)
    PROVE  LoopRest'
<1> USE AutomationAssumption DEF LoopInv
<1>1. UNCHANGED <<run, stored>>
  BY DEF CommitBatch, vars
<1>2. \A r \in Runs, i \in Steps : outcome'[r][i] =
         IF <<r, i>> \in Taken(w) THEN "delivered"
         ELSE IF <<r, i>> \in batch[w] THEN "dead_letter"
         ELSE outcome[r][i]
  BY DEF CommitBatch, Marked
<1>3. \A row \in batch[w] : /\ row = <<row[1], row[2]>>
                            /\ row[1] \in Runs /\ row[2] \in Internal
                            /\ outcome[row[1]][row[2]] = "queued"
  BY DEF LoopTypeOK, InternalRows, RowsHeldOnce
<1>4. \A v \in Workers : v # w => batch'[v] = batch[v] /\ found'[v] = found[v]
  BY DEF CommitBatch, Released, LoopTypeOK
<1>5. batch'[w] = {} /\ found'[w] = Unread
  BY DEF CommitBatch, Released, LoopTypeOK
<1>6. Taken(w) \subseteq batch[w]
  BY DEF Taken
<1>7. RowsExist'
  <2> SUFFICES ASSUME NEW r \in Runs, NEW i \in Steps
               PROVE  outcome'[r][i] = "absent" <=> stored[r][i] = 0
    BY <1>1 DEF RowsExist
  <2>1. <<r, i>> \in batch[w] => outcome[r][i] = "queued"
    BY DEF RowsHeldOnce
  <2> QED
    BY <1>2, <1>6, <2>1 DEF RowsExist
<1>8. RowsHeldOnce'
  <2>1. ASSUME NEW v \in Workers, v # w, NEW row \in batch[v]
        PROVE  outcome'[row[1]][row[2]] = "queued"
    <3>1. row = <<row[1], row[2]>> /\ row[1] \in Runs /\ row[2] \in Steps
          /\ outcome[row[1]][row[2]] = "queued" /\ row \notin batch[w]
      BY <2>1 DEF LoopTypeOK, InternalRows, RowsHeldOnce
    <3> QED
      BY <1>2, <1>6, <3>1
  <2> QED
    BY <1>4, <1>5, <2>1 DEF RowsHeldOnce
<1>9. FindingsHold'
  BY <1>1, <1>4, <1>5 DEF FindingsHold, Unread, InternalRows, Fresh
<1>10. CreatedOnce'
  <2> SUFFICES ASSUME NEW r \in Runs, NEW i \in Internal
               PROVE  created'[r][i] = IF outcome'[r][i] = "delivered" THEN 1 ELSE 0
    BY DEF CreatedOnce
  <2>1. created'[r][i] = IF <<r, i>> \in Taken(w) THEN created[r][i] + 1 ELSE created[r][i]
    BY DEF CommitBatch, Marked
  <2>2. created[r][i] = IF outcome[r][i] = "delivered" THEN 1 ELSE 0
    BY DEF CreatedOnce
  <2>3. <<r, i>> \in batch[w] => outcome[r][i] = "queued"
    BY DEF RowsHeldOnce
  <2> QED
    BY <1>2, <1>6, <2>1, <2>2, <2>3
<1>11. DispatchedNeverDead'
  <2> SUFFICES ASSUME NEW r \in Runs, NEW i \in Internal, outcome'[r][i] = "dead_letter"
               PROVE  run[r].state # "dispatched"
    BY <1>1 DEF DispatchedNeverDead
  <2>1. CASE <<r, i>> \in batch[w]
    <3>1. <<r, i>> \notin Taken(w)
      BY <1>2
    <3>2. found[w][<<r, i>>] = "other"
      BY <2>1, <3>1 DEF Taken, CommitBatch, LoopTypeOK, InternalRows, Findings
    <3> QED
      BY <3>2 DEF FindingsHold
  <2>2. CASE <<r, i>> \notin batch[w]
    BY <1>2, <1>6, <2>2 DEF DispatchedNeverDead
  <2> QED
    BY <2>1, <2>2
<1> QED
  BY <1>7, <1>8, <1>9, <1>10, <1>11 DEF LoopRest

\* The connector worker settles rows that internal workers never hold.
LEMMA ConnectorKeeps ==
    ASSUME LoopInv, NEW r \in Runs, NEW i \in Steps, Connector(r, i)
    PROVE  LoopRest'
<1> USE AutomationAssumption DEF LoopInv
<1>1. UNCHANGED <<run, stored, created, batch, found>>
  BY DEF Connector, vars, workerVars
<1>2. PICK settled \in {"delivered", "dead_letter"} :
         outcome' = [outcome EXCEPT ![r][i] = settled]
  BY DEF Connector
<1>3. i \notin Internal /\ outcome[r][i] = "queued"
  BY DEF Connector
<1>4. \A s \in Runs, j \in Internal : outcome'[s][j] = outcome[s][j]
  BY <1>2, <1>3 DEF LoopTypeOK
<1>5. RowsExist'
  BY <1>1, <1>2, <1>3 DEF RowsExist, LoopTypeOK
<1>6. RowsHeldOnce'
  <2>1. \A w \in Workers : \A row \in batch[w] : row[1] \in Runs /\ row[2] \in Internal
    BY DEF LoopTypeOK, InternalRows
  <2> QED
    BY <1>1, <1>4, <2>1 DEF RowsHeldOnce
<1> QED
  BY <1>1, <1>4, <1>5, <1>6 DEF LoopRest, FindingsHold, CreatedOnce, DispatchedNeverDead, Fresh

\* A run that is found in another state has rows in the outbox and was overwritten.
LEMMA LoadRunKeeps ==
    ASSUME LoopInv, NEW w \in Workers, NEW row \in InternalRows, LoadRun(w, row)
    PROVE  LoopRest'
<1> USE AutomationAssumption DEF LoopInv
<1>1. UNCHANGED <<run, stored, outcome, created, batch>>
  BY DEF LoadRun, vars, outboxVars
<1>2. row = <<row[1], row[2]>> /\ row[1] \in Runs /\ row[2] \in Internal
  BY DEF InternalRows
<1>3. ~Fresh(row[1])
  BY <1>2 DEF LoadRun, RowsHeldOnce, RowsExist, Fresh
<1>4. FindingsHold'
  BY <1>1, <1>2, <1>3 DEF FindingsHold, LoadRun, LoopTypeOK, InternalRows, Fresh
<1> QED
  BY <1>1, <1>4 DEF LoopRest, RowsExist, RowsHeldOnce, CreatedOnce, DispatchedNeverDead

\* A transaction that is lost leaves its rows as they were.
LEMMA AbortBatchKeeps ==
    ASSUME LoopInv, NEW w \in Workers, AbortBatch(w)
    PROVE  LoopRest'
<1> USE AutomationAssumption DEF LoopInv
<1>1. UNCHANGED <<run, stored, outcome, created>>
  BY DEF AbortBatch, vars, outboxVars
<1>2. \A v \in Workers : /\ batch'[v] = IF v = w THEN {} ELSE batch[v]
                         /\ found'[v] = IF v = w THEN Unread ELSE found[v]
  BY DEF AbortBatch, Released, LoopTypeOK
<1>3. RowsHeldOnce'
  BY <1>1, <1>2 DEF RowsHeldOnce
<1>4. FindingsHold'
  BY <1>1, <1>2 DEF FindingsHold, Unread, InternalRows, Fresh
<1> QED
  BY <1>1, <1>3, <1>4 DEF LoopRest, RowsExist, CreatedOnce, DispatchedNeverDead

\* LoopInv is inductive: what a worker found of a run stays true until it commits.
LEMMA LoopInvStep == LoopInv /\ [LoopNext]_loopVars => LoopInv'
<1> SUFFICES ASSUME LoopInv, [LoopNext]_loopVars
             PROVE  LoopInv'
  OBVIOUS
<1>1. [Next]_vars /\ RunsInv' /\ TypeOK' /\ LoopTypeOK'
  BY LoopStepIsRunStep, RunsInvStep, LoopTypeStep DEF LoopInv, LoopTypeOK
<1>2. ASSUME NEW k \in Keys, Dispatch(k)
      PROVE  LoopRest'
  BY <1>1, <1>2, DispatchKeeps
<1>3. ASSUME UNCHANGED <<stored, outcome, created, batch, found>>
      PROVE  LoopRest'
  <2>1. RowsHeldOnce'
    BY <1>3 DEF LoopInv, RowsHeldOnce
  <2> QED
    BY <1>1, <1>3, <2>1, RowsUntouched
<1>4. ASSUME NEW k \in Keys, Control(k)
      PROVE  LoopRest'
  BY <1>3, <1>4 DEF Control, Read, propose_run, approve_run, reject_run, Rollback, outboxVars,
                    workerVars
<1>5. ASSUME NEW k \in Keys, NEW r \in Runs, NEW i \in Steps, Replay(k, r, i)
      PROVE  LoopRest'
  <2>1. stored[r][i] # 0
    BY <1>5 DEF Replay, Replayable, LoopInv, RowsExist
  <2> QED
    BY <1>3, <1>5, <2>1 DEF Replay, workerVars
<1>6. ASSUME NEW r \in Runs, NEW i \in Steps, Connector(r, i)
      PROVE  LoopRest'
  BY <1>6, ConnectorKeeps
<1>7. ASSUME NEW w \in Workers, ClaimRows(w)
      PROVE  LoopRest'
  <2>1. PICK S \in SUBSET Queued : batch' = [batch EXCEPT ![w] = S]
    BY <1>7 DEF ClaimRows
  <2>2. UNCHANGED <<stored, outcome, created, found>>
    BY <1>7 DEF ClaimRows, vars, outboxVars
  <2>3. RowsHeldOnce'
    BY <2>1, <2>2 DEF LoopInv, LoopTypeOK, RowsHeldOnce, Queued
  <2> QED
    BY <1>1, <2>2, <2>3, RowsUntouched
<1>8. ASSUME NEW w \in Workers, NEW row \in InternalRows, LoadRun(w, row)
      PROVE  LoopRest'
  BY <1>8, LoadRunKeeps
<1>9. ASSUME NEW w \in Workers, CommitBatch(w)
      PROVE  LoopRest'
  BY <1>9, CommitBatchKeeps
<1>10. ASSUME NEW w \in Workers, AbortBatch(w)
       PROVE  LoopRest'
  BY <1>10, AbortBatchKeeps
<1>11. ASSUME UNCHANGED loopVars
       PROVE  LoopRest'
  BY <1>3, <1>11 DEF loopVars, vars, outboxVars, workerVars
<1>12. LoopRest'
  BY <1>2, <1>4, <1>5, <1>6, <1>7, <1>8, <1>9, <1>10, <1>11 DEF LoopNext
<1> QED
  BY <1>1, <1>12 DEF LoopInv, LoopRest

-----------------------------------------------------------------------------
(* The theorems. *)

\* The conjunction LoopInv holds of the loop for any number of keys and workers.
THEOREM LoopInvariant == LoopSpec => []LoopInv
<1>1. LoopInit => LoopInv
  <2> SUFFICES ASSUME LoopInit
               PROVE  LoopInv
    OBVIOUS
  <2>1. RunsInv /\ TypeOK
    BY DEF LoopInit, Init, RunsInv, TypeOK, Absent, RunRows, States, ApprovedFirst,
           DispatchedWhole, DispatchRecorded, Fresh, Asked
  <2>2. LoopTypeOK
    BY <2>1, AutomationAssumption DEF LoopInit, LoopTypeOK, RowStates, Unread, Findings
  <2>3. LoopRest
    BY AutomationAssumption
       DEF LoopInit, Init, LoopRest, RowsExist, RowsHeldOnce, FindingsHold, Unread, InternalRows,
           CreatedOnce, DispatchedNeverDead
  <2> QED
    BY <2>1, <2>2, <2>3 DEF LoopInv, LoopRest
<1> QED
  BY <1>1, LoopInvStep, PTL DEF LoopSpec

\* Runs, rows and the transactions of workers keep their types.
THEOREM LoopTypeCorrect == LoopSpec => []LoopTypeOK
<1>1. LoopInv => LoopTypeOK
  BY DEF LoopInv
<1> QED
  BY <1>1, LoopInvariant, PTL

\* The control plane's promises survive the workers and replays beside it: whatever
\* the loop does to runs is what AutomationRuns does.
THEOREM LoopImplementsRuns == LoopSpec => Spec
<1>1. LoopInit => Init
  BY DEF LoopInit
<1> QED
  BY <1>1, LoopStepIsRunStep, LoopInvariant, PTL DEF LoopSpec, Spec

\* internal_automation.py:23-28: a case or report is created with the mark that says
\* so, once, however many workers share the outbox and lose transactions.
THEOREM NothingCreatedTwice == LoopSpec => []CreatedOnce
<1>1. LoopInv => CreatedOnce
  BY DEF LoopInv
<1> QED
  BY <1>1, LoopInvariant, PTL

\* internal_automation.py:16-17: only runs that were overwritten after their dispatch
\* lose internal steps to dead letters.
THEOREM NoDeadLetterOfDispatched == LoopSpec => []DispatchedNeverDead
<1>1. LoopInv => DispatchedNeverDead
  BY DEF LoopInv
<1> QED
  BY <1>1, LoopInvariant, PTL

\* No step takes effect, inside or outside, without an approval of its run.
THEOREM NoEffectUnapproved == LoopSpec => []EffectsApproved
<1>1. LoopInv => EffectsApproved
  <2> SUFFICES ASSUME LoopInv, NEW r \in Runs, NEW i \in Steps, outcome[r][i] = "delivered"
               PROVE  run[r].approvals # {} /\ run[r].dispatchedAt
    BY DEF EffectsApproved
  <2>1. ~Fresh(r)
    BY DEF LoopInv, RowsExist, Fresh
  <2> QED
    BY <2>1 DEF LoopInv, RunsInv, ApprovedFirst, DispatchRecorded
<1> QED
  BY <1>1, LoopInvariant, PTL
=============================================================================
