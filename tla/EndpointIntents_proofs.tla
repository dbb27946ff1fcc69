----------------------- MODULE EndpointIntents_proofs -----------------------
(***************************************************************************)
(* What approvals, commands and deliveries of intents guarantee for every  *)
(* number of keys, intents and sweepers.                                   *)
(***************************************************************************)
EXTENDS EndpointIntents, FiniteSetTheorems, TLAPS

\* validate_intent answers with one of the four decisions.
LEMMA DecisionType ==
    ASSUME NEW i \in Intents, NEW S
    PROVE  validate_intent(i, S) \in Decisions
BY DEF validate_intent, Decisions

\* A decision that approves has counted two keys, and the requester is neither.
LEMMA ApprovingDecision ==
    ASSUME TypeOK, NEW i \in Intents, NEW k \in Keys, k \notin approvals[i],
           validate_intent(i, approvals[i] \cup {k}) = "approved"
    PROVE  /\ k # requester[i]
           /\ requester[i] \notin approvals[i]
           /\ \E a \in approvals[i] : a # k
<1>1. requester[i] \notin approvals[i] \cup {k} /\ ~(Cardinality(approvals[i] \cup {k}) < 2)
  BY DEF validate_intent, TypeOK
<1>2. approvals[i] # {}
  <2>1. Cardinality({k}) = 1
    BY FS_Singleton
  <2>2. approvals[i] = {} => approvals[i] \cup {k} = {k}
    OBVIOUS
  <2> QED
    BY <1>1, <2>1, <2>2
<1> QED
  BY <1>1, <1>2

-----------------------------------------------------------------------------

\* Every row, request and sweep keeps its type.
THEOREM IntentsTypeCorrect == Spec => []TypeOK
<1>1. Init => TypeOK
  BY IntentsAssumption
     DEF Init, TypeOK, IntentStates, Decisions, CommandStates, Sweeps, Idle
<1>2. TypeOK /\ [Next]_vars => TypeOK'
  <2> SUFFICES ASSUME TypeOK, [Next]_vars
               PROVE  TypeOK'
    OBVIOUS
  <2> USE DEF TypeOK
  <2>1. ASSUME NEW k \in Keys, NEW i \in Intents, NEW late \in BOOLEAN, create_intent(k, i, late)
        PROVE  TypeOK'
    BY <2>1 DEF create_intent, IntentStates, Decisions
  <2>2. ASSUME NEW k \in Keys, NEW i \in Intents, BeginApprove(k, i)
        PROVE  TypeOK'
    BY <2>2, DecisionType DEF BeginApprove, Requests
  <2>3. ASSUME NEW k \in Keys, NEW i \in Intents, cancel_intent(k, i)
        PROVE  TypeOK'
    BY <2>3 DEF cancel_intent, IntentStates
  <2>4. ASSUME NEW k \in Keys, NEW i \in Intents, BeginPublish(k, i)
        PROVE  TypeOK'
    BY <2>4 DEF BeginPublish, Requests
  <2>5. ASSUME NEW k \in Keys, EndApprove(k)
        PROVE  TypeOK'
    <3>1. request[k].intent \in Intents /\ request[k].decision \in Decisions
      BY <2>5 DEF EndApprove, Requests, Nothing
    <3>2. state' \in [Intents -> IntentStates] /\ approvals' \in [Intents -> SUBSET Keys]
      BY <2>5, <3>1 DEF EndApprove, IntentStates
    <3> QED
      BY <2>5, <3>2 DEF EndApprove
  <2>6. ASSUME NEW k \in Keys, EndPublish(k)
        PROVE  TypeOK'
    BY <2>6 DEF EndPublish, CommandStates
  <2>7. ASSUME NEW k \in Keys, Rollback(k)
        PROVE  TypeOK'
    BY <2>7 DEF Rollback
  <2>8. ASSUME NEW i \in Intents, poll_commands(i) \/ LoseAck(i) \/ Deadline(i)
        PROVE  TypeOK'
    BY <2>8 DEF poll_commands, LoseAck, Deadline
  <2>9. ASSUME NEW i \in Intents, NEW result \in AckStates, BeginAck(i, result)
        PROVE  TypeOK'
    BY <2>9 DEF BeginAck
  <2>10. ASSUME NEW i \in Intents, EndAck(i)
         PROVE  TypeOK'
    BY <2>10 DEF EndAck, CommandStates, AckStates
  <2>11. ASSUME NEW s \in Sweepers, BeginSweep(s)
         PROVE  TypeOK'
    BY <2>11 DEF BeginSweep, Overdue, Sweeps
  <2>12. ASSUME NEW s \in Sweepers, EndSweep(s)
         PROVE  TypeOK'
    BY <2>12 DEF EndSweep, Sweeps, Idle, IntentStates, Decisions, CommandStates
  <2>13. ASSUME NEW s \in Sweepers, AbortSweep(s)
         PROVE  TypeOK'
    BY <2>13, IntentsAssumption DEF AbortSweep, Sweeps, Idle
  <2>14. CASE UNCHANGED vars
    BY <2>14 DEF vars
  <2> QED
    BY <2>1, <2>2, <2>3, <2>4, <2>5, <2>6, <2>7, <2>8, <2>9, <2>10, <2>11, <2>12, <2>13, <2>14
       DEF Next, End
<1> QED
  BY <1>1, <1>2, PTL DEF Spec

-----------------------------------------------------------------------------
(* The inductive invariant, one action at a time. *)

\* An intent that does not exist has no approval, no command and no request.
LEMMA AbsentFacts ==
    ASSUME IntentsInv, NEW i \in Intents, state[i] = "absent"
    PROVE  approvals[i] = {} /\ command[i] = "none" /\ ~Locked(i)
<1>1. approvals[i] = {}
  BY DEF IntentsInv, RecordsExist
<1>2. ~TwoApprovers(i)
  BY <1>1 DEF TwoApprovers
<1> QED
  BY <1>1, <1>2 DEF IntentsInv, CommandAuthorised, DecisionsHold, Locked

\* A new intent has neither approvals nor a command.
LEMMA CreateInv ==
    ASSUME IntentsInv, TypeOK', NEW k \in Keys, NEW i \in Intents, NEW late \in BOOLEAN,
           create_intent(k, i, late)
    PROVE  IntentsInv'
<1>1. /\ state[i] = "absent"
      /\ state'[i] \in {"expired", "pending"}
      /\ \A j \in Intents : j # i => state'[j] = state[j] /\ requester'[j] = requester[j]
      /\ UNCHANGED <<approvals, delivery, command, request, acking, sweep>>
  BY DEF create_intent, IntentsInv, TypeOK
<1>2. approvals[i] = {} /\ command[i] = "none" /\ ~Locked(i)
  BY <1>1, AbsentFacts
<1>3. \A j \in Intents : j # i => (TwoApprovers(j)' <=> TwoApprovers(j))
  BY <1>1 DEF TwoApprovers
<1>4. ApprovalQuorum' /\ CommandAuthorised' /\ DeliveryAgrees'
  BY <1>1, <1>2, <1>3 DEF IntentsInv, ApprovalQuorum, CommandAuthorised, DeliveryAgrees
<1>5. OneHolder' /\ RecordsExist'
  BY <1>1, <1>2 DEF IntentsInv, OneHolder, RecordsExist, TypeOK, Sweeps
<1>6. DecisionsHold'
  <2> SUFFICES ASSUME NEW m \in Keys, request[m] # Nothing, NEW j, j = request[m].intent
               PROVE  /\ state'[j] # "absent"
                      /\ request[m].op = "approve" /\ request[m].decision = "approved" =>
                            /\ m # requester'[j]
                            /\ requester'[j] \notin approvals[j]
                            /\ \E a \in approvals[j] : a # m
                      /\ request[m].op = "publish" => TwoApprovers(j)' /\ j \in Publishable
    BY <1>1 DEF DecisionsHold, TwoApprovers
  <2>1. j \in Intents /\ j # i
    BY <1>2 DEF Locked, IntentsInv, TypeOK, Requests
  <2> QED
    BY <2>1, <1>1, <1>3 DEF IntentsInv, DecisionsHold
<1> QED
  BY <1>4, <1>5, <1>6 DEF IntentsInv

\* Steps that write neither an intent, its approvals, nor a command, and take no
\* row, leave everything but the sweep's and the agent's own notes alone.
LEMMA QuietInv ==
    ASSUME IntentsInv, TypeOK', RecordsExist',
           UNCHANGED <<state, requester, approvals, delivery, command, request>>
    PROVE  IntentsInv'
BY DEF IntentsInv, ApprovalQuorum, CommandAuthorised, DeliveryAgrees, OneHolder, DecisionsHold,
       TwoApprovers

\* A key that begins a request takes a free row and has a reason for what it is
\* about to write.
LEMMA BeginInv ==
    ASSUME IntentsInv, TypeOK', NEW k \in Keys, NEW i \in Intents,
           BeginApprove(k, i) \/ BeginPublish(k, i)
    PROVE  IntentsInv'
<1>1. /\ ~Locked(i) /\ state[i] # "absent"
      /\ UNCHANGED <<state, requester, approvals, delivery, command, acking, sweep>>
      /\ \A m \in Keys : m # k => request'[m] = request[m]
      /\ request'[k].intent = i
  BY DEF BeginApprove, BeginPublish, MayPublish, IntentsInv, TypeOK
<1>2. OneHolder'
  BY <1>1 DEF IntentsInv, OneHolder, Locked
<1>3. DecisionsHold'
  <2> SUFFICES ASSUME NEW m \in Keys, request'[m] # Nothing, NEW j, j = request'[m].intent
               PROVE  /\ state[j] # "absent"
                      /\ request'[m].op = "approve" /\ request'[m].decision = "approved" =>
                            /\ m # requester[j]
                            /\ requester[j] \notin approvals[j]
                            /\ \E a \in approvals[j] : a # m
                      /\ request'[m].op = "publish" => TwoApprovers(j) /\ j \in Publishable
    BY <1>1 DEF DecisionsHold, TwoApprovers
  <2>1. CASE m # k
    BY <2>1, <1>1 DEF IntentsInv, DecisionsHold
  <2>2. CASE m = k /\ BeginApprove(k, i)
    <3>1. /\ request'[k].op = "approve"
          /\ request'[k].decision = validate_intent(i, approvals[i] \cup {k})
          /\ k \notin approvals[i]
      BY <2>2 DEF BeginApprove, IntentsInv, TypeOK
    <3> QED
      BY <2>2, <3>1, <1>1, ApprovingDecision DEF IntentsInv
  <2>3. CASE m = k /\ BeginPublish(k, i)
    <3>1. request'[k].op = "publish" /\ state[i] = "approved" /\ i \in Publishable
      BY <2>3 DEF BeginPublish, MayPublish, IntentsInv, TypeOK
    <3> QED
      BY <2>3, <3>1, <1>1 DEF IntentsInv, ApprovalQuorum
  <2> QED
    BY <2>1, <2>2, <2>3
<1>4. ApprovalQuorum' /\ CommandAuthorised' /\ DeliveryAgrees' /\ RecordsExist'
  BY <1>1 DEF IntentsInv, ApprovalQuorum, CommandAuthorised, DeliveryAgrees, RecordsExist,
              TwoApprovers
<1> QED
  BY <1>2, <1>3, <1>4 DEF IntentsInv

\* A request that ends frees its row; no other request held it.
LEMMA FreedRow ==
    ASSUME IntentsInv, NEW k \in Keys, request[k] # Nothing,
           request' = [request EXCEPT ![k] = Nothing]
    PROVE  /\ request[k].intent \in Intents
           /\ \A m \in Keys : request'[m] # Nothing =>
                 m # k /\ request'[m] = request[m] /\ request[m].intent # request[k].intent
           /\ OneHolder'
<1>1. \A m \in Keys : request'[m] # Nothing => m # k /\ request'[m] = request[m]
  BY DEF IntentsInv, TypeOK
<1> QED
  BY <1>1 DEF IntentsInv, OneHolder, TypeOK, Requests

\* The approval that completes the quorum was decided on while the row was held.
LEMMA EndApproveInv ==
    ASSUME IntentsInv, TypeOK', NEW k \in Keys, EndApprove(k)
    PROVE  IntentsInv'
<1> DEFINE i == request[k].intent
<1>1. request[k] # Nothing /\ request' = [request EXCEPT ![k] = Nothing]
  BY DEF EndApprove, Nothing
<1>2. i \in Intents
  BY <1>1, FreedRow
<1>3. /\ state'[i] = request[k].decision /\ request[k].decision \in Decisions
      /\ approvals'[i] = approvals[i] \cup {k}
      /\ \A j \in Intents : j # i => state'[j] = state[j] /\ approvals'[j] = approvals[j]
      /\ UNCHANGED <<requester, delivery, command, acking, sweep>>
  BY <1>1, <1>2 DEF EndApprove, IntentsInv, TypeOK, Requests, Nothing
<1>4. request[k].decision = "approved" =>
         /\ k # requester[i] /\ requester[i] \notin approvals[i]
         /\ \E a \in approvals[i] : a # k
  BY <1>1 DEF EndApprove, IntentsInv, DecisionsHold
<1>5. \A m \in Keys : request'[m] # Nothing =>
         m # k /\ request'[m] = request[m] /\ request[m].intent # i
  BY <1>1, FreedRow
<1> HIDE DEF i
<1>6. OneHolder'
  BY <1>1, FreedRow
<1>7. \A j \in Intents : TwoApprovers(j) => TwoApprovers(j)'
  BY <1>3 DEF TwoApprovers
<1>8. ApprovalQuorum'
  <2>1. request[k].decision = "approved" =>
           /\ \E a, b \in approvals'[i] \ {requester'[i]} : a # b
           /\ requester'[i] \notin approvals'[i]
    BY <1>3, <1>4
  <2> QED
    BY <2>1, <1>3, <1>7 DEF IntentsInv, ApprovalQuorum, TwoApprovers
<1>9. CommandAuthorised' /\ DeliveryAgrees'
  BY <1>3, <1>7 DEF IntentsInv, CommandAuthorised, DeliveryAgrees
<1>10. RecordsExist'
  BY <1>2, <1>3 DEF IntentsInv, RecordsExist, Decisions, TypeOK, Sweeps
<1>11. DecisionsHold'
  <2> SUFFICES ASSUME NEW m \in Keys, request'[m] # Nothing, NEW j, j = request'[m].intent
               PROVE  /\ state'[j] # "absent"
                      /\ request'[m].op = "approve" /\ request'[m].decision = "approved" =>
                            /\ m # requester'[j]
                            /\ requester'[j] \notin approvals'[j]
                            /\ \E a \in approvals'[j] : a # m
                      /\ request'[m].op = "publish" => TwoApprovers(j)' /\ j \in Publishable
    BY DEF DecisionsHold, TwoApprovers
  <2>1. request'[m] = request[m] /\ j # i /\ j \in Intents
    BY <1>5 DEF IntentsInv, TypeOK, Requests
  <2> QED
    BY <2>1, <1>3, <1>7 DEF IntentsInv, DecisionsHold
<1> QED
  BY <1>6, <1>8, <1>9, <1>10, <1>11 DEF IntentsInv

\* The command that is published was authorised while the row was held.
LEMMA EndPublishInv ==
    ASSUME IntentsInv, TypeOK', NEW k \in Keys, EndPublish(k)
    PROVE  IntentsInv'
<1> DEFINE i == request[k].intent
<1>1. request[k] # Nothing /\ request' = [request EXCEPT ![k] = Nothing]
  BY DEF EndPublish, Nothing
<1>2. i \in Intents
  BY <1>1, FreedRow
<1>3. TwoApprovers(i) /\ i \in Publishable
  BY <1>1 DEF EndPublish, IntentsInv, DecisionsHold
<1>4. \A m \in Keys : request'[m] # Nothing => request'[m] = request[m]
  BY <1>1, FreedRow
<1>5. /\ command'[i] = "available" /\ delivery'[i] = "available"
      /\ \A j \in Intents : j # i => command'[j] = command[j] /\ delivery'[j] = delivery[j]
      /\ UNCHANGED <<state, requester, approvals, acking, sweep>>
  BY <1>2 DEF EndPublish, IntentsInv, TypeOK
<1> HIDE DEF i
<1>6. OneHolder'
  BY <1>1, FreedRow
<1>7. ApprovalQuorum' /\ CommandAuthorised' /\ DeliveryAgrees'
  BY <1>3, <1>5 DEF IntentsInv, ApprovalQuorum, CommandAuthorised, DeliveryAgrees, TwoApprovers
<1>8. DecisionsHold'
  BY <1>4, <1>5 DEF IntentsInv, DecisionsHold, TwoApprovers
<1>9. RecordsExist'
  BY <1>5 DEF IntentsInv, RecordsExist, TypeOK, Sweeps
<1> QED
  BY <1>6, <1>7, <1>8, <1>9 DEF IntentsInv

\* A request that fails only frees its row.
LEMMA RollbackInv ==
    ASSUME IntentsInv, TypeOK', NEW k \in Keys, Rollback(k)
    PROVE  IntentsInv'
<1>1. /\ request[k] # Nothing /\ request' = [request EXCEPT ![k] = Nothing]
      /\ UNCHANGED <<state, requester, approvals, delivery, command, acking, sweep>>
  BY DEF Rollback
<1>2. OneHolder' /\ \A m \in Keys : request'[m] # Nothing => request'[m] = request[m]
  BY <1>1, FreedRow
<1>3. DecisionsHold'
  BY <1>1, <1>2 DEF IntentsInv, DecisionsHold, TwoApprovers
<1>4. ApprovalQuorum' /\ CommandAuthorised' /\ DeliveryAgrees' /\ RecordsExist'
  BY <1>1 DEF IntentsInv, ApprovalQuorum, CommandAuthorised, DeliveryAgrees, RecordsExist,
              TwoApprovers
<1> QED
  BY <1>2, <1>3, <1>4 DEF IntentsInv

\* Cancelling writes a state no command depends on.
LEMMA CancelInv ==
    ASSUME IntentsInv, TypeOK', NEW k \in Keys, NEW i \in Intents, cancel_intent(k, i)
    PROVE  IntentsInv'
<1>1. /\ state[i] # "absent" /\ state'[i] = "cancelled"
      /\ \A j \in Intents : j # i => state'[j] = state[j]
      /\ UNCHANGED <<requester, approvals, delivery, command, request, acking, sweep>>
  BY DEF cancel_intent, IntentsInv, TypeOK
<1>2. ApprovalQuorum' /\ CommandAuthorised' /\ DeliveryAgrees' /\ OneHolder'
  BY <1>1 DEF IntentsInv, ApprovalQuorum, CommandAuthorised, DeliveryAgrees, OneHolder,
              TwoApprovers
<1>3. DecisionsHold'
  BY <1>1 DEF IntentsInv, DecisionsHold, TwoApprovers, TypeOK, Requests
<1>4. RecordsExist'
  BY <1>1 DEF IntentsInv, RecordsExist, TypeOK, Sweeps
<1> QED
  BY <1>2, <1>3, <1>4 DEF IntentsInv

\* The ack tells the command and its intent the same result.
LEMMA EndAckInv ==
    ASSUME IntentsInv, TypeOK', NEW i \in Intents, EndAck(i)
    PROVE  IntentsInv'
<1>1. /\ command[i] # "none" /\ command'[i] # "none" /\ delivery'[i] = command'[i]
      /\ \A j \in Intents : j # i => /\ command'[j] = command[j] /\ delivery'[j] = delivery[j]
                                    /\ acking'[j] = acking[j]
      /\ acking'[i] = "none"
      /\ UNCHANGED <<state, requester, approvals, request, sweep>>
  BY DEF EndAck, IntentsInv, RecordsExist, TypeOK
<1>2. ApprovalQuorum' /\ CommandAuthorised' /\ DeliveryAgrees' /\ OneHolder' /\ DecisionsHold'
  BY <1>1 DEF IntentsInv, ApprovalQuorum, CommandAuthorised, DeliveryAgrees, OneHolder,
              DecisionsHold, TwoApprovers
<1>3. RecordsExist'
  BY <1>1 DEF IntentsInv, RecordsExist, TypeOK, Sweeps
<1> QED
  BY <1>2, <1>3 DEF IntentsInv

\* The sweep expires a command and its intent's delivery together.
LEMMA EndSweepInv ==
    ASSUME IntentsInv, TypeOK', NEW s \in Sweepers, EndSweep(s)
    PROVE  IntentsInv'
<1>1. UNCHANGED <<requester, approvals, request, acking>>
  BY DEF EndSweep
<1>2. \A i \in Intents : /\ state'[i] \in {state[i], "expired"}
                         /\ state[i] = "absent" <=> state'[i] = "absent"
                         /\ command[i] = "none" <=> command'[i] = "none"
  BY DEF EndSweep, IntentsInv, RecordsExist
<1>3. \A i \in Intents : \/ command'[i] = command[i] /\ delivery'[i] = delivery[i]
                         \/ command'[i] = "expired" /\ delivery'[i] = "expired"
  BY DEF EndSweep
<1>4. \A t \in Sweepers : sweep'[t] = sweep[t] \/ sweep'[t] = Idle
  BY DEF EndSweep, IntentsInv, TypeOK
<1>5. ApprovalQuorum' /\ CommandAuthorised' /\ OneHolder'
  BY <1>1, <1>2 DEF IntentsInv, ApprovalQuorum, CommandAuthorised, OneHolder, TwoApprovers
<1>6. DeliveryAgrees'
  BY <1>3 DEF IntentsInv, DeliveryAgrees
<1>7. DecisionsHold'
  BY <1>1, <1>2 DEF IntentsInv, DecisionsHold, TwoApprovers, TypeOK, Requests
<1>8. RecordsExist'
  <2>1. \A t \in Sweepers : /\ sweep'[t].intents \subseteq Intents
                            /\ sweep'[t].commands \subseteq Intents
    BY DEF TypeOK, Sweeps
  <2>2. \A t \in Sweepers : /\ sweep'[t].intents \subseteq sweep[t].intents
                            /\ sweep'[t].commands \subseteq sweep[t].commands
    BY <1>4 DEF Idle
  <2> QED
    BY <1>1, <1>2, <2>1, <2>2 DEF IntentsInv, RecordsExist
<1> QED
  BY <1>5, <1>6, <1>7, <1>8 DEF IntentsInv

\* The named parts of IntentsInv hold however requests, acks, sweeps and
\* deadlines interleave.
THEOREM IntentsInvariant == Spec => []IntentsInv
<1>1. Init => IntentsInv
  <2> SUFFICES ASSUME Init
               PROVE  IntentsInv
    OBVIOUS
  <2>1. TypeOK
    BY IntentsAssumption
       DEF Init, TypeOK, IntentStates, Decisions, CommandStates, Sweeps, Idle
  <2>2. ApprovalQuorum /\ CommandAuthorised /\ DeliveryAgrees
    BY DEF Init, ApprovalQuorum, CommandAuthorised, DeliveryAgrees
  <2>3. OneHolder /\ DecisionsHold /\ RecordsExist
    BY DEF Init, OneHolder, DecisionsHold, RecordsExist, Idle
  <2> QED
    BY <2>1, <2>2, <2>3 DEF IntentsInv
<1>2. IntentsInv /\ [Next]_vars /\ TypeOK' => IntentsInv'
  <2> SUFFICES ASSUME IntentsInv, [Next]_vars, TypeOK'
               PROVE  IntentsInv'
    OBVIOUS
  <2>1. ASSUME NEW i \in Intents, NEW result \in AckStates, BeginAck(i, result)
        PROVE  IntentsInv'
    <3>1. RecordsExist'
      BY <2>1 DEF BeginAck, IntentsInv, RecordsExist, TypeOK
    <3> QED
      BY <2>1, <3>1, QuietInv DEF BeginAck
  <2>2. ASSUME NEW i \in Intents, poll_commands(i) \/ LoseAck(i) \/ Deadline(i)
        PROVE  IntentsInv'
    <3>1. RecordsExist'
      BY <2>2 DEF poll_commands, LoseAck, Deadline, IntentsInv, RecordsExist, TypeOK
    <3> QED
      BY <2>2, <3>1, QuietInv DEF poll_commands, LoseAck, Deadline
  <2>3. ASSUME NEW s \in Sweepers, BeginSweep(s) \/ AbortSweep(s)
        PROVE  IntentsInv'
    <3>1. \A t \in Sweepers : sweep'[t] \in {sweep[t], Overdue, Idle}
      BY <2>3 DEF BeginSweep, AbortSweep, IntentsInv, TypeOK
    <3>2. RecordsExist'
      BY <2>3, <3>1 DEF BeginSweep, AbortSweep, Overdue, Idle, IntentsInv, RecordsExist
    <3> QED
      BY <2>3, <3>2, QuietInv DEF BeginSweep, AbortSweep
  <2>4. CASE UNCHANGED vars
    BY <2>4, QuietInv DEF vars, IntentsInv, RecordsExist
  <2> QED
    BY <2>1, <2>2, <2>3, <2>4, CreateInv, BeginInv, EndApproveInv, EndPublishInv, RollbackInv,
       CancelInv, EndAckInv, EndSweepInv
       DEF Next, End
<1> QED
  BY <1>1, <1>2, IntentsTypeCorrect, PTL DEF Spec

\* Two approvers other than the requester stand behind every approved intent
\* (validate_intent, services/endpoint_intents.py:14-20).
THEOREM QuorumApproves == Spec => []ApprovalQuorum
<1>1. IntentsInv => ApprovalQuorum
  BY DEF IntentsInv
<1> QED
  BY <1>1, IntentsInvariant, PTL

\* No command without two approvers and a publishable type
\* (publish_command, platform.py:362-414).
THEOREM CommandsAuthorised == Spec => []CommandAuthorised
<1>1. IntentsInv => CommandAuthorised
  BY DEF IntentsInv
<1> QED
  BY <1>1, IntentsInvariant, PTL

\* Intent and command tell the same delivery state (acknowledge_command and the
\* sweep write both in one transaction).
THEOREM DeliveriesAgree == Spec => []DeliveryAgrees
<1>1. IntentsInv => DeliveryAgrees
  BY DEF IntentsInv
<1> QED
  BY <1>1, IntentsInvariant, PTL

-----------------------------------------------------------------------------
(* Expiry audits: a sweeper that is about to write one has not written one. *)

\* Sweepers that are not about to expire an intent.
Done(i) == {s \in Sweepers : i \notin sweep[s].intents}

\* No request is about to make an intent pending.
NoneReopens(i) ==
    \A k \in Keys : request[k].op = "approve" /\ request[k].intent = i =>
        request[k].decision # "pending"

\* An audited intent is closed for good, so that each sweeper that still has it in hand
\* has read it before the first audit.
AuditInv(i) ==
    /\ expiries[i] > 0 =>
          elapsed[i] /\ state[i] \notin {"absent", "pending"} /\ NoneReopens(i)
    /\ \A s \in Sweepers : i \in sweep[s].intents => elapsed[i]
    /\ expiries[i] <= Cardinality(Done(i))

\* Sweepers are few enough to be counted, and one more is.
LEMMA DoneCounted ==
    ASSUME NEW i
    PROVE  /\ IsFiniteSet(Done(i)) /\ Cardinality(Done(i)) \in Nat
           /\ Cardinality(Done(i)) <= Cardinality(Sweepers)
<1>1. Done(i) \subseteq Sweepers /\ IsFiniteSet(Sweepers)
  BY IntentsAssumption DEF Done
<1> QED
  BY <1>1, FS_Subset, FS_CardinalityType

\* A count that sweepers have joined is no smaller.
LEMMA MoreDone ==
    ASSUME NEW i, Done(i) \subseteq Done(i)', Done(i)' \subseteq Sweepers, NEW n \in Nat,
           n <= Cardinality(Done(i))
    PROVE  n <= Cardinality(Done(i)')
<1>1. IsFiniteSet(Done(i)') /\ Cardinality(Done(i)') \in Nat
  BY IntentsAssumption, FS_Subset, FS_CardinalityType
<1>2. Cardinality(Done(i)) <= Cardinality(Done(i)')
  BY <1>1, FS_Subset
<1> QED
  BY <1>1, <1>2, DoneCounted

\* A step that sweeps nothing, and reopens no intent that is closed.
LEMMA UnsweptAudit ==
    ASSUME TypeOK, NEW i \in Intents, AuditInv(i), UNCHANGED <<expiries, sweep>>,
           elapsed[i] => elapsed'[i],
           state[i] \notin {"absent", "pending"} /\ NoneReopens(i) /\ elapsed[i] =>
               state'[i] \notin {"absent", "pending"} /\ NoneReopens(i)'
    PROVE  AuditInv(i)'
BY DEF AuditInv, Done

\* Requests on an intent that is closed leave it closed.
LEMMA RequestAudit ==
    ASSUME IntentsInv, NEW i \in Intents, AuditInv(i), NEW k \in Keys, NEW j \in Intents,
           \/ \E late \in BOOLEAN : create_intent(k, j, late)
           \/ BeginApprove(k, j) \/ cancel_intent(k, j) \/ BeginPublish(k, j) \/ End(k)
    PROVE  AuditInv(i)'
<1> USE DEF NoneReopens
<1>0. TypeOK
  BY DEF IntentsInv
<1>1. CASE \E late \in BOOLEAN : create_intent(k, j, late)
  <2>1. PICK late \in BOOLEAN : create_intent(k, j, late)
    BY <1>1
  <2>2. state[i] # "absent" => state'[i] = state[i] /\ elapsed'[i] = elapsed[i]
    BY <1>0, <2>1 DEF create_intent, TypeOK
  <2>3. state[i] = "absent" =>
            expiries'[i] = 0 /\ \A s \in Sweepers : i \notin sweep'[s].intents
    BY <1>0, <2>1 DEF create_intent, AuditInv, IntentsInv, RecordsExist, TypeOK
  <2>4. UNCHANGED <<expiries, sweep, request>>
    BY <2>1 DEF create_intent
  <2>5. CASE state[i] = "absent"
    BY <2>3, <2>4, <2>5, DoneCounted DEF AuditInv, Done
  <2>6. CASE state[i] # "absent"
    BY <1>0, <2>2, <2>4, <2>6, UnsweptAudit
  <2> QED
    BY <2>5, <2>6
<1>2. CASE BeginApprove(k, j)
  <2>1. /\ request' = [request EXCEPT ![k] = [op |-> "approve", intent |-> j,
                            decision |-> validate_intent(j, approvals[j] \cup {k})]]
        /\ UNCHANGED <<state, elapsed, expiries, sweep>>
    BY <1>2 DEF BeginApprove
  <2>2. elapsed[j] => validate_intent(j, approvals[j] \cup {k}) = "expired"
    BY DEF validate_intent
  <2> QED
    BY <1>0, <2>1, <2>2, UnsweptAudit DEF TypeOK
<1>3. CASE cancel_intent(k, j)
  <2>1. /\ state' = [state EXCEPT ![j] = "cancelled"]
        /\ UNCHANGED <<request, elapsed, expiries, sweep>>
    BY <1>3 DEF cancel_intent
  <2> QED
    BY <1>0, <2>1, UnsweptAudit DEF TypeOK
<1>4. CASE BeginPublish(k, j)
  <2>1. /\ request' = [request EXCEPT ![k] = [op |-> "publish", intent |-> j]]
        /\ UNCHANGED <<state, elapsed, expiries, sweep>>
    BY <1>4 DEF BeginPublish
  <2> QED
    BY <1>0, <2>1, UnsweptAudit DEF TypeOK
<1>5. CASE EndApprove(k)
  <2>1. /\ request[k].op = "approve"
        /\ state' = [state EXCEPT ![request[k].intent] = request[k].decision]
        /\ request' = [request EXCEPT ![k] = Nothing]
        /\ UNCHANGED <<elapsed, expiries, sweep>>
    BY <1>5 DEF EndApprove
  <2>2. request[k].decision \in Decisions
    BY <1>0, <2>1 DEF TypeOK, Requests, Nothing
  <2>3. \A m \in Keys : request'[m].op = "approve" => request'[m] = request[m]
    BY <1>0, <2>1 DEF TypeOK, Nothing
  <2> QED
    BY <1>0, <2>1, <2>2, <2>3, UnsweptAudit DEF TypeOK, Decisions
<1>6. CASE EndPublish(k) \/ Rollback(k)
  <2>1. /\ request' = [request EXCEPT ![k] = Nothing]
        /\ UNCHANGED <<state, elapsed, expiries, sweep>>
    BY <1>6 DEF EndPublish, Rollback
  <2>2. \A m \in Keys : request'[m].op = "approve" => request'[m] = request[m]
    BY <1>0, <2>1 DEF TypeOK, Nothing
  <2> QED
    BY <1>0, <2>1, <2>2, UnsweptAudit DEF TypeOK
<1> QED
  BY <1>1, <1>2, <1>3, <1>4, <1>5, <1>6 DEF End

\* A sweep reads only intents that no one has audited, and audits those it has read.
LEMMA SweepAudit ==
    ASSUME IntentsInv, NEW i \in Intents, AuditInv(i), NEW s \in Sweepers,
           BeginSweep(s) \/ EndSweep(s) \/ AbortSweep(s)
    PROVE  AuditInv(i)'
<1>1. /\ sweep \in [Sweepers -> Sweeps] /\ expiries[i] \in Nat
      /\ UNCHANGED <<elapsed, request>>
  BY DEF IntentsInv, TypeOK, BeginSweep, EndSweep, AbortSweep
<1>2. NoneReopens(i)' = NoneReopens(i)
  BY <1>1 DEF NoneReopens
<1>3. CASE BeginSweep(s)
  <2>1. /\ UNCHANGED <<state, expiries>>
        /\ sweep' = [sweep EXCEPT ![s] = Overdue]
        /\ i \in Overdue.intents => state[i] = "pending" /\ elapsed[i]
    BY <1>3 DEF BeginSweep, Overdue
  <2>2. CASE i \in Overdue.intents
    <3>1. expiries[i] = 0
      BY <1>1, <2>1, <2>2 DEF AuditInv
    <3>2. \A t \in Sweepers : i \in sweep'[t].intents => elapsed'[i]
      BY <1>1, <2>1, <2>2
    <3>3. 0 <= Cardinality(Done(i)')
      <4>1. Done(i)' \subseteq Sweepers
        BY DEF Done
      <4> QED
        BY <4>1, IntentsAssumption, FS_Subset, FS_CardinalityType
    <3> QED
      BY <1>1, <2>1, <3>1, <3>2, <3>3 DEF AuditInv
  <2>3. CASE i \notin Overdue.intents
    <3>1. Done(i) \subseteq Done(i)' /\ Done(i)' \subseteq Sweepers
      BY <1>1, <2>1, <2>3 DEF Done
    <3> QED
      BY <1>1, <1>2, <2>1, <2>3, <3>1, MoreDone DEF AuditInv
  <2> QED
    BY <2>2, <2>3
<1>4. CASE AbortSweep(s)
  <2>1. UNCHANGED <<state, expiries>> /\ sweep' = [sweep EXCEPT ![s] = Idle]
    BY <1>4 DEF AbortSweep
  <2>2. Done(i) \subseteq Done(i)' /\ Done(i)' \subseteq Sweepers
    BY <1>1, <2>1 DEF Done, Idle
  <2>3. \A t \in Sweepers : i \in sweep'[t].intents => i \in sweep[t].intents
    BY <1>1, <2>1 DEF Idle
  <2> QED
    BY <1>1, <1>2, <2>1, <2>2, <2>3, MoreDone DEF AuditInv
<1>5. CASE EndSweep(s)
  <2>1. /\ sweep' = [sweep EXCEPT ![s] = Idle]
        /\ i \in sweep[s].intents =>
              ~Locked(i) /\ state'[i] = "expired" /\ expiries'[i] = expiries[i] + 1
        /\ i \notin sweep[s].intents => state'[i] = state[i] /\ expiries'[i] = expiries[i]
    BY <1>5 DEF EndSweep
  <2>2. \A t \in Sweepers : i \in sweep'[t].intents => i \in sweep[t].intents
    BY <1>1, <2>1 DEF Idle
  <2>3. CASE i \notin sweep[s].intents
    <3>1. Done(i) \subseteq Done(i)' /\ Done(i)' \subseteq Sweepers
      BY <1>1, <2>1 DEF Done, Idle
    <3> QED
      BY <1>1, <1>2, <2>1, <2>2, <2>3, <3>1, MoreDone DEF AuditInv
  <2>4. CASE i \in sweep[s].intents
    <3>1. Done(i)' = Done(i) \cup {s} /\ s \notin Done(i)
      BY <1>1, <2>1, <2>4 DEF Done, Idle
    <3>2. Cardinality(Done(i)') = Cardinality(Done(i)) + 1
      BY <3>1, DoneCounted, FS_AddElement
    <3>3. NoneReopens(i)'
      BY <1>2, <2>1, <2>4 DEF NoneReopens, Locked, Nothing
    <3>4. elapsed'[i]
      BY <1>1, <2>4 DEF AuditInv
    <3> QED
      BY <1>1, <2>1, <2>2, <2>4, <3>2, <3>3, <3>4, DoneCounted DEF AuditInv
  <2> QED
    BY <2>3, <2>4
<1> QED
  BY <1>3, <1>4, <1>5

\* Each step keeps the account of expiry rows.
LEMMA AuditKept == IntentsInv /\ (\A i \in Intents : AuditInv(i)) /\ [Next]_vars =>
                       (\A i \in Intents : AuditInv(i))'
<1> SUFFICES ASSUME IntentsInv, \A i \in Intents : AuditInv(i), [Next]_vars, NEW i \in Intents
             PROVE  AuditInv(i)'
  OBVIOUS
<1>0. TypeOK
  BY DEF IntentsInv
<1>1. ASSUME NEW j \in Intents, NEW result \in AckStates,
             poll_commands(j) \/ BeginAck(j, result) \/ EndAck(j) \/ LoseAck(j) \/ Deadline(j)
      PROVE  AuditInv(i)'
  <2>1. UNCHANGED <<state, expiries, request, sweep>> /\ (elapsed[i] => elapsed'[i])
    BY <1>0, <1>1 DEF poll_commands, BeginAck, EndAck, LoseAck, Deadline, TypeOK
  <2> QED
    BY <1>0, <2>1, UnsweptAudit DEF NoneReopens
<1>2. CASE UNCHANGED vars
  BY <1>0, <1>2, UnsweptAudit DEF vars, NoneReopens
<1>3. ASSUME NEW k \in Keys, NEW j \in Intents,
             \/ \E late \in BOOLEAN : create_intent(k, j, late)
             \/ BeginApprove(k, j) \/ cancel_intent(k, j) \/ BeginPublish(k, j) \/ End(k)
      PROVE  AuditInv(i)'
  BY <1>3, RequestAudit
<1>4. ASSUME NEW s \in Sweepers, BeginSweep(s) \/ EndSweep(s) \/ AbortSweep(s)
      PROVE  AuditInv(i)'
  BY <1>4, SweepAudit
<1>5. "failed" \in AckStates
  BY DEF AckStates
<1> QED
  BY <1>1, <1>2, <1>3, <1>4, <1>5 DEF Next

\* Where a single worker sweeps, as docker-compose.yml:26 has it, no intent's expiry is
\* audited twice (intent_expiry.py:25-26).
THEOREM ExpiriesAuditedOnce ==
    ASSUME Cardinality(Sweepers) = 1
    PROVE  Spec => []OneExpiryAudit
<1>1. Init => \A i \in Intents : AuditInv(i)
  <2> SUFFICES ASSUME Init, NEW i \in Intents
               PROVE  AuditInv(i)
    OBVIOUS
  <2>1. expiries[i] = 0 /\ \A s \in Sweepers : i \notin sweep[s].intents
    BY DEF Init, Idle
  <2> QED
    BY <2>1, DoneCounted DEF AuditInv
<1>2. TypeOK /\ (\A i \in Intents : AuditInv(i)) => OneExpiryAudit
  <2> SUFFICES ASSUME TypeOK, NEW i \in Intents, AuditInv(i)
               PROVE  expiries[i] <= 1
    BY DEF OneExpiryAudit
  <2>1. expiries[i] \in Nat
    BY DEF TypeOK
  <2> QED
    BY <2>1, DoneCounted DEF AuditInv
<1> QED
  BY <1>1, <1>2, AuditKept, IntentsInvariant, IntentsTypeCorrect, PTL DEF Spec
=============================================================================
