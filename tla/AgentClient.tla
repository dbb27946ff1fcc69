----------------------------- MODULE AgentClient -----------------------------
(***************************************************************************)
(* The endpoint agent (endpoint_agent/client.py) against the gateway of    *)
(* AgentFleet and the commands of app/api/v1/platform.py: it enrols once,  *)
(* then repeats a heartbeat and a poll, and each command it is given is an *)
(* inventory report and an ack.  The process may die at any step and is    *)
(* started again by its service manager; only its files survive.           *)
(*                                                                         *)
(* A request stays under way at the server, and may still commit, when its *)
(* client has an error for an answer (a proxy's 502 or 504) or is dead: so *)
(* does the client's own timeout end it, which no handler catches.  Polls  *)
(* and acks are one step of the server.  Commands are published by         *)
(* EndpointIntents and all of the one kind that is enabled,                *)
(* collect_inventory.                                                      *)
(***************************************************************************)
EXTENDS AgentFleet

CONSTANTS
    Commands,   \* agent_commands rows, each with its nonce
    NoAgent,    \* no identity file yet
    NoRequest,  \* nothing is waited for
    NoCommand   \* no command is being handled

ASSUME ClientAssumption ==
    /\ NoAgent \notin Agents
    /\ NoRequest \notin Requests
    /\ NoCommand \notin Commands

VARIABLES
    command,   \* agent_commands.state; "late" is "available" after expires_at
    target,    \* agent_commands.agent_id
    pc,        \* where each host's process is
    awaits,    \* the request it waits for
    identity,  \* identity.json, with the key and the certificate
    stored,    \* seen-nonces.json
    seen,      \* the nonces it has in memory during a poll
    todo,      \* polled commands not yet handled
    current,   \* the command being handled
    outcome,   \* what it will ack
    full,      \* whether the next heartbeat carries the inventory
    runs       \* how often each command was run

client ==
    <<command, target, pc, awaits, identity, stored, seen, todo, current, outcome, full, runs>>
vars == <<fleetVars, client>>

Settled == {"completed", "failed", "rejected", "expired"}
CommandStates == {"none", "available", "late"} \cup Settled
Places == {"down", "enrolling", "ready", "beating", "polling", "handling", "reporting", "acking"}

TypeOK ==
    /\ FleetTypeOK
    /\ command \in [Commands -> CommandStates]
    /\ target \in [Commands -> Agents]
    /\ pc \in [Hosts -> Places]
    /\ awaits \in [Hosts -> Requests \cup {NoRequest}]
    /\ identity \in [Hosts -> Agents \cup {NoAgent}]
    /\ stored \in [Hosts -> SUBSET Commands]
    /\ seen \in [Hosts -> SUBSET Commands]
    /\ todo \in [Hosts -> SUBSET Commands]
    /\ current \in [Hosts -> Commands \cup {NoCommand}]
    /\ outcome \in [Hosts -> {"completed", "failed", "rejected"}]
    /\ full \in [Hosts -> BOOLEAN]
    /\ runs \in [Commands -> Nat]

Init ==
    /\ FleetInit
    /\ command = [c \in Commands |-> "none"]
    /\ target \in [Commands -> Agents]
    /\ pc = [h \in Hosts |-> "down"]
    /\ awaits = [h \in Hosts |-> NoRequest]
    /\ identity = [h \in Hosts |-> NoAgent]
    /\ stored = [h \in Hosts |-> {}]
    /\ seen = [h \in Hosts |-> {}]
    /\ todo = [h \in Hosts |-> {}]
    /\ current = [h \in Hosts |-> NoCommand]
    /\ outcome = [h \in Hosts |-> "failed"]
    /\ full = [h \in Hosts |-> TRUE]
    /\ runs = [c \in Commands |-> 0]

\* Where the process of h goes next, and the request it waits for there.
Go(h, place, q) ==
    /\ pc' = [pc EXCEPT ![h] = place]
    /\ awaits' = [awaits EXCEPT ![h] = q]

\* Slots are alike: a new request takes one that is free.
FreeSlots == {q \in Requests : request[q] = Idle}
Slots == IF FreeSlots = {} THEN {} ELSE {CHOOSE q \in FreeSlots : TRUE}

\* The requests no client waits for any more.
Abandoned(q) == request[q] # Idle /\ \A h \in Hosts : awaits[h] # q

commands == <<command, target, runs>>
files == <<identity, stored>>
poll == <<seen, todo, current, outcome>>
memory == <<poll, full>>

\* The variables of poll_commands are gone when it ends.
Forget(h) ==
    /\ seen' = [seen EXCEPT ![h] = {}]
    /\ todo' = [todo EXCEPT ![h] = {}]
    /\ current' = [current EXCEPT ![h] = NoCommand]
    /\ outcome' = [outcome EXCEPT ![h] = "failed"]

-----------------------------------------------------------------------------
(* Enrolment. *)

Resume(h) ==
    /\ pc[h] = "down" /\ identity[h] # NoAgent
    /\ Go(h, "ready", NoRequest)
    /\ full' = [full EXCEPT ![h] = TRUE]
    /\ UNCHANGED <<fleetVars, commands, files, poll>>

Enrol(h) ==
    /\ pc[h] = "down" /\ identity[h] = NoAgent
    /\ \E q \in Slots, k \in EnrolKeys :
          BeginEnroll(q, k, h) /\ Go(h, "enrolling", q)
    /\ full' = [full EXCEPT ![h] = TRUE]
    /\ UNCHANGED <<commands, files, poll>>

Enrolled(h) ==
    /\ pc[h] = "enrolling"
    /\ \E a \in Agents : EndEnroll(awaits[h], a) /\ identity' = [identity EXCEPT ![h] = a]
    /\ Go(h, "ready", NoRequest)
    /\ UNCHANGED <<commands, stored, memory>>

-----------------------------------------------------------------------------
(* The cycle of run(). *)

\* The installed packages may be any at each report.
SendReport(q, h) == \E report \in SUBSET Packages : BeginReport(q, identity[h], report)

Heartbeat(h) ==
    /\ pc[h] = "ready"
    /\ \E q \in Slots :
          /\ IF full[h] THEN SendReport(q, h) ELSE BeginPlain(q, identity[h])
          /\ Go(h, "beating", q)
    /\ UNCHANGED <<commands, files, memory>>

Answered(h) ==
    /\ pc[h] = "beating"
    /\ EndPlain(awaits[h]) \/ EndReport(awaits[h])
    /\ Go(h, "polling", NoRequest)
    /\ UNCHANGED <<commands, files, memory>>

\* The cycle failed: the next one sends the same kind of heartbeat again.
Unanswered(h) ==
    /\ pc[h] = "beating"
    /\ Refuse(awaits[h]) \/ Fail(awaits[h])
    /\ Go(h, "ready", NoRequest)
    /\ UNCHANGED <<commands, files, memory>>

\* poll_commands up to its loop; the server leaves out what has passed its deadline.
Poll(h) ==
    /\ pc[h] = "polling"
    /\ Admitted(identity[h])
    /\ seen' = [seen EXCEPT ![h] = stored[h]]
    /\ todo' = [todo EXCEPT ![h] =
          {c \in Commands : command[c] = "available" /\ target[c] = identity[h]}]
    /\ Go(h, "handling", NoRequest)
    /\ UNCHANGED <<fleetVars, commands, files, current, outcome, full>>

\* A command whose nonce was seen is acked as a replay.
Replay(h, c) ==
    /\ c \in seen[h]
    /\ outcome' = [outcome EXCEPT ![h] = "rejected"]
    /\ Go(h, "acking", NoRequest)
    /\ UNCHANGED <<fleetVars, commands, files, seen, full>>

\* Mutant: the nonce is written as soon as its command is run.
RunRemembered(h, c) ==
    /\ c \notin seen[h]
    /\ runs' = [runs EXCEPT ![c] = @ + 1]
    /\ seen' = [seen EXCEPT ![h] = @ \cup {c}]
    /\ stored' = [stored EXCEPT ![h] = @ \cup {c}]
    /\ outcome' = outcome
    /\ \E q \in Slots : SendReport(q, h) /\ Go(h, "reporting", q)
    /\ UNCHANGED <<command, target, identity, full>>

\* A new one is an inventory report, which the server may refuse at once.
Run(h, c) ==
    /\ c \notin seen[h]
    /\ runs' = [runs EXCEPT ![c] = @ + 1]
    /\ seen' = [seen EXCEPT ![h] = @ \cup {c}]
    /\ \/ /\ \E q \in Slots : SendReport(q, h) /\ Go(h, "reporting", q)
          /\ outcome' = outcome
       \/ /\ ~Admitted(identity[h])
          /\ Go(h, "acking", NoRequest)
          /\ outcome' = [outcome EXCEPT ![h] = "failed"]
          /\ UNCHANGED fleetVars
    /\ UNCHANGED <<command, target, files, full>>

Handle(h) ==
    /\ pc[h] = "handling"
    /\ \E c \in todo[h] :
          /\ Replay(h, c) \/ Run(h, c)
          /\ current' = [current EXCEPT ![h] = c]
          /\ todo' = [todo EXCEPT ![h] = @ \ {c}]

Reported(h) ==
    /\ pc[h] = "reporting"
    /\ \/ EndReport(awaits[h]) /\ outcome' = [outcome EXCEPT ![h] = "completed"]
       \/ Refuse(awaits[h]) /\ outcome' = [outcome EXCEPT ![h] = "failed"]
       \/ Fail(awaits[h]) /\ outcome' = [outcome EXCEPT ![h] = "failed"]
    /\ Go(h, "acking", NoRequest)
    /\ UNCHANGED <<commands, files, seen, todo, current, full>>

\* What acknowledge_command makes of the command's state.
Acked(c, state) == [command EXCEPT ![c] = IF @ = "available" THEN state ELSE @]

\* Mutant: a command that failed ends the poll before it is acked.
AckUnlessFailed(h) ==
    /\ pc[h] = "acking"
    /\ Admitted(identity[h])
    /\ command[current[h]] # "late"
    /\ IF outcome[h] = "failed"
       THEN Go(h, "ready", NoRequest) /\ Forget(h) /\ UNCHANGED command
       ELSE /\ command' = Acked(current[h], outcome[h])
            /\ Go(h, "handling", NoRequest)
            /\ current' = [current EXCEPT ![h] = NoCommand]
            /\ outcome' = [outcome EXCEPT ![h] = "failed"]
            /\ UNCHANGED <<seen, todo>>
    /\ UNCHANGED <<fleetVars, target, runs, files, full>>

Ack(h) ==
    /\ pc[h] = "acking"
    /\ Admitted(identity[h])
    /\ command[current[h]] # "late"
    /\ command' = Acked(current[h], outcome[h])
    /\ Go(h, "handling", NoRequest)
    /\ current' = [current EXCEPT ![h] = NoCommand]
    /\ outcome' = [outcome EXCEPT ![h] = "failed"]
    /\ UNCHANGED <<fleetVars, target, runs, files, seen, todo, full>>

\* The end of poll_commands, and of a cycle: every inventory_every-th is full.
Save(h) ==
    /\ pc[h] = "handling" /\ todo[h] = {}
    /\ stored' = [stored EXCEPT ![h] = seen[h]]
    /\ full' \in {[full EXCEPT ![h] = f] : f \in BOOLEAN}
    /\ Go(h, "ready", NoRequest)
    /\ Forget(h)
    /\ UNCHANGED <<fleetVars, commands, identity>>

\* A poll or an ack that the server refuses (expired certificate, or a command past
\* its deadline) ends the cycle, and what was seen in it is forgotten.
CycleRefused(h) ==
    /\ \/ pc[h] = "polling" /\ ~Admitted(identity[h])
       \/ pc[h] = "acking" /\ (~Admitted(identity[h]) \/ command[current[h]] = "late")
    /\ Go(h, "ready", NoRequest)
    /\ Forget(h)
    /\ UNCHANGED <<fleetVars, commands, files, full>>

\* An error on the way to the server or back: an ack may have landed all the same.
CycleLost(h) ==
    /\ failures < MaxFailures
    /\ failures' = failures + 1
    /\ pc[h] \in {"polling", "acking"}
    /\ \/ command' = command
       \/ pc[h] = "acking" /\ command' = Acked(current[h], outcome[h])
    /\ Go(h, "ready", NoRequest)
    /\ Forget(h)
    /\ UNCHANGED <<tables, key, agents, request, due, crossed, target, runs, files, full>>

\* An answer of 502 or 504, with the request still under way at the server.
GiveUp(h) ==
    /\ failures < MaxFailures
    /\ failures' = failures + 1
    /\ awaits[h] # NoRequest
    /\ Go(h, CASE pc[h] = "enrolling" -> "down"
               [] pc[h] = "beating" -> "ready"
               [] pc[h] = "reporting" -> "acking", NoRequest)
    /\ UNCHANGED <<tables, key, agents, request, due, crossed, commands, files, memory>>

\* The process ends, wherever it is: a crash, or a timeout while it reads an answer.
Crash(h) ==
    /\ failures < MaxFailures
    /\ failures' = failures + 1
    /\ pc[h] # "down"
    /\ Go(h, "down", NoRequest)
    /\ Forget(h)
    /\ full' = [full EXCEPT ![h] = TRUE]
    /\ UNCHANGED <<tables, key, agents, request, due, crossed, commands, files>>

\* An error of the enrolment ends the process too.
EnrolmentFails(h) ==
    /\ pc[h] = "enrolling"
    /\ Fail(awaits[h])
    /\ Go(h, "down", NoRequest)
    /\ UNCHANGED <<commands, files, memory>>

-----------------------------------------------------------------------------
(* The server without the client. *)

\* A request that nobody waits for runs on.
FinishAbandoned(q) ==
    /\ Abandoned(q)
    /\ \/ \E a \in Agents : EndEnroll(q, a)
       \/ EndPlain(q) \/ EndReport(q) \/ Refuse(q) \/ Fail(q)
    /\ UNCHANGED client

Publish(c) ==
    /\ command[c] = "none" /\ status[target[c]] # "none"
    /\ command' = [command EXCEPT ![c] = "available"]
    /\ UNCHANGED <<fleetVars, target, runs, pc, awaits, files, memory>>

\* expires_at passes; later the sweep of EndpointIntents marks the command.
Lapse(c) ==
    /\ command[c] \in {"available", "late"}
    /\ command' = [command EXCEPT ![c] = IF @ = "available" THEN "late" ELSE "expired"]
    /\ UNCHANGED <<fleetVars, target, runs, pc, awaits, files, memory>>

ClientStep(h) ==
    \/ Resume(h) \/ Enrol(h) \/ Enrolled(h)
    \/ Heartbeat(h) \/ Answered(h) \/ Unanswered(h)
    \/ Poll(h) \/ Handle(h) \/ Reported(h) \/ Ack(h) \/ Save(h)
    \/ CycleRefused(h)

Next ==
    \/ \E h \in Hosts :
          ClientStep(h) \/ CycleLost(h) \/ GiveUp(h) \/ Crash(h) \/ EnrolmentFails(h)
    \/ \E q \in Requests : FinishAbandoned(q)
    \/ ServerNext /\ UNCHANGED client
    \/ \E c \in Commands : Publish(c) \/ Lapse(c)

\* The processes run on, and the server works on the requests it has.
Fairness ==
    /\ \A h \in Hosts : WF_vars(ClientStep(h))
    /\ WF_vars((\E q \in Requests : Serve(q)) /\ UNCHANGED client)
    /\ WF_vars(\E q \in Requests : FinishAbandoned(q))

Spec == Init /\ [][Next]_vars
FairSpec == Spec /\ Fairness

-----------------------------------------------------------------------------
(* Properties. *)

\* A nonce is on disk only if its command will not be handed out again, so an agent never
\* rejects a command it was really given as a replay (poll_commands writes the nonces after
\* the acks).
StoredIsSettled == \A h \in Hosts : \A c \in stored[h] : command[c] \in Settled

\* A command is run again only after something went wrong in between: a lost answer or a
\* crash before the nonces were written (poll_commands, and the timeout of _request).
RunBudget == \A c \in Commands : runs[c] <= 1 + failures

\* A heartbeat or report is answered in the end: requests that overlap on an agent's row and
\* its asset's software never wait for each other (the autoflush in apply_software_inventory).
Answers ==
    \A h \in Hosts : (pc[h] \in {"beating", "reporting"}) ~> (awaits[h] = NoRequest)

\* An agent that keeps reporting is shown as active again and again, although a sweep may
\* mark it stale while its heartbeat is under way (heartbeat, mark_stale_agents).
ReportingShows ==
    \A h \in Hosts :
        ([]<>(pc[h] = "beating") /\ []<>(pc[h] = "polling")) =>
        []<>(identity[h] \in Agents /\ status[identity[h]] = "active")
=============================================================================
