--------------------------- MODULE OperatorSession ---------------------------
(***************************************************************************)
(* One session of zeto's operator runtime: the guarded state machine       *)
(* (operatorStateMachine.js), the service whose requests drive it          *)
(* (operatorRuntimeService.js) and the rows it writes                      *)
(* (operatorRepository.js).                                                *)
(*                                                                         *)
(* Every repository call is one action: a request awaits between the read  *)
(* a transition is computed from and the transaction that applies it, and  *)
(* the UPDATE of that transaction does not compare the state it replaces.  *)
(*                                                                         *)
(* The event log is kept as what the properties tell apart: which decisions *)
(* and endings it holds. Its order and delivery are left out.              *)
(***************************************************************************)
EXTENDS Naturals, Sequences

CONSTANTS
    Handler,   \* requests in service at the same time
    Pipeline,  \* those of the voice, planning and execution pipelines among them
    Plan,      \* plan ids
    NoPlan,
    Triggers   \* what the voice and execution pipelines report: transition(id, trigger)

ASSUME ConstantsAssumption == Pipeline \subseteq Handler /\ NoPlan \notin Plan

VARIABLES
    session,   \* the row of operator_sessions
    plan,      \* plan[p]: the row of operator_plans
    logged,    \* decisions and endings in operator_events: <<type, plan>>
    call       \* call[h]: the rest of request h

vars == <<session, plan, logged, call>>

-----------------------------------------------------------------------------
(* operatorStateMachine.js *)

Active == {"LISTENING", "TRANSCRIBING", "THINKING", "PLANNING",
           "AWAITING_APPROVAL", "EXECUTING", "VERIFYING", "SPEAKING", "DEGRADED"}
Pausable == {"AWAITING_APPROVAL", "EXECUTING", "VERIFYING", "DEGRADED"}
Recovery == {"RECOVERING", "REAUTHORIZING"}
Terminal == {"FAILED", "CANCELLED", "EMERGENCY_STOPPED"}
State == {"IDLE", "PAUSED"} \union Active \union Recovery \union Terminal

NoState == "none"

\* "resume_state" and "previous_state" stand for the checkpoint's.
Transitions ==
    [IDLE |-> [start_listening |-> "LISTENING"],
     LISTENING |-> [speech_available |-> "TRANSCRIBING", no_speech |-> "IDLE",
        stt_timeout |-> "IDLE", listening_idle_timeout |-> "IDLE", mic_cancel |-> "IDLE"],
     TRANSCRIBING |-> [utterance_finalized |-> "THINKING", stt_failed |-> "DEGRADED",
        stt_cancel |-> "IDLE"],
     THINKING |-> [intent_resolved |-> "PLANNING", intent_timeout |-> "FAILED"],
     PLANNING |-> [require_approval |-> "AWAITING_APPROVAL", auto_approved |-> "EXECUTING",
        plan_rejected |-> "CANCELLED", plan_timeout |-> "CANCELLED"],
     AWAITING_APPROVAL |-> [approve |-> "EXECUTING", policy_override |-> "EXECUTING",
        reject |-> "CANCELLED", approval_timeout |-> "CANCELLED"],
     EXECUTING |-> [step_completed |-> "VERIFYING", step_failed |-> "FAILED",
        step_timeout |-> "EXECUTING"],
     VERIFYING |-> [all_verified |-> "SPEAKING", verify_retry |-> "EXECUTING",
        verify_failed |-> "FAILED", verify_timeout |-> "FAILED"],
     SPEAKING |-> [tts_completed |-> "IDLE", tts_failed |-> "IDLE", tts_cancel |-> "IDLE"],
     DEGRADED |-> [recovered |-> "previous_state", degrade_failed |-> "FAILED"],
     PAUSED |-> [resume_requested |-> "REAUTHORIZING", cancel |-> "CANCELLED",
        session_timeout |-> "CANCELLED"],
     REAUTHORIZING |-> [reauth_granted |-> "RECOVERING", reauth_denied |-> "CANCELLED",
        reauth_timeout |-> "CANCELLED"],
     RECOVERING |-> [checkpoint_validated |-> "resume_state",
        checkpoint_invalid |-> "FAILED", recovery_timeout |-> "FAILED"]]

\* The attempt budget of a retry is the caller's: it may be exhausted or not.
Resolved(s, trigger) ==
    LET target == Transitions[s.state][trigger] IN
    CASE target = "resume_state" ->
            {IF s.resumeState \in Pausable THEN s.resumeState ELSE "FAILED"}
      [] target = "previous_state" ->
            {IF s.previousState \in Active \ {"DEGRADED"} THEN s.previousState ELSE "FAILED"}
      [] trigger \in {"step_timeout", "verify_retry"} -> {"EXECUTING", "FAILED"}
      [] OTHER -> {target}

\* An error: emergency_stop would also restamp a session that has ended.
LeadsAgain(s, trigger, to) ==
    \/ trigger = "emergency_stop" /\ to = "EMERGENCY_STOPPED"
    \/ s.state \notin Terminal /\ trigger = "cancel" /\ to = "CANCELLED"
    \/ /\ s.state \notin Terminal /\ trigger \in DOMAIN Transitions[s.state]
       /\ to \in Resolved(s, trigger)

\* The trigger is legal in s and may lead to state `to`.
Leads(s, trigger, to) ==
    /\ s.state \notin Terminal
    /\ \/ trigger = "emergency_stop" /\ to = "EMERGENCY_STOPPED"
       \/ trigger = "pause" /\ s.state \in Pausable \union Recovery /\ to = "PAUSED"
       \/ /\ trigger = "cancel" /\ to = "CANCELLED"
          /\ s.state \in {"PAUSED"} \union Active \union Recovery
       \/ trigger = "hard_failure" /\ s.state \in Active \union Recovery /\ to = "FAILED"
       \/ trigger = "degrade" /\ s.state \in Active /\ to = "DEGRADED"
       \/ trigger \in DOMAIN Transitions[s.state] /\ to \in Resolved(s, trigger)

\* An error: a pause on the way back would forget what to resume.
NextResumeForgotten(s, to) ==
    IF to = "PAUSED" /\ s.state \in Recovery THEN NoState
    ELSE IF to = "PAUSED" THEN s.state
    ELSE IF to = "DEGRADED" \/ to \in Recovery THEN s.resumeState ELSE NoState

\* The resume_state that entering `to` from s persists; its previous_state is s.state.
NextResume(s, to) ==
    CASE to = "PAUSED" /\ s.state \in Pausable -> s.state
      [] to = "PAUSED" /\ s.state \in Recovery -> s.resumeState
      [] to = "DEGRADED" \/ to \in Recovery -> s.resumeState
      [] to \in Pausable \ {"DEGRADED"} /\ s.state = "RECOVERING" -> to
      [] OTHER -> NoState

PausePolicy(state) ==
    CASE state \in Pausable \union Recovery -> "pause"
      [] state = "LISTENING" -> "mic_cancel"
      [] state = "TRANSCRIBING" -> "stt_cancel"
      [] state = "SPEAKING" -> "tts_cancel"
      [] state \in {"THINKING", "PLANNING"} -> "defer"
      [] OTHER -> "none"

-----------------------------------------------------------------------------
(* Rows and requests *)

Session == [state : State, previousState : State \union {NoState},
            resumeState : State \union {NoState}, pendingPause : BOOLEAN,
            grantsRevoked : BOOLEAN, killSwitchLatched : BOOLEAN]

Verdict == {"approved", "approval_required", "denied"}

PlanRow == [status : {"none", "pending", "approved", "executing", "rejected"},
            verdict : Verdict \union {"none"}]

\* One repository call of a request, or one whole transition.
Do(what, arg, p) == [do |-> what, arg |-> arg, plan |-> p]
Transition(trigger) == Do("transition", trigger, NoPlan)

Pause == <<Do("pause", "", NoPlan)>>
Cancel == <<Transition("cancel")>>
EmergencyStop == <<Transition("emergency_stop")>>
Resume == <<Transition("resume_requested"), Transition("reauth_granted"),
            Transition("checkpoint_validated")>>

CreatePlan(p, verdict) ==
    CASE verdict = "approved" ->
            <<Do("insert", verdict, p), Transition("auto_approved"), Do("status", "executing", p)>>
      [] verdict = "denied" ->
            <<Do("insert", verdict, p), Transition("plan_rejected"), Do("status", "rejected", p)>>
      [] verdict = "approval_required" ->
            <<Do("insert", verdict, p), Transition("require_approval")>>

\* An error: the row is decided before the log.
DecisionUnlogged(p, event, trigger, status) ==
    <<Do("plan", "", p), Do("awaiting", "", p), Transition(trigger),
      Do("status", status, p), Do("log", event, p)>>

Decision(p, event, trigger, status) ==
    <<Do("plan", "", p), Do("awaiting", "", p), Do("log", event, p),
      Transition(trigger), Do("status", status, p)>>
\* An overriding approval differs in the name of the trigger only.
ApprovePlan(p) == Decision(p, "plan.approved", "approve", "approved")
RejectPlan(p) == Decision(p, "plan.rejected", "reject", "rejected")

\* A created plan gets an id of its own.
FreshPlans == {p \in Plan : /\ plan[p].status = "none"
                            /\ \A h \in Handler : call[h].todo = <<>> \/ Head(call[h].todo).plan # p}

OperatorRequests ==
    {Pause, Cancel, EmergencyStop, Resume}
    \union UNION {{ApprovePlan(p), RejectPlan(p)} :
                   p \in {q \in Plan : plan[q].status # "none"}}

PipelineRequests ==
    {<<Transition(t)>> : t \in Triggers}
    \union {CreatePlan(p, v) : p \in FreshPlans, v \in Verdict}

\* What a transition computed from the row it read and is about to write.
NoUpdate == [to |-> NoState, from |-> NoState, resume |-> NoState, pending |-> FALSE]

Update(to) == [to |-> to, from |-> session.state, resume |-> NextResume(session, to),
               pending |-> session.pendingPause]

Free == [todo |-> <<>>, update |-> NoUpdate]

Init ==
    /\ session = [state |-> "IDLE", previousState |-> NoState, resumeState |-> NoState,
                  pendingPause |-> FALSE, grantsRevoked |-> FALSE,
                  killSwitchLatched |-> FALSE]
    /\ plan = [p \in Plan |-> [status |-> "none", verdict |-> "none"]]
    /\ logged = {}
    /\ call = [h \in Handler |-> Free]

-----------------------------------------------------------------------------
(* The steps of a request *)

Receive(h) ==
    /\ call[h] = Free
    /\ \E r \in OperatorRequests \union (IF h \in Pipeline THEN PipelineRequests ELSE {}) :
          call' = [call EXCEPT ![h].todo = r]
    /\ UNCHANGED <<session, plan, logged>>

\* Request h is at step `what`, not inside a transition.
At(h, what) ==
    /\ call[h].todo # <<>>
    /\ Head(call[h].todo).do = what
    /\ call[h].update = NoUpdate

Advance(h) == call' = [call EXCEPT ![h].todo = Tail(call[h].todo)]

Raise(h) == call' = [call EXCEPT ![h] = Free]

\* transition: read the row and compute the update, or answer 409.
ReadSession(h) ==
    /\ At(h, "transition")
    /\ LET step == Head(call[h].todo)
           Targets == {to \in State : Leads(session, step.arg, to)} IN
       \/ \E to \in Targets : call' = [call EXCEPT ![h].update = Update(to)]
       \/ Targets = {} /\ Raise(h)
    /\ UNCHANGED <<session, plan, logged>>

\* An error: only an emergency revokes the grants.
AppliedGranting(u) ==
    [state |-> u.to, previousState |-> u.from, resumeState |-> u.resume,
     pendingPause |-> session.pendingPause /\ ~u.pending,
     grantsRevoked |-> session.grantsRevoked \/ u.to = "EMERGENCY_STOPPED",
     killSwitchLatched |-> session.killSwitchLatched \/ u.to = "EMERGENCY_STOPPED"]

\* applyTransition: the row and the events in one transaction.
Applied(u) ==
    [state |-> u.to,
     previousState |-> u.from,
     resumeState |-> u.resume,
     pendingPause |-> session.pendingPause /\ ~u.pending,
     grantsRevoked |-> session.grantsRevoked \/ u.to \in Terminal,
     killSwitchLatched |-> session.killSwitchLatched \/ u.to = "EMERGENCY_STOPPED"]

TransitionEvents(u) ==
    (IF u.to \in Terminal THEN {<<"session.ended", NoPlan>>} ELSE {})
    \union (IF u.to = "EMERGENCY_STOPPED" THEN {<<"emergency.stop", NoPlan>>} ELSE {})

\* A pause that was pending is applied on reaching a pausable state, by a
\* transition of its own in the place of this one.
Continued(todo, u) ==
    IF u.pending /\ u.to \in Pausable THEN [todo EXCEPT ![1] = Transition("pause")]
    ELSE Tail(todo)

ApplyTransition(h) ==
    LET u == call[h].update IN
    /\ u # NoUpdate
    /\ session' = Applied(u)
    /\ logged' = logged \union TransitionEvents(u)
    /\ call' = [call EXCEPT ![h] = [todo |-> Continued(call[h].todo, u), update |-> NoUpdate]]
    /\ UNCHANGED plan

\* pause: what to do is decided from a read of its own.
DecidePause(h) ==
    /\ At(h, "pause")
    /\ LET policy == PausePolicy(session.state) IN
       call' = [call EXCEPT ![h].todo =
                  CASE policy = "none" -> <<>>
                    [] policy = "defer" -> <<Do("defer", "", NoPlan)>>
                    [] OTHER -> <<Transition(policy)>>]
    /\ UNCHANGED <<session, plan, logged>>

SetPendingPause(h) ==
    /\ At(h, "defer")
    /\ session' = [session EXCEPT !.pendingPause = TRUE]
    /\ Advance(h)
    /\ UNCHANGED <<plan, logged>>

InsertPlan(h) ==
    /\ At(h, "insert")
    /\ LET step == Head(call[h].todo) IN
       plan' = [plan EXCEPT ![step.plan] = [status |-> "pending", verdict |-> step.arg]]
    /\ Advance(h)
    /\ UNCHANGED <<session, logged>>

AppendEvents(h) ==
    /\ At(h, "log")
    /\ logged' = logged \union {<<Head(call[h].todo).arg, Head(call[h].todo).plan>>}
    /\ Advance(h)
    /\ UNCHANGED <<session, plan>>

CheckPlan(h) ==
    /\ At(h, "plan")
    /\ IF plan[Head(call[h].todo).plan].status = "pending" THEN Advance(h) ELSE Raise(h)
    /\ UNCHANGED <<session, plan, logged>>

CheckAwaiting(h) ==
    /\ At(h, "awaiting")
    /\ IF session.state = "AWAITING_APPROVAL" THEN Advance(h) ELSE Raise(h)
    /\ UNCHANGED <<session, plan, logged>>

UpdatePlanStatus(h) ==
    /\ At(h, "status")
    /\ LET step == Head(call[h].todo) IN plan' = [plan EXCEPT ![step.plan].status = step.arg]
    /\ Advance(h)
    /\ UNCHANGED <<session, logged>>

Step(h) ==
    \/ ReadSession(h) \/ ApplyTransition(h) \/ DecidePause(h) \/ SetPendingPause(h)
    \/ InsertPlan(h) \/ AppendEvents(h) \/ CheckPlan(h) \/ CheckAwaiting(h)
    \/ UpdatePlanStatus(h)

Next == \E h \in Handler : Receive(h) \/ Step(h)

Spec == Init /\ [][Next]_vars

-----------------------------------------------------------------------------

\* Types of the two rows.
TypeOK ==
    /\ session \in Session
    /\ plan \in [Plan -> PlanRow]

\* A session that is paused or on its way back holds a state it can be resumed
\* to, whatever the interleaving of requests: RECOVERING never finds a corrupt
\* checkpoint (operatorStateMachine.js, nextCheckpoint and checkpoint_validated).
CheckpointValid ==
    session.state \in {"PAUSED"} \union Recovery => session.resumeState \in Pausable

\* An ended session holds no grants, a stopped one has its kill switch latched,
\* and neither is set unless the log says why (applyTransition's transaction).
StopRevokes ==
    /\ session.state \in Terminal => session.grantsRevoked
    /\ session.state = "EMERGENCY_STOPPED" => session.killSwitchLatched
    /\ session.grantsRevoked => <<"session.ended", NoPlan>> \in logged
    /\ session.killSwitchLatched => <<"emergency.stop", NoPlan>> \in logged

\* A plan's decision is in the log before it is in the plan's row, and only a
\* plan the policy approved executes without one (approvePlan, rejectPlan, createPlan).
DecisionIsRecorded ==
    \A p \in Plan :
        /\ plan[p].status # "none" => plan[p].verdict \in Verdict
        /\ plan[p].status = "approved" => <<"plan.approved", p>> \in logged
        /\ plan[p].status = "executing" => plan[p].verdict = "approved"
        /\ plan[p].status = "rejected" =>
              <<"plan.rejected", p>> \in logged \/ plan[p].verdict = "denied"

\* Whoever writes the row of a stopped session, the kill switch stays latched and
\* the grants stay revoked (the COALESCEs of applyTransition).
LatchesHold ==
    [][/\ session.killSwitchLatched => session'.killSwitchLatched
       /\ session.grantsRevoked => session'.grantsRevoked]_vars

NoUpdateInFlight == \A h \in Handler : call[h].update = NoUpdate

\* Once the updates computed before the session ended are gone, no request moves
\* it again (transitionOperatorState rejects every trigger of a terminal state).
DrainedEndIsFinal ==
    [][session.state \in Terminal /\ NoUpdateInFlight =>
        session'.state = session.state /\ NoUpdateInFlight']_vars

\* What an end leaves behind: no stale transition takes back its latches, and without
\* one it is not left again.
EndsAreKept == LatchesHold /\ DrainedEndIsFinal

\* TERMINAL_STATES have no outbound transitions (operatorStateMachine.js:16).
TerminalIsFinal ==
    [][session.state \in Terminal => session'.state = session.state]_vars
=============================================================================
