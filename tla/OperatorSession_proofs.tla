----------------------- MODULE OperatorSession_proofs -----------------------
(***************************************************************************)
(* Proofs about OperatorSession, for any number of requests in service.    *)
(*                                                                         *)
(* The invariant says what a half-done request may rely on: an update was  *)
(* computed from a state that had not ended, with a resume state wherever  *)
(* the target needs one (UpdateSound), and what is left of a request only  *)
(* writes the decision of a plan that is in the log, or is about to be     *)
(* (ProgramSound).                                                         *)
(***************************************************************************)
EXTENDS OperatorSession, TLAPS

Argument ==
    Triggers \union Verdict
    \union {"", "pause", "cancel", "emergency_stop", "resume_requested", "reauth_granted",
            "checkpoint_validated", "auto_approved", "plan_rejected", "require_approval",
            "approve", "reject", "mic_cancel", "stt_cancel", "tts_cancel",
            "plan.approved", "plan.rejected", "executing", "rejected", "approved"}

StepRow ==
    [do : {"transition", "pause", "defer", "insert", "log", "plan", "awaiting", "status"},
     arg : Argument,
     plan : Plan \union {NoPlan}]

UpdateRow == [to : State \union {NoState}, from : State \union {NoState},
              resume : State \union {NoState}, pending : BOOLEAN]

UpdateSound(u) ==
    u # NoUpdate => /\ u.to \in State
                    /\ u.from \in State \ Terminal
                    /\ u.to \in {"PAUSED"} \union Recovery => u.resume \in Pausable

\* Step i of a request comes after the insertion of plan p with the verdict, or the
\* plan has it already.
HasVerdict(todo, i, pl, p, verdict) ==
    \/ pl[p].status # "none" /\ pl[p].verdict = verdict
    \/ i > 1 /\ todo[1] = Do("insert", verdict, p)

\* Step i of a request comes after the event, or the log has it already.
HasLogged(todo, i, lg, event, p) ==
    \/ <<event, p>> \in lg
    \/ \E j \in 1..(i - 1) : todo[j] = Do("log", event, p)

Justified(todo, i, pl, lg) ==
    LET p == todo[i].plan IN
    \/ todo[i].arg = "approved" /\ HasLogged(todo, i, lg, "plan.approved", p)
    \/ todo[i].arg = "executing" /\ HasVerdict(todo, i, pl, p, "approved")
    \/ todo[i].arg = "rejected" /\ HasLogged(todo, i, lg, "plan.rejected", p)
    \/ todo[i].arg = "rejected" /\ HasVerdict(todo, i, pl, p, "denied")

StepSound(todo, i, pl, lg) ==
    /\ todo[i].do = "insert" => i = 1 /\ todo[i].arg \in Verdict /\ todo[i].plan \in Plan
    /\ todo[i].plan \in Plan => \/ pl[todo[i].plan].status # "none"
                                \/ todo[1].do = "insert" /\ todo[1].plan = todo[i].plan
    /\ todo[i].do = "status" => todo[i].plan \in Plan /\ Justified(todo, i, pl, lg)

ProgramSound(todo, pl, lg) ==
    /\ todo \in Seq(StepRow)
    /\ \A i \in 1..Len(todo) : StepSound(todo, i, pl, lg)

\* The two tables only grow.
Grows(pl, lg, pl2, lg2) ==
    /\ lg \subseteq lg2
    /\ \A p \in Plan : pl[p].status # "none" =>
          pl2[p].status # "none" /\ pl2[p].verdict = pl[p].verdict

Inserts(todo, p) == todo # <<>> /\ todo[1].do = "insert" /\ todo[1].plan = p

\* A plan that is still to be inserted has no row, and one request inserts it.
InsertsApart ==
    \A h \in Handler, p \in Plan :
        Inserts(call[h].todo, p) =>
            /\ plan[p].status = "none"
            /\ \A g \in Handler \ {h} : ~ Inserts(call[g].todo, p)

CallSound(c) ==
    /\ ProgramSound(c.todo, plan, logged)
    /\ c.update # NoUpdate => c.todo # <<>> /\ c.todo[1].do = "transition"
    /\ UpdateSound(c.update)

IInv ==
    /\ TypeOK
    /\ call \in [Handler -> [todo : Seq(StepRow), update : UpdateRow]]
    /\ \A h \in Handler : CallSound(call[h])
    /\ InsertsApart
    /\ CheckpointValid
    /\ StopRevokes
    /\ DecisionIsRecorded

-----------------------------------------------------------------------------
(* The state machine *)

\* Only a paused session is reauthorized and only a reauthorized one recovers.
LEMMA RecoveryTable ==
    ASSUME NEW s \in Session, NEW trigger, NEW to \in State, Leads(s, trigger, to)
    PROVE  /\ s.state \in State \ Terminal
           /\ to \in Recovery => s.state \in {"PAUSED"} \union Recovery
           /\ to = "PAUSED" => s.state \in Pausable \union Recovery
<1>1. s.state \in State \ Terminal
  BY DEF Leads, Session
<1>2. CASE /\ trigger \in DOMAIN Transitions[s.state]
           /\ to \in Resolved(s, trigger)
  <2>1. s.state = "PAUSED" => to \in {"REAUTHORIZING", "CANCELLED"}
    BY <1>2 DEF Resolved, Transitions
  <2>2. s.state = "REAUTHORIZING" => to \in {"RECOVERING", "CANCELLED"}
    BY <1>2 DEF Resolved, Transitions
  <2>3. s.state = "RECOVERING" => to \in Pausable \union {"FAILED"}
    BY <1>2 DEF Resolved, Transitions
  <2>4. s.state \in {"IDLE", "LISTENING", "TRANSCRIBING", "THINKING"} => to \in Active \union Terminal \union {"IDLE"}
    BY <1>2 DEF Resolved, Transitions, Active, Terminal
  <2>5. s.state \in {"PLANNING", "AWAITING_APPROVAL", "EXECUTING"} => to \in Active \union Terminal \union {"IDLE"}
    BY <1>2 DEF Resolved, Transitions, Active, Terminal
  <2>6. s.state \in {"VERIFYING", "SPEAKING", "DEGRADED"} => to \in Active \union Terminal \union {"IDLE"}
    BY <1>2 DEF Resolved, Transitions, Active, Terminal
  <2> QED BY <1>1, <2>1, <2>2, <2>3, <2>4, <2>5, <2>6
        DEF State, Active, Recovery, Terminal, Pausable
<1>3. CASE ~ /\ trigger \in DOMAIN Transitions[s.state]
             /\ to \in Resolved(s, trigger)
  BY <1>1, <1>3 DEF Leads, Recovery
<1> QED BY <1>1, <1>2, <1>3

\* The checkpoint of an update holds a resume state wherever the target needs one.
LEMMA UpdateIsSound ==
    ASSUME NEW trigger, NEW to \in State, session \in Session, CheckpointValid,
           Leads(session, trigger, to)
    PROVE  /\ UpdateSound(Update(to))
           /\ Update(to) \in UpdateRow
           /\ Update(to) # NoUpdate
<1> DEFINE n == NextResume(session, to)
<1>1. /\ session.state \in State \ Terminal
      /\ to \in Recovery => session.state \in {"PAUSED"} \union Recovery
      /\ to = "PAUSED" => session.state \in Pausable \union Recovery
  BY RecoveryTable
<1>2. n \in State \union {NoState}
  BY <1>1 DEF NextResume, Session
<1>3. to \in {"PAUSED"} \union Recovery => n \in Pausable
  BY <1>1 DEF NextResume, CheckpointValid, Recovery, Pausable
<1>4. to # NoState
  BY DEF State, Active, Recovery, Terminal, NoState
<1>5. /\ Update(to) = [to |-> to, from |-> session.state, resume |-> n,
                       pending |-> session.pendingPause]
      /\ session.pendingPause \in BOOLEAN
  BY DEF Update, Session
<1> HIDE DEF n
<1> QED BY <1>1, <1>2, <1>3, <1>4, <1>5 DEF UpdateSound, UpdateRow, NoUpdate

-----------------------------------------------------------------------------
(* What is left of a request *)

LEMMA SoundGrows ==
    ASSUME NEW todo, NEW pl, NEW lg, NEW pl2, NEW lg2,
           ProgramSound(todo, pl, lg), Grows(pl, lg, pl2, lg2)
    PROVE  ProgramSound(todo, pl2, lg2)
<1>1. ASSUME NEW i \in 1..Len(todo)
      PROVE  StepSound(todo, i, pl2, lg2)
  <2>1. StepSound(todo, i, pl, lg)
    BY <1>1 DEF ProgramSound
  <2>2. \A event, p : HasLogged(todo, i, lg, event, p) => HasLogged(todo, i, lg2, event, p)
    BY DEF HasLogged, Grows
  <2>3. \A p \in Plan : \A v : HasVerdict(todo, i, pl, p, v) => HasVerdict(todo, i, pl2, p, v)
    BY DEF HasVerdict, Grows
  <2>4. todo[i].do = "status" => Justified(todo, i, pl2, lg2)
    BY <2>1, <2>2, <2>3 DEF StepSound, Justified
  <2> QED BY <2>1, <2>4 DEF StepSound, Grows
<1> QED BY <1>1 DEF ProgramSound

LEMMA TailFacts ==
    ASSUME NEW todo \in Seq(StepRow), todo # <<>>
    PROVE  /\ Tail(todo) \in Seq(StepRow)
           /\ Head(todo) = todo[1]
           /\ todo[1] \in StepRow
           /\ Len(todo) \in Nat \ {0}
           /\ Len(Tail(todo)) = Len(todo) - 1
           /\ \A i \in 1..Len(Tail(todo)) : Tail(todo)[i] = todo[i + 1]
  OBVIOUS

\* A step was taken: what it stands for is now in the tables.
Taken(step, pl, lg) ==
    /\ step.do = "log" => <<step.arg, step.plan>> \in lg
    /\ step.do = "insert" => pl[step.plan].status # "none" /\ pl[step.plan].verdict = step.arg

LEMMA SoundTail ==
    ASSUME NEW todo, NEW pl, NEW lg, ProgramSound(todo, pl, lg), todo # <<>>,
           Taken(todo[1], pl, lg)
    PROVE  ProgramSound(Tail(todo), pl, lg)
<1> DEFINE t == Tail(todo)
<1>1. /\ todo \in Seq(StepRow)
      /\ t \in Seq(StepRow)
      /\ todo[1] \in StepRow
      /\ Len(todo) \in Nat \ {0}
      /\ Len(t) = Len(todo) - 1
      /\ \A i \in 1..Len(t) : t[i] = todo[i + 1]
  BY TailFacts DEF ProgramSound
<1> HIDE DEF t
<1>2. ASSUME NEW i \in 1..Len(t)
      PROVE  StepSound(t, i, pl, lg)
  <2>1. /\ i + 1 \in 1..Len(todo)
        /\ i + 1 # 1
        /\ t[i] = todo[i + 1]
    BY <1>1
  <2>2. StepSound(todo, i + 1, pl, lg)
    BY <2>1 DEF ProgramSound
  <2>3. t[i].do # "insert"
    BY <2>1, <2>2 DEF StepSound
  <2>4. t[i].plan \in Plan => pl[t[i].plan].status # "none"
    BY <2>1, <2>2 DEF StepSound, Taken
  <2>5. ASSUME NEW event, NEW p, HasLogged(todo, i + 1, lg, event, p)
        PROVE  HasLogged(t, i, lg, event, p)
    <3>1. CASE <<event, p>> \in lg
      BY <3>1 DEF HasLogged
    <3>2. ASSUME NEW j \in 1..((i + 1) - 1), todo[j] = Do("log", event, p)
          PROVE  HasLogged(t, i, lg, event, p)
      <4>1. CASE j = 1
        BY <3>2, <4>1 DEF Taken, Do, HasLogged
      <4>2. CASE j # 1
        <5>1. j - 1 \in 1..(i - 1) /\ j - 1 \in 1..Len(t) /\ (j - 1) + 1 = j
          BY <4>2, <1>1
        <5>2. t[j - 1] = Do("log", event, p)
          BY <5>1, <3>2, <1>1
        <5> QED BY <5>1, <5>2 DEF HasLogged
      <4> QED BY <4>1, <4>2
    <3> QED BY <2>5, <3>1, <3>2 DEF HasLogged
  <2>6. ASSUME NEW p, NEW v, HasVerdict(todo, i + 1, pl, p, v)
        PROVE  HasVerdict(t, i, pl, p, v)
    BY <2>6 DEF HasVerdict, Taken, Do
  <2>7. t[i].do = "status" => t[i].plan \in Plan /\ Justified(t, i, pl, lg)
    BY <2>1, <2>2, <2>5, <2>6 DEF StepSound, Justified
  <2> QED BY <2>3, <2>4, <2>7 DEF StepSound
<1> QED BY <1>1, <1>2 DEF ProgramSound, t

\* The deferred pause takes the place of a transition, which justifies nothing.
LEMMA SoundPause ==
    ASSUME NEW todo, NEW pl, NEW lg, ProgramSound(todo, pl, lg), todo # <<>>,
           todo[1].do = "transition"
    PROVE  ProgramSound([todo EXCEPT ![1] = Transition("pause")], pl, lg)
<1> DEFINE t == [todo EXCEPT ![1] = Transition("pause")]
<1>1. /\ Transition("pause") \in StepRow
      /\ Transition("pause").do = "transition"
      /\ Transition("pause").plan = NoPlan
  BY DEF Transition, Do, StepRow, Argument
<1>2. /\ todo \in Seq(StepRow)
      /\ Len(todo) \in Nat \ {0}
  BY TailFacts DEF ProgramSound
<1>3. /\ t \in Seq(StepRow)
      /\ Len(t) = Len(todo)
      /\ t[1] = Transition("pause")
      /\ \A i \in 1..Len(todo) : i # 1 => t[i] = todo[i]
  BY <1>1, <1>2
<1> HIDE DEF t
<1>4. ASSUME NEW i \in 1..Len(t)
      PROVE  StepSound(t, i, pl, lg)
  <2>1. CASE i = 1
    BY <2>1, <1>1, <1>3, ConstantsAssumption DEF StepSound
  <2>2. CASE i # 1
    <3>1. StepSound(todo, i, pl, lg) /\ t[i] = todo[i]
      BY <1>3, <2>2 DEF ProgramSound
    <3>2. \A event, p : HasLogged(todo, i, lg, event, p) => HasLogged(t, i, lg, event, p)
      <4>1. SUFFICES ASSUME NEW event, NEW p, NEW j \in 1..(i - 1), todo[j] = Do("log", event, p)
                     PROVE  t[j] = Do("log", event, p)
        BY DEF HasLogged
      <4>2. j # 1 /\ j \in 1..Len(todo)
        BY <4>1, <1>3 DEF Do
      <4> QED BY <4>1, <4>2, <1>3
    <3>3. \A p, v : HasVerdict(todo, i, pl, p, v) => HasVerdict(t, i, pl, p, v)
      BY DEF HasVerdict, Do
    <3>4. t[i].do = "status" => Justified(t, i, pl, lg)
      BY <3>1, <3>2, <3>3 DEF StepSound, Justified
    <3> QED BY <3>1, <3>4, <2>2 DEF StepSound
  <2> QED BY <2>1, <2>2
<1> QED BY <1>3, <1>4 DEF ProgramSound, t

LEMMA SoundEmpty ==
    ASSUME NEW pl, NEW lg PROVE ProgramSound(<<>>, pl, lg)
  BY DEF ProgramSound

\* A request of one step that neither inserts nor decides a plan.
LEMMA SoundSingle ==
    ASSUME NEW pl, NEW lg, NEW step \in StepRow, step.do \notin {"insert", "status"},
           step.plan = NoPlan
    PROVE  /\ ProgramSound(<<step>>, pl, lg)
           /\ <<step>>[1] = step
<1>1. <<step>> \in Seq(StepRow) /\ Len(<<step>>) = 1 /\ <<step>>[1] = step
  OBVIOUS
<1>2. StepSound(<<step>>, 1, pl, lg)
  BY <1>1, ConstantsAssumption DEF StepSound
<1> QED BY <1>1, <1>2 DEF ProgramSound

LEMMA ThreeSteps ==
    ASSUME NEW S, NEW a \in S, NEW b \in S, NEW c \in S
    PROVE  /\ <<a, b, c>> \in Seq(S)
           /\ Len(<<a, b, c>>) = 3
           /\ <<a, b, c>>[1] = a
           /\ <<a, b, c>>[2] = b
           /\ <<a, b, c>>[3] = c
  OBVIOUS

LEMMA FiveSteps ==
    ASSUME NEW S, NEW a \in S, NEW b \in S, NEW c \in S, NEW d \in S, NEW e \in S
    PROVE  /\ <<a, b, c, d, e>> \in Seq(S)
           /\ Len(<<a, b, c, d, e>>) = 5
           /\ <<a, b, c, d, e>>[1] = a
           /\ <<a, b, c, d, e>>[2] = b
           /\ <<a, b, c, d, e>>[3] = c
           /\ <<a, b, c, d, e>>[4] = d
           /\ <<a, b, c, d, e>>[5] = e
  OBVIOUS

LEMMA TransitionRow ==
    ASSUME NEW trigger \in Argument
    PROVE  /\ Transition(trigger) \in StepRow
           /\ Transition(trigger).do = "transition"
           /\ Transition(trigger).plan = NoPlan
  BY DEF Transition, Do, StepRow

LEMMA SoundResume ==
    ASSUME NEW pl, NEW lg
    PROVE  ProgramSound(Resume, pl, lg) /\ Resume[1].do # "insert"
<1> DEFINE a == Transition("resume_requested")
           b == Transition("reauth_granted")
           c == Transition("checkpoint_validated")
<1>3. a \in StepRow /\ b \in StepRow /\ c \in StepRow
  BY TransitionRow DEF Argument
<1>4. /\ a.do = "transition" /\ b.do = "transition" /\ c.do = "transition"
      /\ a.plan = NoPlan /\ b.plan = NoPlan /\ c.plan = NoPlan
  BY TransitionRow DEF Argument
<1>5. Resume = <<a, b, c>>
  BY DEF Resume
<1> HIDE DEF a, b, c
<1>1. /\ Resume \in Seq(StepRow)
      /\ Len(Resume) = 3
      /\ \A i \in 1..3 : Resume[i].do = "transition" /\ Resume[i].plan = NoPlan
  BY <1>3, <1>4, <1>5, ThreeSteps
<1>2. \A i \in 1..3 : StepSound(Resume, i, pl, lg)
  BY <1>1, ConstantsAssumption DEF StepSound
<1> QED BY <1>1, <1>2 DEF ProgramSound

\* A decision writes the row after the log.
LEMMA SoundDecision ==
    ASSUME NEW pl, NEW lg, NEW p \in Plan, pl[p].status # "none",
           NEW event, NEW trigger, NEW status,
           \/ event = "plan.approved" /\ trigger = "approve" /\ status = "approved"
           \/ event = "plan.rejected" /\ trigger = "reject" /\ status = "rejected"
    PROVE  /\ ProgramSound(Decision(p, event, trigger, status), pl, lg)
           /\ Decision(p, event, trigger, status)[1].do # "insert"
<1> DEFINE t == Decision(p, event, trigger, status)
<1>1. /\ Do("plan", "", p) \in StepRow /\ Do("awaiting", "", p) \in StepRow
      /\ Do("log", event, p) \in StepRow /\ Do("status", status, p) \in StepRow
  BY DEF Do, StepRow, Argument
<1>2. /\ Transition(trigger) \in StepRow
      /\ Transition(trigger).do = "transition"
      /\ Transition(trigger).plan = NoPlan
  BY TransitionRow DEF Argument
<1>3. /\ t \in Seq(StepRow)
      /\ Len(t) = 5
      /\ t[1] = Do("plan", "", p)
      /\ t[2] = Do("awaiting", "", p)
      /\ t[3] = Do("log", event, p)
      /\ t[4] = Transition(trigger)
      /\ t[5] = Do("status", status, p)
  <2> DEFINE a == Do("plan", "", p)
             b == Do("awaiting", "", p)
             c == Do("log", event, p)
             d == Transition(trigger)
             e == Do("status", status, p)
  <2>1. t = <<a, b, c, d, e>>
    BY DEF Decision
  <2>2. a \in StepRow /\ b \in StepRow /\ c \in StepRow /\ d \in StepRow /\ e \in StepRow
    BY <1>1, <1>2
  <2> HIDE DEF a, b, c, d, e, t
  <2>3. /\ t \in Seq(StepRow) /\ Len(t) = 5
        /\ t[1] = a /\ t[2] = b /\ t[3] = c /\ t[4] = d /\ t[5] = e
    BY <2>1, <2>2, FiveSteps
  <2> QED BY <2>3 DEF a, b, c, d, e
<1> HIDE DEF t
<1>7. /\ Do("plan", "", p).do = "plan" /\ Do("plan", "", p).plan = p
      /\ Do("awaiting", "", p).do = "awaiting" /\ Do("awaiting", "", p).plan = p
      /\ Do("log", event, p).do = "log" /\ Do("log", event, p).plan = p
  BY DEF Do
<1>8. /\ Do("status", status, p).do = "status"
      /\ Do("status", status, p).arg = status
      /\ Do("status", status, p).plan = p
  BY DEF Do
<1>9. /\ t[1] = Do("plan", "", p) /\ t[2] = Do("awaiting", "", p)
      /\ t[3] = Do("log", event, p) /\ t[4] = Transition(trigger)
      /\ t[5] = Do("status", status, p)
  BY <1>3, Zenon
<1>12. Len(t) = 5
  BY <1>3, Zenon
<1>4. /\ t[1].do = "plan" /\ t[2].do = "awaiting" /\ t[3].do = "log"
      /\ t[1].plan = p /\ t[2].plan = p /\ t[3].plan = p
      /\ t[5].do = "status" /\ t[5].arg = status /\ t[5].plan = p
      /\ t[4].do = "transition" /\ t[4].plan = NoPlan
  BY <1>2, <1>7, <1>8, <1>9, Zenon
<1>5. HasLogged(t, 5, lg, event, p)
  <2>1. t[3] = Do("log", event, p)
    BY <1>3
  <2>2. 3 \in 1..(5 - 1)
    OBVIOUS
  <2> QED BY <2>1, <2>2 DEF HasLogged
<1>6. StepSound(t, 5, pl, lg)
  BY <1>4, <1>5 DEF StepSound, Justified
<1>13. \A i \in 1..4 : StepSound(t, i, pl, lg)
  BY <1>4, ConstantsAssumption DEF StepSound
<1>10. ASSUME NEW i \in 1..Len(t)
       PROVE  StepSound(t, i, pl, lg)
  <2>1. i = 5 \/ i \in 1..4
    BY <1>12
  <2> QED BY <2>1, <1>6, <1>13
<1>11. t \in Seq(StepRow) /\ t[1].do # "insert"
  BY <1>3, <1>4
<1> QED BY <1>10, <1>11 DEF ProgramSound, t

LEMMA SoundCreate ==
    ASSUME NEW pl, NEW lg, NEW p \in Plan, NEW verdict \in Verdict
    PROVE  /\ ProgramSound(CreatePlan(p, verdict), pl, lg)
           /\ \A q \in Plan : Inserts(CreatePlan(p, verdict), q) => q = p
<1> DEFINE first == Do("insert", verdict, p)
           t(trigger, status) == <<first, Transition(trigger), Do("status", status, p)>>
<1>1. first \in StepRow /\ first.do = "insert" /\ first.arg = verdict /\ first.plan = p
  BY DEF Do, StepRow, Argument
<1>2. ASSUME NEW trigger \in Argument, NEW status,
             \/ status = "executing" /\ verdict = "approved"
             \/ status = "rejected" /\ verdict = "denied"
      PROVE  ProgramSound(t(trigger, status), pl, lg) /\ t(trigger, status)[1] = first
  <2> DEFINE todo == t(trigger, status)
  <2>1. /\ Do("status", status, p) \in StepRow
        /\ Do("status", status, p).do = "status"
        /\ Do("status", status, p).arg = status
        /\ Do("status", status, p).plan = p
    BY <1>2 DEF Do, StepRow, Argument
  <2>2. /\ Transition(trigger) \in StepRow
        /\ Transition(trigger).do = "transition"
        /\ Transition(trigger).plan = NoPlan
    BY <1>2, TransitionRow
  <2>3. /\ todo \in Seq(StepRow)
        /\ Len(todo) = 3
        /\ todo[1] = first
        /\ todo[2] = Transition(trigger)
        /\ todo[3] = Do("status", status, p)
    BY <1>1, <2>1, <2>2
  <2> HIDE DEF todo, first
  <2>4. HasVerdict(todo, 3, pl, p, verdict)
    BY <2>3 DEF HasVerdict, first
  <2>5. StepSound(todo, 3, pl, lg)
    BY <1>1, <1>2, <2>1, <2>3, <2>4 DEF StepSound, Justified
  <2>6. StepSound(todo, 1, pl, lg) /\ StepSound(todo, 2, pl, lg)
    BY <1>1, <2>2, <2>3, ConstantsAssumption DEF StepSound
  <2> QED BY <2>3, <2>5, <2>6 DEF ProgramSound, todo
<1>3. ASSUME verdict = "approval_required"
      PROVE  /\ ProgramSound(CreatePlan(p, verdict), pl, lg)
             /\ CreatePlan(p, verdict)[1] = first
  <2> DEFINE todo == <<first, Transition("require_approval")>>
  <2>1. /\ Transition("require_approval") \in StepRow
        /\ Transition("require_approval").do = "transition"
        /\ Transition("require_approval").plan = NoPlan
    BY TransitionRow DEF Argument
  <2>2. /\ todo \in Seq(StepRow)
        /\ Len(todo) = 2
        /\ todo[1] = first
        /\ todo[2] = Transition("require_approval")
    BY <1>1, <2>1
  <2>3. CreatePlan(p, verdict) = todo
    BY <1>3 DEF CreatePlan
  <2> HIDE DEF todo, first
  <2>4. StepSound(todo, 1, pl, lg) /\ StepSound(todo, 2, pl, lg)
    BY <1>1, <2>1, <2>2, ConstantsAssumption DEF StepSound
  <2>5. ASSUME NEW i \in 1..Len(todo)
        PROVE  StepSound(todo, i, pl, lg)
    <3>1. i = 1 \/ i = 2
      BY <2>2
    <3> QED BY <2>4, <3>1
  <2>6. ProgramSound(todo, pl, lg) /\ todo[1] = first
    BY <2>2, <2>5 DEF ProgramSound
  <2> QED BY <2>3, <2>6
<1>4. CASE verdict = "approved"
  <2>1. CreatePlan(p, verdict) = t("auto_approved", "executing")
    BY <1>4 DEF CreatePlan
  <2> QED BY <1>1, <1>2, <1>4, <2>1 DEF Inserts, Argument
<1>5. CASE verdict = "denied"
  <2>1. CreatePlan(p, verdict) = t("plan_rejected", "rejected")
    BY <1>5 DEF CreatePlan
  <2> QED BY <1>1, <1>2, <1>5, <2>1 DEF Inserts, Argument
<1> QED BY <1>1, <1>3, <1>4, <1>5 DEF Verdict, Inserts

-----------------------------------------------------------------------------
(* The requests of the others *)

\* What holds of the requests after h's has become c, if the tables only grew and
\* no row appeared that another request is about to insert.
LEMMA CallStep ==
    ASSUME IInv, NEW h \in Handler, NEW c \in [todo : Seq(StepRow), update : UpdateRow],
           call' = [call EXCEPT ![h] = c],
           Grows(plan, logged, plan', logged'),
           CallSound(c)',
           \A p \in Plan : Inserts(c.todo, p) =>
              /\ plan'[p].status = "none"
              /\ \A g \in Handler \ {h} : ~ Inserts(call[g].todo, p),
           \A p \in Plan, g \in Handler \ {h} :
              Inserts(call[g].todo, p) => plan'[p].status = "none"
    PROVE  /\ call' \in [Handler -> [todo : Seq(StepRow), update : UpdateRow]]
           /\ \A g \in Handler : CallSound(call[g])'
           /\ InsertsApart'
<1>1. /\ call'[h] = c
      /\ \A g \in Handler \ {h} : call'[g] = call[g]
      /\ call' \in [Handler -> [todo : Seq(StepRow), update : UpdateRow]]
  BY DEF IInv
<1>2. ASSUME NEW g \in Handler
      PROVE  CallSound(call[g])'
  <2>1. CASE g = h
    BY <1>1, <2>1 DEF CallSound
  <2>2. CASE g # h
    <3>1. CallSound(call[g]) /\ call'[g] = call[g]
      BY <1>1, <2>2 DEF IInv
    <3>2. ProgramSound(call[g].todo, plan', logged')
      BY <3>1, SoundGrows DEF CallSound
    <3> QED BY <3>1, <3>2 DEF CallSound
  <2> QED BY <2>1, <2>2
<1>3. ASSUME NEW g \in Handler, NEW p \in Plan, Inserts(call'[g].todo, p)
      PROVE  /\ plan'[p].status = "none"
             /\ \A k \in Handler \ {g} : ~ Inserts(call'[k].todo, p)
  <2>1. CASE g = h
    BY <1>1, <1>3, <2>1
  <2>2. CASE g # h
    <3>1. Inserts(call[g].todo, p) /\ plan'[p].status = "none"
      BY <1>1, <1>3, <2>2
    <3>2. \A k \in Handler \ {g} : ~ Inserts(call[k].todo, p)
      BY <3>1 DEF IInv, InsertsApart
    <3>3. ~ Inserts(c.todo, p)
      BY <3>1, <2>2
    <3> QED BY <1>1, <3>1, <3>2, <3>3
  <2> QED BY <2>1, <2>2
<1>4. InsertsApart'
  BY <1>3 DEF InsertsApart
<1> QED BY <1>1, <1>2, <1>4

\* After the first step of a request nothing is left to insert.
LEMMA TailInserts ==
    ASSUME NEW todo, NEW pl, NEW lg, ProgramSound(todo, pl, lg), todo # <<>>, NEW p
    PROVE  ~ Inserts(Tail(todo), p)
<1>1. /\ todo \in Seq(StepRow)
      /\ Len(todo) \in Nat \ {0}
      /\ Len(Tail(todo)) = Len(todo) - 1
      /\ \A i \in 1..Len(Tail(todo)) : Tail(todo)[i] = todo[i + 1]
      /\ Tail(todo) \in Seq(StepRow)
  BY TailFacts DEF ProgramSound
<1>2. CASE Tail(todo) = <<>>
  BY <1>2 DEF Inserts
<1>3. CASE Tail(todo) # <<>>
  <2>1. Len(Tail(todo)) # 0
    BY <1>1, <1>3
  <2>2. 1 \in 1..Len(Tail(todo)) /\ 2 \in 1..Len(todo)
    BY <1>1, <2>1
  <2>3. Tail(todo)[1] = todo[2]
    BY <1>1, <2>2
  <2>4. todo[2].do # "insert"
    BY <2>2 DEF ProgramSound, StepSound
  <2> QED BY <2>3, <2>4 DEF Inserts
<1> QED BY <1>2, <1>3

LEMMA TodoExcept ==
    ASSUME NEW S, NEW U, NEW r \in [todo : S, update : U], NEW t
    PROVE  [r EXCEPT !.todo = t] = [todo |-> t, update |-> r.update]
  OBVIOUS

\* Request h took its first step and nothing else of it changed.
LEMMA AdvanceStep ==
    ASSUME IInv, NEW h \in Handler, call[h].todo # <<>>, call[h].update = NoUpdate,
           Advance(h),
           Grows(plan, logged, plan', logged'),
           Taken(call[h].todo[1], plan', logged'),
           \A p \in Plan, g \in Handler \ {h} :
              Inserts(call[g].todo, p) => plan'[p].status = "none"
    PROVE  /\ call' \in [Handler -> [todo : Seq(StepRow), update : UpdateRow]]
           /\ \A g \in Handler : CallSound(call[g])'
           /\ InsertsApart'
<1>0. PICK c : c = [todo |-> Tail(call[h].todo), update |-> NoUpdate]
  OBVIOUS
<1>1. /\ call[h] \in [todo : Seq(StepRow), update : UpdateRow]
      /\ ProgramSound(call[h].todo, plan, logged)
  BY DEF IInv, CallSound
<1>2. Tail(call[h].todo) \in Seq(StepRow)
  BY <1>1, TailFacts
<1>3. c \in [todo : Seq(StepRow), update : UpdateRow]
  BY <1>0, <1>1, <1>2
<1>4. call' = [call EXCEPT ![h] = c]
  <2>1. [call[h] EXCEPT !.todo = Tail(call[h].todo)] = c
    BY <1>0, <1>1, TodoExcept
  <2> QED BY <2>1 DEF Advance, IInv
<1>5. ProgramSound(c.todo, plan', logged')
  BY <1>0, <1>1, SoundGrows, SoundTail
<1>6. CallSound(c)'
  BY <1>0, <1>5 DEF CallSound, UpdateSound
<1>7. \A p \in Plan : ~ Inserts(c.todo, p)
  BY <1>0, <1>1, TailInserts
<1> QED BY <1>3, <1>4, <1>6, <1>7, CallStep

\* Request h was answered.
LEMMA RaiseStep ==
    ASSUME IInv, NEW h \in Handler, Raise(h), UNCHANGED <<plan, logged>>
    PROVE  /\ call' \in [Handler -> [todo : Seq(StepRow), update : UpdateRow]]
           /\ \A g \in Handler : CallSound(call[g])'
           /\ InsertsApart'
<1>1. Free \in [todo : Seq(StepRow), update : UpdateRow]
  BY DEF Free, UpdateRow, NoUpdate
<1>2. CallSound(Free)'
  BY SoundEmpty DEF CallSound, Free, UpdateSound
<1>3. \A p : ~ Inserts(Free.todo, p)
  BY DEF Free, Inserts
<1>4. Grows(plan, logged, plan', logged')
  BY DEF Grows
<1>5. \A p \in Plan, g \in Handler : Inserts(call[g].todo, p) => plan'[p].status = "none"
  BY DEF IInv, InsertsApart
<1> QED BY <1>1, <1>2, <1>3, <1>4, <1>5, CallStep DEF Raise

LEMMA Quiet ==
    ASSUME IInv, UNCHANGED <<session, plan, logged>>
    PROVE  TypeOK' /\ CheckpointValid' /\ StopRevokes' /\ DecisionIsRecorded'
<1>1. TypeOK'
  BY DEF IInv, TypeOK
<1>2. CheckpointValid'
  BY DEF IInv, CheckpointValid
<1>3. StopRevokes'
  BY DEF IInv, StopRevokes
<1>4. DecisionIsRecorded'
  BY DEF IInv, DecisionIsRecorded
<1> QED BY <1>1, <1>2, <1>3, <1>4

-----------------------------------------------------------------------------
(* One lemma per step of a request *)

\* The first step of a request that is not inside a transition.
LEMMA AtFacts ==
    ASSUME IInv, NEW h \in Handler, NEW what, At(h, what)
    PROVE  /\ call[h].todo # <<>>
           /\ call[h].todo \in Seq(StepRow)
           /\ Head(call[h].todo) = call[h].todo[1]
           /\ call[h].todo[1].do = what
           /\ call[h].todo[1] \in StepRow
           /\ call[h].update = NoUpdate
           /\ StepSound(call[h].todo, 1, plan, logged)
<1>1. call[h].todo \in Seq(StepRow) /\ ProgramSound(call[h].todo, plan, logged)
  BY DEF IInv, CallSound, ProgramSound
<1>2. call[h].todo # <<>> /\ Head(call[h].todo).do = what /\ call[h].update = NoUpdate
  BY DEF At
<1>3. /\ Head(call[h].todo) = call[h].todo[1]
      /\ call[h].todo[1] \in StepRow
      /\ 1 \in 1..Len(call[h].todo)
  BY <1>1, <1>2, TailFacts
<1> QED BY <1>1, <1>2, <1>3 DEF ProgramSound

LEMMA Unchanging ==
    ASSUME UNCHANGED <<plan, logged>>
    PROVE  Grows(plan, logged, plan', logged')
  BY DEF Grows

LEMMA ReceiveInvariant ==
    ASSUME IInv, NEW h \in Handler, Receive(h)
    PROVE  IInv'
<1>1. PICK r \in OperatorRequests \union (IF h \in Pipeline THEN PipelineRequests ELSE {}) :
         call' = [call EXCEPT ![h].todo = r]
  BY DEF Receive
<1>2. /\ call[h] = Free
      /\ UNCHANGED <<session, plan, logged>>
  BY DEF Receive
<1>3. /\ ProgramSound(r, plan, logged)
      /\ \A p \in Plan : Inserts(r, p) => p \in FreshPlans
  <2>1. CASE r = Pause
    <3>1. /\ Do("pause", "", NoPlan) \in StepRow
          /\ Do("pause", "", NoPlan).do = "pause"
          /\ Do("pause", "", NoPlan).plan = NoPlan
      BY DEF Do, StepRow, Argument
    <3>2. ProgramSound(r, plan, logged) /\ r[1].do = "pause"
      BY <2>1, <3>1, SoundSingle DEF Pause
    <3> QED BY <3>2 DEF Inserts
  <2>2. ASSUME NEW t \in Argument, r = <<Transition(t)>>
        PROVE  /\ ProgramSound(r, plan, logged)
               /\ \A p \in Plan : Inserts(r, p) => p \in FreshPlans
    <3>1. ProgramSound(r, plan, logged) /\ r[1].do = "transition"
      BY <2>2, TransitionRow, SoundSingle
    <3> QED BY <3>1 DEF Inserts
  <2>3. CASE r \in {Cancel, EmergencyStop}
    <3>1. {"cancel", "emergency_stop"} \subseteq Argument
      BY DEF Argument
    <3> QED BY <2>2, <2>3, <3>1 DEF Cancel, EmergencyStop
  <2>4. CASE r = Resume
    BY <2>4, SoundResume DEF Inserts
  <2>5. ASSUME NEW p \in Plan, plan[p].status # "none", r \in {ApprovePlan(p), RejectPlan(p)}
        PROVE  /\ ProgramSound(r, plan, logged)
               /\ \A q \in Plan : Inserts(r, q) => q \in FreshPlans
    <3>1. ProgramSound(r, plan, logged) /\ r[1].do # "insert"
      BY <2>5, SoundDecision DEF ApprovePlan, RejectPlan
    <3> QED BY <3>1 DEF Inserts
  <2>6. CASE \E t \in Triggers : r = <<Transition(t)>>
    BY <2>2, <2>6 DEF Argument
  <2>7. CASE \E p \in FreshPlans, v \in Verdict : r = CreatePlan(p, v)
    <3>1. PICK p \in FreshPlans, v \in Verdict : r = CreatePlan(p, v)
      BY <2>7
    <3>2. p \in Plan
      BY <3>1 DEF FreshPlans
    <3> QED BY <3>1, <3>2, SoundCreate
  <2>8. r \in OperatorRequests \union PipelineRequests
    BY <1>1
  <2> QED BY <2>1, <2>3, <2>4, <2>5, <2>6, <2>7, <2>8 DEF OperatorRequests, PipelineRequests
<1>4. PICK c : c = [todo |-> r, update |-> NoUpdate]
  OBVIOUS
<1>5. call' = [call EXCEPT ![h] = c]
  <2>1. call[h] \in [todo : Seq(StepRow), update : UpdateRow] /\ call[h].update = NoUpdate
    BY <1>2 DEF IInv, Free
  <2>2. [call[h] EXCEPT !.todo = r] = c
    BY <1>4, <2>1, TodoExcept
  <2> QED BY <1>1, <2>2 DEF IInv
<1>6. c \in [todo : Seq(StepRow), update : UpdateRow]
  BY <1>3, <1>4 DEF ProgramSound, UpdateRow, NoUpdate
<1>7. CallSound(c)'
  BY <1>2, <1>3, <1>4 DEF CallSound, UpdateSound
<1>8. \A p \in Plan : Inserts(c.todo, p) =>
         /\ plan'[p].status = "none"
         /\ \A g \in Handler \ {h} : ~ Inserts(call[g].todo, p)
  <2>1. \A p \in Plan, g \in Handler : p \in FreshPlans => ~ Inserts(call[g].todo, p)
    <3>1. SUFFICES ASSUME NEW p \in FreshPlans, NEW g \in Handler, Inserts(call[g].todo, p)
                   PROVE  FALSE
      OBVIOUS
    <3>2. call[g].todo \in Seq(StepRow) /\ call[g].todo # <<>> /\ call[g].todo[1].plan = p
      BY <3>1 DEF IInv, Inserts
    <3>3. Head(call[g].todo).plan = p
      BY <3>2, TailFacts
    <3> QED BY <3>1, <3>2, <3>3 DEF FreshPlans
  <2> QED BY <1>2, <1>3, <1>4, <2>1 DEF FreshPlans
<1>9. \A p \in Plan, g \in Handler : Inserts(call[g].todo, p) => plan'[p].status = "none"
  BY <1>2 DEF IInv, InsertsApart
<1>10. Grows(plan, logged, plan', logged')
  BY <1>2, Unchanging
<1>11. /\ call' \in [Handler -> [todo : Seq(StepRow), update : UpdateRow]]
       /\ \A g \in Handler : CallSound(call[g])'
       /\ InsertsApart'
  BY <1>5, <1>6, <1>7, <1>8, <1>9, <1>10, CallStep
<1>12. TypeOK' /\ CheckpointValid' /\ StopRevokes' /\ DecisionIsRecorded'
  BY <1>2, Quiet
<1> QED BY <1>11, <1>12 DEF IInv

LEMMA ReadSessionInvariant ==
    ASSUME IInv, NEW h \in Handler, ReadSession(h)
    PROVE  IInv'
<1>1. /\ At(h, "transition")
      /\ UNCHANGED <<session, plan, logged>>
  BY DEF ReadSession
<1>2. TypeOK' /\ CheckpointValid' /\ StopRevokes' /\ DecisionIsRecorded'
  BY <1>1, Quiet
<1>3. CASE Raise(h)
  BY <1>1, <1>2, <1>3, RaiseStep DEF IInv
<1>4. ASSUME NEW to \in State, Leads(session, Head(call[h].todo).arg, to),
             call' = [call EXCEPT ![h].update = Update(to)]
      PROVE  IInv'
  <2>1. PICK u : u = Update(to)
    OBVIOUS
  <2>2. UpdateSound(u) /\ u \in UpdateRow
    BY <1>4, <2>1, UpdateIsSound DEF IInv, TypeOK
  <2>3. PICK c : c = [todo |-> call[h].todo, update |-> u]
    OBVIOUS
  <2>4. /\ call[h] \in [todo : Seq(StepRow), update : UpdateRow]
        /\ ProgramSound(call[h].todo, plan, logged)
    BY DEF IInv, CallSound
  <2>5. call' = [call EXCEPT ![h] = c]
    <3>1. [call[h] EXCEPT !.update = u] = c
      BY <2>3, <2>4
    <3> QED BY <1>4, <2>1, <3>1 DEF IInv
  <2>6. c \in [todo : Seq(StepRow), update : UpdateRow]
    BY <2>2, <2>3, <2>4
  <2>7. call[h].todo # <<>> /\ call[h].todo[1].do = "transition"
    BY <1>1, AtFacts
  <2>8. CallSound(c)'
    BY <1>1, <2>2, <2>3, <2>4, <2>7 DEF CallSound
  <2>9. \A p \in Plan : ~ Inserts(c.todo, p)
    BY <2>3, <2>7 DEF Inserts
  <2>10. \A p \in Plan, g \in Handler : Inserts(call[g].todo, p) => plan'[p].status = "none"
    BY <1>1 DEF IInv, InsertsApart
  <2>11. Grows(plan, logged, plan', logged')
    BY <1>1, Unchanging
  <2>12. /\ call' \in [Handler -> [todo : Seq(StepRow), update : UpdateRow]]
         /\ \A g \in Handler : CallSound(call[g])'
         /\ InsertsApart'
    BY <2>5, <2>6, <2>8, <2>9, <2>10, <2>11, CallStep
  <2> QED BY <1>2, <2>12 DEF IInv
<1> QED BY <1>3, <1>4 DEF ReadSession
LEMMA ApplyTransitionInvariant ==
    ASSUME IInv, NEW h \in Handler, ApplyTransition(h)
    PROVE  IInv'
<1>1. PICK u : u = call[h].update
  OBVIOUS
<1>2. PICK c : c = [todo |-> Continued(call[h].todo, u), update |-> NoUpdate]
  OBVIOUS
<1>3. /\ u # NoUpdate
      /\ session' = Applied(u)
      /\ logged' = logged \union TransitionEvents(u)
      /\ call' = [call EXCEPT ![h] = c]
      /\ plan' = plan
  BY <1>1, <1>2 DEF ApplyTransition
<1>4. /\ u \in UpdateRow
      /\ u.to \in State
      /\ u.from \in State \ Terminal
      /\ u.to \in {"PAUSED"} \union Recovery => u.resume \in Pausable
  BY <1>1, <1>3 DEF IInv, CallSound, UpdateSound
<1>5. /\ call[h] \in [todo : Seq(StepRow), update : UpdateRow]
      /\ call[h].todo # <<>>
      /\ call[h].todo[1].do = "transition"
      /\ ProgramSound(call[h].todo, plan, logged)
  BY <1>1, <1>3 DEF IInv, CallSound
<1>6. Grows(plan, logged, plan', logged')
  BY <1>3 DEF Grows
<1>7. ProgramSound(c.todo, plan', logged') /\ \A p \in Plan : ~ Inserts(c.todo, p)
  <2>1. ProgramSound(call[h].todo, plan', logged')
    BY <1>5, <1>6, SoundGrows
  <2>2. CASE c.todo = Tail(call[h].todo)
    <3>1. Taken(call[h].todo[1], plan', logged')
      BY <1>5 DEF Taken
    <3> QED BY <1>5, <2>1, <2>2, <3>1, SoundTail, TailInserts
  <2>3. CASE c.todo = [call[h].todo EXCEPT ![1] = Transition("pause")]
    <3>1. call[h].todo \in Seq(StepRow) /\ 1 \in DOMAIN call[h].todo
      BY <1>5, TailFacts
    <3>2. c.todo[1] = Transition("pause")
      BY <2>3, <3>1
    <3>3. Transition("pause").do = "transition"
      BY TransitionRow DEF Argument
    <3> QED BY <1>5, <2>1, <2>3, <3>2, <3>3, SoundPause DEF Inserts
  <2> QED BY <1>2, <2>2, <2>3 DEF Continued
<1>8. c \in [todo : Seq(StepRow), update : UpdateRow]
  BY <1>2, <1>7 DEF ProgramSound, UpdateRow, NoUpdate
<1>9. CallSound(c)'
  BY <1>2, <1>7 DEF CallSound, UpdateSound
<1>10. \A p \in Plan, g \in Handler : Inserts(call[g].todo, p) => plan'[p].status = "none"
  BY <1>3 DEF IInv, InsertsApart
<1>11. /\ call' \in [Handler -> [todo : Seq(StepRow), update : UpdateRow]]
       /\ \A g \in Handler : CallSound(call[g])'
       /\ InsertsApart'
  BY <1>3, <1>6, <1>7, <1>8, <1>9, <1>10, CallStep
<1>12. session \in Session
  BY DEF IInv, TypeOK
<1>13. /\ session'.state = u.to
       /\ session'.previousState = u.from
       /\ session'.resumeState = u.resume
       /\ session'.pendingPause \in BOOLEAN
       /\ session'.grantsRevoked <=> session.grantsRevoked \/ u.to \in Terminal
       /\ session'.killSwitchLatched <=>
             session.killSwitchLatched \/ u.to = "EMERGENCY_STOPPED"
       /\ session' \in Session
  BY <1>3, <1>4, <1>12 DEF Applied, Session, UpdateRow
<1>14. TypeOK'
  BY <1>3, <1>13 DEF IInv, TypeOK
<1>15. CheckpointValid'
  BY <1>4, <1>13 DEF CheckpointValid
<1>16. StopRevokes'
  <2>1. u.to \in Terminal => <<"session.ended", NoPlan>> \in logged'
    BY <1>3 DEF TransitionEvents
  <2>2. u.to = "EMERGENCY_STOPPED" => <<"emergency.stop", NoPlan>> \in logged'
    BY <1>3 DEF TransitionEvents
  <2>3. logged \subseteq logged'
    BY <1>3
  <2>4. u.to = "EMERGENCY_STOPPED" => u.to \in Terminal
    BY DEF Terminal
  <2>5. StopRevokes
    BY DEF IInv
  <2> QED BY <1>13, <2>1, <2>2, <2>3, <2>4, <2>5 DEF StopRevokes
<1>17. DecisionIsRecorded'
  BY <1>3 DEF IInv, DecisionIsRecorded
<1> QED BY <1>11, <1>14, <1>15, <1>16, <1>17 DEF IInv

LEMMA DecidePauseInvariant ==
    ASSUME IInv, NEW h \in Handler, DecidePause(h)
    PROVE  IInv'
<1>1. PICK t : t = CASE PausePolicy(session.state) = "none" -> <<>>
                     [] PausePolicy(session.state) = "defer" -> <<Do("defer", "", NoPlan)>>
                     [] OTHER -> <<Transition(PausePolicy(session.state))>>
  OBVIOUS
<1>2. /\ At(h, "pause")
      /\ call' = [call EXCEPT ![h].todo = t]
      /\ UNCHANGED <<session, plan, logged>>
  BY <1>1 DEF DecidePause
<1>3. ProgramSound(t, plan, logged) /\ \A p \in Plan : ~ Inserts(t, p)
  <2>1. CASE t = <<>>
    BY <2>1, SoundEmpty DEF Inserts
  <2>2. CASE t = <<Do("defer", "", NoPlan)>>
    <3>1. /\ Do("defer", "", NoPlan) \in StepRow
          /\ Do("defer", "", NoPlan).do = "defer"
          /\ Do("defer", "", NoPlan).plan = NoPlan
      BY DEF Do, StepRow, Argument
    <3>2. ProgramSound(t, plan, logged) /\ t[1].do = "defer"
      BY <2>2, <3>1, SoundSingle
    <3> QED BY <3>2 DEF Inserts
  <2>3. CASE t = <<Transition(PausePolicy(session.state))>>
             /\ PausePolicy(session.state) \notin {"none", "defer"}
    <3>1. PICK policy : policy = PausePolicy(session.state)
      OBVIOUS
    <3>2. policy \in {"pause", "mic_cancel", "stt_cancel", "tts_cancel"}
      BY <2>3, <3>1 DEF PausePolicy
    <3>3. policy \in Argument
      BY <3>2 DEF Argument
    <3>4. ProgramSound(t, plan, logged) /\ t[1].do = "transition"
      BY <2>3, <3>1, <3>3, TransitionRow, SoundSingle
    <3> QED BY <3>4 DEF Inserts
  <2> QED BY <1>1, <2>1, <2>2, <2>3
<1>4. PICK c : c = [todo |-> t, update |-> NoUpdate]
  OBVIOUS
<1>5. call' = [call EXCEPT ![h] = c]
  <2>1. call[h] \in [todo : Seq(StepRow), update : UpdateRow] /\ call[h].update = NoUpdate
    BY <1>2 DEF IInv, At
  <2>2. [call[h] EXCEPT !.todo = t] = c
    BY <1>4, <2>1, TodoExcept
  <2> QED BY <1>2, <2>2 DEF IInv
<1>6. c \in [todo : Seq(StepRow), update : UpdateRow]
  BY <1>3, <1>4 DEF ProgramSound, UpdateRow, NoUpdate
<1>7. CallSound(c)'
  BY <1>2, <1>3, <1>4 DEF CallSound, UpdateSound
<1>8. \A p \in Plan, g \in Handler : Inserts(call[g].todo, p) => plan'[p].status = "none"
  BY <1>2 DEF IInv, InsertsApart
<1>9. Grows(plan, logged, plan', logged')
  BY <1>2, Unchanging
<1>10. /\ call' \in [Handler -> [todo : Seq(StepRow), update : UpdateRow]]
       /\ \A g \in Handler : CallSound(call[g])'
       /\ InsertsApart'
  BY <1>3, <1>4, <1>5, <1>6, <1>7, <1>8, <1>9, CallStep
<1>11. TypeOK' /\ CheckpointValid' /\ StopRevokes' /\ DecisionIsRecorded'
  BY <1>2, Quiet
<1> QED BY <1>10, <1>11 DEF IInv

LEMMA SetPendingPauseInvariant ==
    ASSUME IInv, NEW h \in Handler, SetPendingPause(h)
    PROVE  IInv'
<1>1. /\ At(h, "defer")
      /\ session' = [session EXCEPT !.pendingPause = TRUE]
      /\ Advance(h)
      /\ UNCHANGED <<plan, logged>>
  BY DEF SetPendingPause
<1>2. /\ call[h].todo # <<>>
      /\ call[h].todo[1].do = "defer"
      /\ call[h].update = NoUpdate
  BY <1>1, AtFacts
<1>3. \A p \in Plan, g \in Handler : Inserts(call[g].todo, p) => plan'[p].status = "none"
  BY <1>1 DEF IInv, InsertsApart
<1>4. Taken(call[h].todo[1], plan', logged')
  BY <1>2 DEF Taken
<1>5. Grows(plan, logged, plan', logged')
  BY <1>1, Unchanging
<1>6. /\ call' \in [Handler -> [todo : Seq(StepRow), update : UpdateRow]]
      /\ \A g \in Handler : CallSound(call[g])'
      /\ InsertsApart'
  BY <1>1, <1>2, <1>3, <1>4, <1>5, AdvanceStep
<1>7. /\ session' \in Session
      /\ session'.state = session.state
      /\ session'.resumeState = session.resumeState
      /\ session'.grantsRevoked = session.grantsRevoked
      /\ session'.killSwitchLatched = session.killSwitchLatched
  BY <1>1 DEF IInv, TypeOK, Session
<1>8. TypeOK' /\ CheckpointValid'
  BY <1>1, <1>7 DEF IInv, TypeOK, CheckpointValid
<1>9. StopRevokes'
  BY <1>1, <1>7 DEF IInv, StopRevokes
<1>10. DecisionIsRecorded'
  BY <1>1 DEF IInv, DecisionIsRecorded
<1> QED BY <1>6, <1>8, <1>9, <1>10 DEF IInv

LEMMA InsertPlanInvariant ==
    ASSUME IInv, NEW h \in Handler, InsertPlan(h)
    PROVE  IInv'
<1>1. PICK step : step = call[h].todo[1]
  OBVIOUS
<1>2. At(h, "insert") /\ Advance(h) /\ UNCHANGED <<session, logged>>
  BY DEF InsertPlan
<1>3. /\ call[h].todo # <<>>
      /\ call[h].update = NoUpdate
      /\ Head(call[h].todo) = step
      /\ step.do = "insert"
      /\ step.plan \in Plan
      /\ step.arg \in Verdict
      /\ Inserts(call[h].todo, step.plan)
  BY <1>1, <1>2, AtFacts DEF StepSound, Inserts
<1>4. plan' = [plan EXCEPT ![step.plan] = [status |-> "pending", verdict |-> step.arg]]
  BY <1>3 DEF InsertPlan
<1>5. plan[step.plan].status = "none"
  BY <1>3 DEF IInv, InsertsApart
<1>6. plan \in [Plan -> PlanRow]
  BY DEF IInv, TypeOK
<1>7. /\ plan'[step.plan] = [status |-> "pending", verdict |-> step.arg]
      /\ \A p \in Plan \ {step.plan} : plan'[p] = plan[p]
      /\ plan' \in [Plan -> PlanRow]
  BY <1>3, <1>4, <1>6 DEF PlanRow
<1>8. Grows(plan, logged, plan', logged')
  BY <1>2, <1>5, <1>7 DEF Grows
<1>9. Taken(call[h].todo[1], plan', logged')
  BY <1>1, <1>3, <1>7 DEF Taken
<1>10. ASSUME NEW p \in Plan, NEW g \in Handler \ {h}, Inserts(call[g].todo, p)
       PROVE  plan'[p].status = "none"
  <2>1. p # step.plan
    BY <1>3, <1>10 DEF IInv, InsertsApart
  <2>2. plan[p].status = "none"
    BY <1>10 DEF IInv, InsertsApart
  <2> QED BY <1>7, <2>1, <2>2
<1>11. /\ call' \in [Handler -> [todo : Seq(StepRow), update : UpdateRow]]
       /\ \A g \in Handler : CallSound(call[g])'
       /\ InsertsApart'
  BY <1>2, <1>3, <1>8, <1>9, <1>10, AdvanceStep
<1>12. TypeOK' /\ CheckpointValid' /\ StopRevokes'
  BY <1>2, <1>7 DEF IInv, TypeOK, CheckpointValid, StopRevokes
<1>13. DecisionIsRecorded'
  <2>1. plan'[step.plan].status = "pending" /\ plan'[step.plan].verdict \in Verdict
    BY <1>3, <1>7
  <2>2. DecisionIsRecorded
    BY DEF IInv
  <2>3. ASSUME NEW p \in Plan
        PROVE  /\ plan'[p].status # "none" => plan'[p].verdict \in Verdict
               /\ plan'[p].status = "approved" => <<"plan.approved", p>> \in logged'
               /\ plan'[p].status = "executing" => plan'[p].verdict = "approved"
               /\ plan'[p].status = "rejected" =>
                     <<"plan.rejected", p>> \in logged' \/ plan'[p].verdict = "denied"
    <3>1. CASE p = step.plan
      BY <2>1, <3>1
    <3>2. CASE p # step.plan
      BY <1>2, <1>7, <2>2, <3>2 DEF DecisionIsRecorded
    <3> QED BY <3>1, <3>2
  <2> QED BY <2>3 DEF DecisionIsRecorded
<1> QED BY <1>11, <1>12, <1>13 DEF IInv

LEMMA AppendEventsInvariant ==
    ASSUME IInv, NEW h \in Handler, AppendEvents(h)
    PROVE  IInv'
<1>1. /\ At(h, "log")
      /\ logged' = logged \union {<<Head(call[h].todo).arg, Head(call[h].todo).plan>>}
      /\ Advance(h)
      /\ UNCHANGED <<session, plan>>
  BY DEF AppendEvents
<1>2. /\ call[h].todo # <<>>
      /\ call[h].update = NoUpdate
      /\ Head(call[h].todo) = call[h].todo[1]
      /\ call[h].todo[1].do = "log"
  BY <1>1, AtFacts
<1>3. logged \subseteq logged'
  BY <1>1
<1>4. Grows(plan, logged, plan', logged')
  BY <1>1, <1>3 DEF Grows
<1>5. Taken(call[h].todo[1], plan', logged')
  BY <1>1, <1>2 DEF Taken
<1>6. \A p \in Plan, g \in Handler : Inserts(call[g].todo, p) => plan'[p].status = "none"
  BY <1>1 DEF IInv, InsertsApart
<1>7. /\ call' \in [Handler -> [todo : Seq(StepRow), update : UpdateRow]]
      /\ \A g \in Handler : CallSound(call[g])'
      /\ InsertsApart'
  BY <1>1, <1>2, <1>4, <1>5, <1>6, AdvanceStep
<1>8. TypeOK' /\ CheckpointValid'
  BY <1>1 DEF IInv, TypeOK, CheckpointValid
<1>9. StopRevokes'
  BY <1>1, <1>3 DEF IInv, StopRevokes
<1>10. DecisionIsRecorded'
  BY <1>1, <1>3 DEF IInv, DecisionIsRecorded
<1> QED BY <1>7, <1>8, <1>9, <1>10 DEF IInv

LEMMA CheckInvariant ==
    ASSUME IInv, NEW h \in Handler, CheckPlan(h) \/ CheckAwaiting(h)
    PROVE  IInv'
<1>1. /\ At(h, "plan") \/ At(h, "awaiting")
      /\ Advance(h) \/ Raise(h)
      /\ UNCHANGED <<session, plan, logged>>
  BY DEF CheckPlan, CheckAwaiting
<1>2. /\ call[h].todo # <<>>
      /\ call[h].update = NoUpdate
      /\ call[h].todo[1].do \in {"plan", "awaiting"}
  BY <1>1, AtFacts
<1>3. Taken(call[h].todo[1], plan', logged')
  BY <1>2 DEF Taken
<1>4. \A p \in Plan, g \in Handler : Inserts(call[g].todo, p) => plan'[p].status = "none"
  BY <1>1 DEF IInv, InsertsApart
<1>5. Grows(plan, logged, plan', logged')
  BY <1>1, Unchanging
<1>6. /\ call' \in [Handler -> [todo : Seq(StepRow), update : UpdateRow]]
      /\ \A g \in Handler : CallSound(call[g])'
      /\ InsertsApart'
  <2>1. CASE Advance(h)
    BY <1>2, <1>3, <1>4, <1>5, <2>1, AdvanceStep
  <2>2. CASE Raise(h)
    BY <1>1, <2>2, RaiseStep
  <2> QED BY <1>1, <2>1, <2>2
<1>7. TypeOK' /\ CheckpointValid' /\ StopRevokes' /\ DecisionIsRecorded'
  BY <1>1, Quiet
<1> QED BY <1>6, <1>7 DEF IInv

LEMMA UpdatePlanStatusInvariant ==
    ASSUME IInv, NEW h \in Handler, UpdatePlanStatus(h)
    PROVE  IInv'
<1>1. PICK step : step = call[h].todo[1]
  OBVIOUS
<1>2. At(h, "status") /\ Advance(h) /\ UNCHANGED <<session, logged>>
  BY DEF UpdatePlanStatus
<1>3. /\ call[h].todo # <<>>
      /\ call[h].update = NoUpdate
      /\ Head(call[h].todo) = step
      /\ step.do = "status"
      /\ step.plan \in Plan
      /\ StepSound(call[h].todo, 1, plan, logged)
  BY <1>1, <1>2, AtFacts DEF StepSound
<1>4. plan[step.plan].status # "none"
  BY <1>1, <1>3 DEF StepSound
<1>5. \/ step.arg = "approved" /\ <<"plan.approved", step.plan>> \in logged
      \/ step.arg = "executing" /\ plan[step.plan].verdict = "approved"
      \/ step.arg = "rejected" /\ <<"plan.rejected", step.plan>> \in logged
      \/ step.arg = "rejected" /\ plan[step.plan].verdict = "denied"
  <2>1. Justified(call[h].todo, 1, plan, logged)
    BY <1>1, <1>3 DEF StepSound
  <2>2. \A event, p : HasLogged(call[h].todo, 1, logged, event, p) => <<event, p>> \in logged
    BY DEF HasLogged
  <2>3. \A p, v : HasVerdict(call[h].todo, 1, plan, p, v) => plan[p].verdict = v
    BY DEF HasVerdict
  <2> QED BY <1>1, <2>1, <2>2, <2>3 DEF Justified
<1>6. plan' = [plan EXCEPT ![step.plan].status = step.arg]
  BY <1>3 DEF UpdatePlanStatus
<1>7. plan \in [Plan -> PlanRow]
  BY DEF IInv, TypeOK
<1>8. /\ plan'[step.plan].status = step.arg
      /\ plan'[step.plan].verdict = plan[step.plan].verdict
      /\ \A p \in Plan \ {step.plan} : plan'[p] = plan[p]
      /\ plan' \in [Plan -> PlanRow]
  BY <1>3, <1>5, <1>6, <1>7 DEF PlanRow
<1>9. Grows(plan, logged, plan', logged')
  <2>1. step.arg # "none"
    BY <1>5
  <2> QED BY <1>2, <1>8, <2>1 DEF Grows
<1>10. Taken(call[h].todo[1], plan', logged')
  BY <1>1, <1>3 DEF Taken
<1>11. ASSUME NEW p \in Plan, NEW g \in Handler, Inserts(call[g].todo, p)
       PROVE  plan'[p].status = "none"
  <2>1. plan[p].status = "none"
    BY <1>11 DEF IInv, InsertsApart
  <2> QED BY <1>4, <1>8, <2>1
<1>12. /\ call' \in [Handler -> [todo : Seq(StepRow), update : UpdateRow]]
       /\ \A g \in Handler : CallSound(call[g])'
       /\ InsertsApart'
  BY <1>2, <1>3, <1>9, <1>10, <1>11, AdvanceStep
<1>13. TypeOK' /\ CheckpointValid' /\ StopRevokes'
  BY <1>2, <1>8 DEF IInv, TypeOK, CheckpointValid, StopRevokes
<1>14. DecisionIsRecorded'
  <2>1. DecisionIsRecorded
    BY DEF IInv
  <2>2. ASSUME NEW p \in Plan
        PROVE  /\ plan'[p].status # "none" => plan'[p].verdict \in Verdict
               /\ plan'[p].status = "approved" => <<"plan.approved", p>> \in logged'
               /\ plan'[p].status = "executing" => plan'[p].verdict = "approved"
               /\ plan'[p].status = "rejected" =>
                     <<"plan.rejected", p>> \in logged' \/ plan'[p].verdict = "denied"
    <3>1. CASE p = step.plan
      BY <1>2, <1>4, <1>5, <1>8, <2>1, <3>1 DEF DecisionIsRecorded
    <3>2. CASE p # step.plan
      BY <1>2, <1>8, <2>1, <3>2 DEF DecisionIsRecorded
    <3> QED BY <3>1, <3>2
  <2> QED BY <2>2 DEF DecisionIsRecorded
<1> QED BY <1>12, <1>13, <1>14 DEF IInv
-----------------------------------------------------------------------------
(* The theorems *)

LEMMA InitInvariant == ASSUME Init PROVE IInv
<1>1. /\ session = [state |-> "IDLE", previousState |-> NoState, resumeState |-> NoState,
                    pendingPause |-> FALSE, grantsRevoked |-> FALSE,
                    killSwitchLatched |-> FALSE]
      /\ plan = [p \in Plan |-> [status |-> "none", verdict |-> "none"]]
      /\ call = [h \in Handler |-> Free]
  BY DEF Init
<1>2. TypeOK
  BY <1>1 DEF TypeOK, Session, PlanRow, State
<1>3. Free \in [todo : Seq(StepRow), update : UpdateRow]
  BY DEF Free, UpdateRow, NoUpdate
<1>4. CallSound(Free)
  BY SoundEmpty DEF CallSound, Free, UpdateSound
<1>5. \A p : ~ Inserts(Free.todo, p)
  BY DEF Free, Inserts
<1>6. InsertsApart
  BY <1>1, <1>5 DEF InsertsApart
<1>7. CheckpointValid
  BY <1>1 DEF CheckpointValid, Recovery
<1>8. StopRevokes
  BY <1>1 DEF StopRevokes, Terminal
<1>9. DecisionIsRecorded
  BY <1>1 DEF DecisionIsRecorded
<1> QED BY <1>1, <1>2, <1>3, <1>4, <1>6, <1>7, <1>8, <1>9 DEF IInv

LEMMA NextInvariant == ASSUME IInv, [Next]_vars PROVE IInv'
<1>1. CASE Next
  <2>1. PICK h \in Handler : Receive(h) \/ Step(h)
    BY <1>1 DEF Next
  <2>2. CASE Receive(h)
    BY <2>2, ReceiveInvariant
  <2>3. CASE ReadSession(h)
    BY <2>3, ReadSessionInvariant
  <2>4. CASE ApplyTransition(h)
    BY <2>4, ApplyTransitionInvariant
  <2>5. CASE DecidePause(h)
    BY <2>5, DecidePauseInvariant
  <2>6. CASE SetPendingPause(h)
    BY <2>6, SetPendingPauseInvariant
  <2>7. CASE InsertPlan(h)
    BY <2>7, InsertPlanInvariant
  <2>8. CASE AppendEvents(h)
    BY <2>8, AppendEventsInvariant
  <2>9. CASE CheckPlan(h) \/ CheckAwaiting(h)
    BY <2>9, CheckInvariant
  <2>10. CASE UpdatePlanStatus(h)
    BY <2>10, UpdatePlanStatusInvariant
  <2> QED BY <2>1, <2>2, <2>3, <2>4, <2>5, <2>6, <2>7, <2>8, <2>9, <2>10 DEF Step
<1>2. CASE UNCHANGED vars
  <2>1. UNCHANGED <<session, plan, logged>> /\ call' = call
    BY <1>2 DEF vars
  <2>2. TypeOK' /\ CheckpointValid' /\ StopRevokes' /\ DecisionIsRecorded'
    BY <2>1, Quiet
  <2>3. /\ call' \in [Handler -> [todo : Seq(StepRow), update : UpdateRow]]
        /\ InsertsApart'
    BY <2>1 DEF IInv, InsertsApart
  <2>4. \A h \in Handler : CallSound(call[h])'
    BY <2>1 DEF IInv, CallSound
  <2> QED BY <2>2, <2>3, <2>4 DEF IInv
<1> QED BY <1>1, <1>2

\* The inductive invariant holds of every behaviour, for any number of requests
\* in service, plans and pipeline triggers.
THEOREM Invariance == Spec => []IInv
<1> QED BY InitInvariant, NextInvariant, PTL DEF Spec

\* The rows of the session and of its plans keep their types.
THEOREM TypeCorrect == Spec => []TypeOK
<1>1. IInv => TypeOK
  BY DEF IInv
<1> QED BY <1>1, Invariance, PTL

\* A paused or recovering session always has a state it can be resumed to, also
\* when requests overwrite each other's transitions.
THEOREM CheckpointAlwaysValid == Spec => []CheckpointValid
<1>1. IInv => CheckpointValid
  BY DEF IInv
<1> QED BY <1>1, Invariance, PTL

\* A session that has ended holds no grants and one that was stopped is latched, and
\* the log says so, also when a stale update overwrites the ended state.
THEOREM StopAlwaysRevokes == Spec => []StopRevokes
<1>1. IInv => StopRevokes
  BY DEF IInv
<1> QED BY <1>1, Invariance, PTL

\* A plan is decided in its row only after the log, or by its policy verdict.
THEOREM DecisionAlwaysRecorded == Spec => []DecisionIsRecorded
<1>1. IInv => DecisionIsRecorded
  BY DEF IInv
<1> QED BY <1>1, Invariance, PTL

\* No step of any request releases the kill switch or restores the grants.
THEOREM LatchesAlwaysHold == Spec => LatchesHold
<1> DEFINE Held == /\ session.killSwitchLatched => session'.killSwitchLatched
                   /\ session.grantsRevoked => session'.grantsRevoked
<1>1. ASSUME IInv, [Next]_vars PROVE [Held]_vars
  <2>1. session \in Session
    BY <1>1 DEF IInv, TypeOK
  <2>2. ASSUME NEW h \in Handler, ApplyTransition(h) PROVE Held
    <3>1. session' = Applied(call[h].update)
      BY <2>2 DEF ApplyTransition
    <3> QED BY <2>1, <3>1 DEF Applied, Session
  <2>3. ASSUME NEW h \in Handler, SetPendingPause(h) PROVE Held
    BY <2>1, <2>3 DEF SetPendingPause, Session
  <2>4. ASSUME session' = session PROVE Held
    BY <2>4
  <2> HIDE DEF Held
  <2>5. UNCHANGED vars => session' = session
    BY DEF vars
  <2>6. ASSUME NEW h \in Handler, Receive(h) \/ Step(h) PROVE Held
    BY <2>2, <2>3, <2>4, <2>6
       DEF Step, Receive, ReadSession, DecidePause, InsertPlan, AppendEvents, CheckPlan,
           CheckAwaiting, UpdatePlanStatus
  <2> QED BY <1>1, <2>4, <2>5, <2>6 DEF Next
<1>2. []IInv /\ [][Next]_vars => [][Held]_vars
  <2> HIDE DEF Held
  <2> QED BY <1>1, PTL
<1>3. Spec => [][Held]_vars
  <2> HIDE DEF Held
  <2> QED BY <1>2, Invariance, PTL DEF Spec
<1> QED BY <1>3 DEF LatchesHold

\* After the session ended and the transitions computed before that have been
\* applied, no request changes its state: no trigger is legal in a terminal state.
THEOREM DrainedEndIsAlwaysFinal == Spec => DrainedEndIsFinal
<1> DEFINE Final == session.state \in Terminal /\ NoUpdateInFlight =>
                       session'.state = session.state /\ NoUpdateInFlight'
<1>1. ASSUME IInv, [Next]_vars PROVE [Final]_vars
  <2> SUFFICES ASSUME session.state \in Terminal, NoUpdateInFlight, Next
               PROVE  session'.state = session.state /\ NoUpdateInFlight'
    BY <1>1 DEF NoUpdateInFlight, vars
  <2>1. PICK h \in Handler : Receive(h) \/ Step(h)
    BY DEF Next
  <2>2. call \in [Handler -> [todo : Seq(StepRow), update : UpdateRow]] /\ session \in Session
    BY <1>1 DEF IInv, TypeOK
  <2>3. \A g \in Handler : call[g].update = NoUpdate
    BY DEF NoUpdateInFlight
  <2>4. ASSUME NEW todo, call' = [call EXCEPT ![h].todo = todo]
        PROVE  NoUpdateInFlight'
    BY <2>2, <2>3, <2>4 DEF NoUpdateInFlight
  <2>5. Raise(h) => NoUpdateInFlight'
    BY <2>2, <2>3 DEF NoUpdateInFlight, Raise, Free
  <2>6. Advance(h) => NoUpdateInFlight'
    BY <2>4 DEF Advance
  <2>7. CASE ReadSession(h)
    <3>1. \A trigger, to : ~ Leads(session, trigger, to)
      BY DEF Leads
    <3> QED BY <2>5, <2>7, <3>1 DEF ReadSession
  <2>8. ~ ApplyTransition(h)
    BY <2>3 DEF ApplyTransition
  <2>9. CASE Receive(h)
    BY <2>4, <2>9 DEF Receive
  <2>10. CASE DecidePause(h)
    BY <2>4, <2>10 DEF DecidePause
  <2>11. CASE SetPendingPause(h)
    BY <2>2, <2>6, <2>11 DEF SetPendingPause, Session
  <2>12. CASE InsertPlan(h) \/ AppendEvents(h) \/ UpdatePlanStatus(h)
    BY <2>6, <2>12 DEF InsertPlan, AppendEvents, UpdatePlanStatus
  <2>13. CASE CheckPlan(h) \/ CheckAwaiting(h)
    BY <2>5, <2>6, <2>13 DEF CheckPlan, CheckAwaiting
  <2> QED BY <2>1, <2>7, <2>8, <2>9, <2>10, <2>11, <2>12, <2>13 DEF Step
<1>2. []IInv /\ [][Next]_vars => [][Final]_vars
  <2> HIDE DEF Final
  <2> QED BY <1>1, PTL
<1>3. Spec => [][Final]_vars
  <2> HIDE DEF Final
  <2> QED BY <1>2, Invariance, PTL DEF Spec
<1> QED BY <1>3 DEF DrainedEndIsFinal

\* What an end leaves behind stays: its latches, and the end itself when nothing was in
\* flight (applyTransition with its UPDATE that compares no state).
THEOREM EndsAlwaysKept == Spec => EndsAreKept
  BY LatchesAlwaysHold, DrainedEndIsAlwaysFinal DEF EndsAreKept

=============================================================================
