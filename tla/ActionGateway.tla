--------------------------- MODULE ActionGateway ---------------------------
(***************************************************************************)
(* The Zarvis action gateway: actions that set a preference, from their    *)
(* preview to their execution or roll-back, kept in two files, the state   *)
(* file local-state.json and the log action-events.jsonl (store.mjs).      *)
(*                                                                         *)
(* The server runs the operations that change something one after the      *)
(* other (mutate, server.mjs), each awaiting its reads and writes; the     *)
(* worker lists the approved actions beside them. A write may fail, and    *)
(* then every later one does until the process starts anew (writeChain);   *)
(* the process may die between the write of one file and of the other.     *)
(*                                                                         *)
(* All actions set the same preference: of the others a write of the state *)
(* file takes along what was read, as it does here for emergency_stop.     *)
(*                                                                         *)
(* Every read begins with store.initialize, and one that finds no state    *)
(* file writes the defaults, beside mutate and beside writeChain, through  *)
(* the one temporary file that all writes of the state file share.         *)
(***************************************************************************)
EXTENDS Naturals, FiniteSets

CONSTANTS
    Owner,         \* requests of the owner in service at the same time
    Performer,     \* workers
    Visitor,       \* reads that find no state file, in service at the same time
    Setting,       \* the values of the preference
    Unset,         \* the preference is not there
    ActionCount,   \* bound: actions ever previewed
    AccidentBound  \* bound: writes that fail and deaths of the server

ASSUME GatewayAssumption ==
    /\ Unset \notin Setting
    /\ Visitor \intersect (Owner \union Performer) = {}
    /\ ActionCount \in Nat
    /\ AccidentBound \in Nat

VARIABLES
    stateFile,  \* local-state.json
    temp,       \* local-state.json.tmp
    writer,     \* writer[x]: where the atomicWrite of x is
    status,     \* status[a]: of the last event of the action a
    preview,    \* preview[a]: previous_value and next_value of a
    previewed,  \* the number of actions previewed
    overdue,    \* the number of actions whose approval window is over: the first ones
    request,    \* request[c]: the operation that c waits for
    listed,     \* listed[w]: what w has still to execute in this round
    jammed,     \* writeChain is rejected
    torn,       \* the log holds half a line
    accidents,  \* the number of failed writes and deaths
    written,    \* history: what a last did to the state file
    parted,     \* history: actions whose event was lost after their write
    halted      \* history: actions that a completed emergency stop found open

fileVars == <<stateFile, temp, writer>>
gatewayVars == <<stateFile, temp, writer, status, preview, previewed, overdue, request,
                 listed, jammed, torn, accidents, written, parted, halted>>

Action == 1..ActionCount
GatewayClient == Owner \union Performer

\* text: DEFAULT_STATE as it is, or a state of writeState, which is longer; "garbled" and
\* "empty" are no JSON, and tell nothing of their fields.
StateText == {"absent", "empty", "default", "full", "garbled"}
StateFile == [text : StateText, emergencyStop : BOOLEAN, preference : Setting \union {Unset}]

\* file: what the handle of a write refers to, since it was opened as the temporary file.
GatewayWriter == [at : {"idle", "open", "fill", "rename"}, file : {"temp", "state", "gone"}]

ActionStatus == {"none", "pending_approval", "approved", "executed", "rolled_back",
                 "expired", "revoked"}
Preview == [previous : Setting \union {Unset}, next : Setting \union {Unset}]

\* copy: the state file as the operation read it; events: the actions whose event it
\* has still to append, with the status verdict; disturbed, a history: a visitor wrote
\* while it did, or changed the state file it had read.
GatewayRequest ==
    [at : {"idle", "execute", "apply", "rollback", "undo", "stop", "revoke", "resume", "log"},
     copy : StateFile, events : SUBSET Action, verdict : ActionStatus, disturbed : BOOLEAN]

Plain(text) == [text |-> text, emergencyStop |-> FALSE, preference |-> Unset]
DefaultState == Plain("default")

Served == [at |-> "idle", copy |-> DefaultState, events |-> {}, verdict |-> "none",
           disturbed |-> FALSE]
NoWrite == [at |-> "idle", file |-> "temp"]

\* The directory is fresh, or has a state file kept from actions that are over.
GatewayInit ==
    /\ stateFile \in {Plain("absent")} \union
          {[Plain("full") EXCEPT !.preference = v] : v \in Setting \union {Unset}}
    /\ temp = Plain("absent")
    /\ writer = [x \in GatewayClient \union Visitor |-> NoWrite]
    /\ status = [a \in Action |-> "none"]
    /\ preview = [a \in Action |-> [previous |-> Unset, next |-> Unset]]
    /\ previewed = 0
    /\ overdue = 0
    /\ request = [c \in GatewayClient |-> Served]
    /\ listed = [w \in Performer |-> {}]
    /\ jammed = FALSE
    /\ torn = FALSE
    /\ accidents = 0
    /\ written = [a \in Action |-> "nothing"]
    /\ parted = {}
    /\ halted = {}

-----------------------------------------------------------------------------

\* An error: the window that ended last is taken for open.
OverdueLate(a) == a < overdue
Overdue(a) == a <= overdue

\* Those not in TERMINAL_STATUSES. An error: an executed action is not among these.
OpenStatusExecuted == {"pending_approval", "approved", "executed"}
OpenStatus == {"pending_approval", "approved"}
Open == {a \in Action : status[a] \in OpenStatus}

\* readState throws on any other text.
Legible(file) == file.text \in {"default", "full"}

\* An error: an operation does not wait for those of others.
MyTurnAnyway(c) == request[c].at = "idle"
\* mutate: an operation starts when those before it have ended.
MyTurn(c) == \A d \in GatewayClient : request[d].at = "idle"

Enter(c, at, events, verdict) ==
    request' = [request EXCEPT ![c].at = at, ![c].events = events, ![c].verdict = verdict]

\* The answer, also to what was refused or thrown; a worker then ends its round.
Finished(c) == request' = [request EXCEPT ![c] = Served]
Dropped(c) == [w \in Performer |-> IF w = c THEN {} ELSE listed[w]]

\* What c leaves undone when its operation ends early: a write without its event, or
\* an emergency stop that did not revoke all.
Cut(c) ==
    IF \/ request[c].at = "log" /\ request[c].verdict \in {"executed", "rolled_back"}
       \/ request[c].at \in {"apply", "undo"} /\ request[c].disturbed
      THEN request[c].events ELSE {}
Unstopped(c) ==
    IF request[c].at = "revoke" \/ (request[c].at = "log" /\ request[c].verdict = "revoked")
      THEN Open ELSE {}

Abort(c) ==
    /\ Finished(c)
    /\ listed' = Dropped(c)
    /\ parted' = parted \union Cut(c)
    /\ halted' = halted \ Unstopped(c)

-----------------------------------------------------------------------------
(* The requests *)

\* preview: the next action, against the state file as it is.
PreviewAction(c) ==
    /\ MyTurn(c)
    /\ Legible(stateFile) /\ ~ stateFile.emergencyStop
    /\ previewed < ActionCount
    /\ previewed' = previewed + 1
    /\ \E v \in Setting : preview' =
          [preview EXCEPT ![previewed'] = [previous |-> stateFile.preference, next |-> v]]
    /\ Enter(c, "log", {previewed'}, "pending_approval")
    /\ UNCHANGED <<fileVars, status, overdue, listed, jammed, torn, accidents,
                   written, parted, halted>>

\* approve, with the digest and the nonce of the preview.
ApproveAction(c) ==
    /\ MyTurn(c) /\ ~ torn
    /\ \E a \in Action :
          /\ status[a] = "pending_approval"
          /\ Enter(c, "log", {a}, IF Overdue(a) THEN "expired" ELSE "approved")
    /\ UNCHANGED <<fileVars, status, preview, previewed, overdue, listed, jammed, torn,
                   accidents, written, parted, halted>>

RollBackAction(c) ==
    /\ MyTurn(c) /\ ~ torn
    /\ \E a \in Action :
          /\ status[a] = "executed"
          /\ Enter(c, "rollback", {a}, "rolled_back")
    /\ UNCHANGED <<fileVars, status, preview, previewed, overdue, listed, jammed, torn,
                   accidents, written, parted, halted>>

\* emergencyStop and resume read the state file first.
SwitchActions(c) ==
    /\ MyTurn(c) /\ Legible(stateFile)
    /\ \E at \in {"stop", "resume"} :
          request' = [request EXCEPT ![c].at = at, ![c].copy = stateFile]
    /\ UNCHANGED <<fileVars, status, preview, previewed, overdue, listed, jammed, torn,
                   accidents, written, parted, halted>>

\* GET /v1/internal/actions/approved does not wait for its turn.
ListApproved(w) ==
    /\ request[w].at = "idle"
    /\ listed[w] = {}
    /\ ~ torn
    /\ \E a \in Action : status[a] = "approved"
    /\ listed' = [listed EXCEPT ![w] = {a \in Action : status[a] = "approved"}]
    /\ UNCHANGED <<fileVars, status, preview, previewed, overdue, request, jammed, torn,
                   accidents, written, parted, halted>>

\* execute of one of the listed actions: it is there, was executed by another, has
\* expired, or makes the round of the worker end.
ExecuteAction(w) ==
    /\ MyTurn(w)
    /\ \E a \in listed[w] :
          LET rest == [listed EXCEPT ![w] = @ \ {a}] IN
          \/ /\ ~ torn /\ status[a] = "executed"
             /\ listed' = rest
             /\ UNCHANGED request
          \/ /\ ~ torn /\ status[a] = "approved" /\ Overdue(a)
             /\ listed' = Dropped(w)
             /\ Enter(w, "log", {a}, "expired")
          \/ /\ ~ torn /\ status[a] = "approved" /\ ~ Overdue(a)
             /\ listed' = rest
             /\ Enter(w, "execute", {a}, "executed")
          \/ /\ torn \/ status[a] \notin {"executed", "approved"}
             /\ listed' = Dropped(w)
             /\ UNCHANGED request
    /\ UNCHANGED <<fileVars, status, preview, previewed, overdue, jammed, torn,
                   accidents, written, parted, halted>>

-----------------------------------------------------------------------------
(* What they read and write *)

\* The compare of compare-and-set, for an execution and for its roll-back.
Unchanged(c, a) ==
    stateFile.preference =
        IF request[c].at = "execute" THEN preview[a].previous ELSE preview[a].next

CompareState(c) ==
    /\ request[c].at \in {"execute", "rollback"}
    /\ \E a \in request[c].events :
          IF /\ Legible(stateFile) /\ Unchanged(c, a)
             /\ request[c].at = "execute" => ~ stateFile.emergencyStop
            THEN /\ request' = [request EXCEPT
                       ![c].at = IF @ = "execute" THEN "apply" ELSE "undo",
                       ![c].copy = stateFile]
                 /\ UNCHANGED listed
            ELSE Finished(c) /\ listed' = Dropped(c)
    /\ UNCHANGED <<fileVars, status, preview, previewed, overdue, jammed, torn,
                   accidents, written, parted, halted>>

\* What writeState of c writes: what c read, with its change.
NewState(c) ==
    LET kept == [request[c].copy EXCEPT !.text = "full"] IN
    CASE request[c].at \in {"stop", "resume"} ->
            [kept EXCEPT !.emergencyStop = request[c].at = "stop"]
      [] request[c].at \in {"apply", "undo"} ->
            LET a == CHOOSE e \in request[c].events : TRUE IN
            [kept EXCEPT !.preference =
                IF request[c].at = "apply" THEN preview[a].next ELSE preview[a].previous]

\* atomicWrite: open, which empties the temporary file; write; rename.
OpenTemp(x) ==
    /\ temp' = Plain("empty")
    /\ writer' = [writer EXCEPT ![x] = [at |-> "fill", file |-> "temp"]]
    /\ UNCHANGED stateFile

\* A text written over a longer one leaves the end of that.
Over(old, new) ==
    IF new.text = "default" /\ old.text \in {"full", "garbled"} THEN Plain("garbled") ELSE new

\* x writes new into the file it has open, whatever became of that.
Put(x, new) ==
    /\ temp' = IF writer[x].file = "temp" THEN Over(temp, new) ELSE temp
    /\ stateFile' = IF writer[x].file = "state" THEN Over(stateFile, new) ELSE stateFile

FillTemp(x, new) ==
    /\ writer[x].at = "fill"
    /\ Put(x, new)
    /\ writer' = [writer EXCEPT ![x] = [at |-> "rename", file |-> "temp"]]

\* The temporary file becomes the state file, for those who have it open, too.
Renamed(x) ==
    [y \in DOMAIN writer |->
        IF y = x THEN NoWrite
        ELSE IF writer[y].at # "fill" THEN writer[y]
        ELSE [writer[y] EXCEPT !.file = IF @ = "temp" THEN "state" ELSE "gone"]]

RenameTemp(x) ==
    /\ writer[x].at = "rename" /\ temp.text # "absent"
    /\ stateFile' = temp
    /\ temp' = Plain("absent")
    /\ writer' = Renamed(x)

Writing == {"apply", "undo", "stop", "resume"}

\* writeState, and the rename by which it is done.
WriteTemp(c) ==
    /\ request[c].at \in Writing
    /\ \/ ~ jammed /\ writer[c].at = "idle" /\ OpenTemp(c)
       \/ FillTemp(c, NewState(c))
    /\ UNCHANGED <<status, preview, previewed, overdue, request, listed, jammed, torn,
                   accidents, written, parted, halted>>

\* The event of an execution or a roll-back is next.
SetPreference(c) ==
    /\ request[c].at \in {"apply", "undo"}
    /\ RenameTemp(c)
    /\ \E a \in request[c].events : written' = [written EXCEPT ![a] =
          IF request[c].at = "apply" THEN "applied" ELSE "undone"]
    /\ parted' = IF request[c].disturbed THEN parted \union request[c].events ELSE parted
    /\ request' = [request EXCEPT ![c].at = "log"]
    /\ UNCHANGED <<status, preview, previewed, overdue, listed, jammed, torn, accidents,
                   halted>>

SwitchState(c) ==
    /\ request[c].at \in {"stop", "resume"}
    /\ RenameTemp(c)
    /\ IF request[c].at = "stop"
         THEN request' = [request EXCEPT ![c].at = "revoke"] /\ halted' = halted \union Open
         ELSE Finished(c) /\ UNCHANGED halted
    /\ UNCHANGED <<status, preview, previewed, overdue, listed, jammed, torn, accidents,
                   written, parted>>

\* A visitor has renamed the temporary file of c.
MissTemp(c) ==
    /\ request[c].at \in Writing /\ writer[c].at = "rename" /\ temp.text = "absent"
    /\ jammed' = TRUE
    /\ writer' = [writer EXCEPT ![c] = NoWrite]
    /\ Abort(c)
    /\ UNCHANGED <<stateFile, temp, status, preview, previewed, overdue, torn, accidents,
                   written>>

\* emergencyStop reads the log; half a line makes it throw.
FindOpen(c) ==
    /\ request[c].at = "revoke"
    /\ \/ torn /\ Abort(c)
       \/ /\ ~ torn
          /\ IF Open = {} THEN Finished(c) ELSE Enter(c, "log", Open, "revoked")
          /\ UNCHANGED <<listed, parted, halted>>
    /\ UNCHANGED <<fileVars, status, preview, previewed, overdue, jammed, torn,
                   accidents, written>>

\* What is appended behind half a line is not read again.
Logged(a, verdict) == IF torn THEN status ELSE [status EXCEPT ![a] = verdict]

\* appendEvent.
LogEvent(c) ==
    /\ request[c].at = "log"
    /\ ~ jammed
    /\ \E a \in request[c].events :
          /\ status' = Logged(a, request[c].verdict)
          /\ IF request[c].events = {a}
               THEN Finished(c)
               ELSE request' = [request EXCEPT ![c].events = @ \ {a}]
    /\ UNCHANGED <<fileVars, preview, previewed, overdue, listed, jammed, torn, accidents,
                   written, parted, halted>>

\* A write after one that failed.
MeetJam(c) ==
    /\ jammed
    /\ request[c].at \in Writing \union {"log"}
    /\ writer[c].at = "idle"
    /\ Abort(c)
    /\ UNCHANGED <<fileVars, status, preview, previewed, overdue, jammed, torn, accidents,
                   written>>

-----------------------------------------------------------------------------
(***************************************************************************)
(* The reads that find no state file: the first requests of a fresh        *)
(* directory, among them the first reads of the operations. One whose      *)
(* write fails goes no further.                                            *)
(***************************************************************************)

FindNoFile(v) ==
    /\ writer[v].at = "idle"
    /\ stateFile.text = "absent"
    /\ writer' = [writer EXCEPT ![v].at = "open"]
    /\ UNCHANGED <<stateFile, temp, status, preview, previewed, overdue, request, listed,
                   jammed, torn, accidents, written, parted, halted>>

\* An operation is disturbed when the state file that it read changes, or while it
\* writes.
Disturbed ==
    [c \in GatewayClient |-> [request[c] EXCEPT !.disturbed =
        \/ @
        \/ request[c].at \in Writing /\ (stateFile' # stateFile \/ writer[c].at # "idle")]]

\* Its rename finds no file when another's has taken it.
WriteDefault(v) ==
    /\ \/ writer[v].at = "open" /\ OpenTemp(v)
       \/ FillTemp(v, DefaultState)
       \/ RenameTemp(v)
       \/ /\ writer[v].at = "rename" /\ temp.text = "absent"
          /\ writer' = [writer EXCEPT ![v] = NoWrite]
          /\ UNCHANGED <<stateFile, temp>>
    /\ request' = Disturbed
    /\ UNCHANGED <<status, preview, previewed, overdue, listed, jammed, torn, accidents,
                   written, parted, halted>>

-----------------------------------------------------------------------------
(* Accidents, and time *)

\* A write fails: of the state file nothing is kept, or a piece in the file that is
\* open; of an event nothing, half a line, or all of it when it is the sync that fails.
WriteFails(c) ==
    /\ accidents < AccidentBound
    /\ accidents' = accidents + 1
    /\ ~ jammed /\ jammed' = TRUE
    /\ \/ request[c].at \in Writing \union {"log"} /\ UNCHANGED <<stateFile, temp, status, torn>>
       \/ writer[c].at = "fill" /\ Put(c, Plain("garbled")) /\ UNCHANGED <<status, torn>>
       \/ request[c].at = "log" /\ torn' = TRUE /\ UNCHANGED <<stateFile, temp, status>>
       \/ /\ request[c].at = "log" /\ UNCHANGED <<stateFile, temp, torn>>
          /\ \E a \in request[c].events : status' = Logged(a, request[c].verdict)
    /\ writer' = [writer EXCEPT ![c] = NoWrite]
    /\ Abort(c)
    /\ UNCHANGED <<preview, previewed, overdue, written>>

\* The server dies, perhaps with half a line written, and starts anew.
ServerDies ==
    /\ accidents < AccidentBound
    /\ accidents' = accidents + 1
    /\ jammed' = FALSE
    /\ torn' \in {torn, torn \/ \E c \in GatewayClient : request[c].at = "log" /\ ~ jammed}
    /\ request' = [c \in GatewayClient |-> Served]
    /\ writer' = [x \in GatewayClient \union Visitor |-> NoWrite]
    /\ listed' = [w \in Performer |-> IF request[w].at = "idle" THEN listed[w] ELSE {}]
    /\ parted' = parted \union UNION {Cut(c) : c \in GatewayClient}
    /\ halted' = halted \ UNION {Unstopped(c) : c \in GatewayClient}
    /\ UNCHANGED <<stateFile, temp, status, preview, previewed, overdue, written>>

\* All windows are as long: that of the action previewed first ends first.
WindowEnds ==
    /\ overdue < previewed
    /\ overdue' = overdue + 1
    /\ UNCHANGED <<fileVars, status, preview, previewed, request, listed, jammed, torn,
                   accidents, written, parted, halted>>

-----------------------------------------------------------------------------

Serve(c) ==
    \/ CompareState(c) \/ WriteTemp(c) \/ SetPreference(c) \/ SwitchState(c) \/ MissTemp(c)
    \/ FindOpen(c) \/ LogEvent(c) \/ MeetJam(c)

GatewayNext ==
    \/ WindowEnds \/ ServerDies
    \/ \E c \in Owner :
          PreviewAction(c) \/ ApproveAction(c) \/ RollBackAction(c) \/ SwitchActions(c)
    \/ \E w \in Performer : ListApproved(w) \/ ExecuteAction(w)
    \/ \E c \in GatewayClient : Serve(c) \/ WriteFails(c)
    \/ \E v \in Visitor : FindNoFile(v) \/ WriteDefault(v)

\* Time passes, the server serves, and the worker asks again every second; mutate is
\* first come, first served, so that its requests are not overtaken for ever.
GatewayFairness ==
    /\ WF_gatewayVars(WindowEnds)
    /\ \A c \in GatewayClient : WF_gatewayVars(Serve(c))
    /\ \A w \in Performer : WF_gatewayVars(ListApproved(w)) /\ SF_gatewayVars(ExecuteAction(w))

GatewaySpec == GatewayInit /\ [][GatewayNext]_gatewayVars /\ GatewayFairness

-----------------------------------------------------------------------------

GatewayTypeOK ==
    /\ stateFile \in StateFile
    /\ temp \in StateFile
    /\ writer \in [GatewayClient \union Visitor -> GatewayWriter]
    /\ status \in [Action -> ActionStatus]
    /\ preview \in [Action -> Preview]
    /\ previewed \in 0..ActionCount
    /\ overdue \in 0..ActionCount
    /\ request \in [GatewayClient -> GatewayRequest]
    /\ listed \in [Performer -> SUBSET Action]
    /\ jammed \in BOOLEAN
    /\ torn \in BOOLEAN
    /\ accidents \in 0..AccidentBound
    /\ written \in [Action -> {"nothing", "applied", "undone"}]
    /\ parted \in SUBSET Action
    /\ halted \in SUBSET Action

\* The event of a is on its way to the log.
UnderWay(a) ==
    \E c \in GatewayClient :
        /\ request[c].at = "log" /\ a \in request[c].events
        /\ request[c].verdict \in {"executed", "rolled_back"}

\* The log tells what was done to the state file: it calls an action executed or rolled
\* back if and only if that is what the action last did there, but for the event that is
\* being appended, those that an accident took, and a write that a stray visitor had
\* disturbed; and even then it calls nothing executed whose write had not been completed
\* (execute, rollback).
LogMatchesState ==
    \A a \in Action :
        /\ status[a] = "executed" => written[a] # "nothing"
        /\ status[a] = "rolled_back" => written[a] = "undone"
        /\ ~ UnderWay(a) /\ a \notin parted =>
              /\ written[a] = "applied" <=> status[a] = "executed"
              /\ written[a] = "undone" <=> status[a] = "rolled_back"

\* A read that had found no state file writes, or has come between an operation's read
\* of the state file and its write.
Strays ==
    \/ \E v \in Visitor : writer'[v].at # writer[v].at
    \/ \E c \in GatewayClient : request[c].disturbed

\* Nobody but such a stray overwrites what another operation did to the state file:
\* emergency_stop is switched by a stop and a resume alone; the preference goes from the
\* previous to the next value of an action that is approved at that moment, while nothing
\* is stopped, or back with one that is executed, and never by an action that a completed
\* stop found open (writeState of what was read before an await, emergencyStop, initialize).
StateEditsAreOwned ==
    [][Strays \/
       /\ stateFile'.emergencyStop # stateFile.emergencyStop =>
            \E c \in Owner : request[c].at = IF stateFile'.emergencyStop THEN "stop" ELSE "resume"
       /\ stateFile'.preference # stateFile.preference =>
            \E a \in Action \ halted :
               \/ /\ status[a] = "approved" /\ ~ stateFile.emergencyStop
                  /\ stateFile.preference = preview[a].previous
                  /\ stateFile'.preference = preview[a].next
               \/ /\ status[a] = "executed"
                  /\ stateFile.preference = preview[a].next
                  /\ stateFile'.preference = preview[a].previous
      ]_gatewayVars

\* No approval stays open for ever: the worker executes it, or it expires or is
\* revoked, unless a failed write has jammed the server or torn the log (runOnce).
ApprovalsSettle ==
    \A a \in Action : status[a] = "approved" ~> status[a] # "approved" \/ jammed \/ torn
=============================================================================
