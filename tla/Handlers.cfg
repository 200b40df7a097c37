\* Five services whose handlers write late, side by side: see MCHandlers
SPECIFICATION HandlersSpec
CONSTANTS
    h1 = h1
    h2 = h2
    p1 = p1
    Handler = {h1, h2}
    Pipeline = {h1}
    Plan = {p1}
    NoPlan = NoPlan
    Triggers = {"start_listening", "speech_available", "utterance_finalized", "intent_resolved", "degrade", "recovered", "hard_failure"}
    Render = {j1, j2, j3}
    RenderWorker = {v1, v2}
    Editor = {e1}
    NoRender = noRender
    MaxRunning = 1
    RenderAttempts = 2
    InterventionBound = 1
    StopBound = 1
    Caller = {c1, c2}
    MaxRetries = 1
    Chat = {k1}
    Folder = {f1}
    Message = {m1, m2, m3}
    Poster = {w1, w2}
    NoFolder = noFolder
    NoMessage = noMessage
    NoChat = noChat
    gated = gated
    runner = runner
    handlers = {q1, q2}
    actors = {alice, bob, carol}
    agent = agent
    noTask = noTask
    noRunner = noRunner
INVARIANTS
    CheckpointValid
    StopRevokes
    DecisionIsRecorded
    RenderingIsOwned
    RunningIsCapped
    ExecutedAsGranted
    TranscriptIsInOrder
    DecisionsStand
PROPERTIES
    EndsAreKept
    EndedJobStays
    ImplementsTranscript
CHECK_DEADLOCK FALSE
