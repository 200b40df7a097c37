SPECIFICATION Spec
CONSTANTS
    h1 = h1
    h2 = h2
    p1 = p1
    Handler = {h1, h2}
    Pipeline = {h1}
    Plan = {p1}
    NoPlan = NoPlan
    Triggers = {"start_listening", "speech_available", "utterance_finalized", "intent_resolved", "degrade", "recovered", "hard_failure"}

PROPERTY TerminalIsFinal
CHECK_DEADLOCK FALSE
