SPECIFICATION Spec
CONSTANTS
    Units = {u1}
    Quantities = {q1}
    Forms = {"ok"}
    MaxCalls = 2
INVARIANTS ClosedSocketIsSurvived
CHECK_DEADLOCK FALSE
