SPECIFICATION ClassSpec
CONSTANTS
    Units = {u1, u2}
    Quantities = {q1, q2}
    Forms = {"ok", "exc2", "badheader", "badlen", "corrupt"}
    MaxCalls = 2
    Tries = 1
INVARIANTS ClassTypeOK SuccessIsFresh RunsOnce SuccessIsAnswer OwnAnswer
PROPERTIES KeepsPromise SendReturns CallsReturn
CHECK_DEADLOCK FALSE
