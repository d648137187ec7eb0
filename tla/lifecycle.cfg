SPECIFICATION LiveSpec
CONSTANTS
    Sessions = {s1}
    Apps = {a1}
    Loops = {l1}
    NoOne = NoOne
INVARIANTS TrueMeansStopped OneCoordinator HistoryStaysEmpty
PROPERTIES NoCallbackAfterGrace ShutdownReturns WorkersEnd
