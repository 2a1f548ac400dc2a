SPECIFICATION AnalysisSpec
CONSTANTS
    Lines <- MCLines
    Payload <- MCPayload
    Private = {9}
    MaxLines = 4
INVARIANTS AnalysisAgrees InterpretationSound
CHECK_DEADLOCK FALSE
