SPECIFICATION Spec
CONSTANTS
    TimeoutMs = 3
    HeaderLen = 3
    RxLen = 7
    Slack = 1
    MaxBytes = 8
INVARIANTS TypeOK BoundedWait NoFalseTimeout
PROPERTY Returns
