\* Expected violation: the destructor signals through a nulled m_wakeup.
SPECIFICATION Spec
CONSTANTS
    Caller = {a}
    a = a
    LoopThread = loop
    MaxCalls <- Ones
INVARIANT WakeupValid
