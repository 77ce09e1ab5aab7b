\* Two messages, two tasks, two turns, three of the four mishaps, two with a timeout.
SPECIFICATION PhoneSpec
CONSTANTS
    Msgs = {m1, m2}
    NoMsg = NoMsg
    Slots <- MCSlots
    MaxTurns = 2
    MaxMishaps = 3
SYMMETRY MCSym
CONSTRAINT FewerMishaps
INVARIANTS SentIsKept ToldOnce ViewAgrees
CHECK_DEADLOCK FALSE
