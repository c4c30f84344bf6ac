\* Counters of 6 bits, from boot to the last half millisecond before they wrap.
SPECIFICATION Spec
CONSTANTS
    COUNTER_RANGE = 64
    UPTIME = 63
    Timeouts = {1, 4, 7, 32}
INVARIANTS
    NeverEarly
    NeverLate
CHECK_DEADLOCK FALSE
