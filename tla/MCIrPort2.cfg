\* Any number of commands; the range sensor is quiet when the buffer is getting full.
SPECIFICATION Port2Spec
CONSTANTS
    Data = {"UP", "DOWN"}
    Zero = "zero"
    buffer_size = 4
    QuietAbove = 2
INVARIANT HoldsQueue
