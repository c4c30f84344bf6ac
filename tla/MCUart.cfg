\* A trace that fills the buffer and wraps around in it, and an ASSERT at any time.
\* The program may have nothing left to trace.
CHECK_DEADLOCK FALSE
SPECIFICATION UartSpec
CONSTANTS
    Data = {"a", "A", "lf", "cr"}
    Zero = "zero"
    buffer_size = 3
    Chars = {"a", "lf"}
    LF = "lf"
    CR = "cr"
    AssertText <- Text
    MaxTraced = 7
INVARIANTS
    SentInOrder
    InterruptFindsByte
PROPERTIES
    EverythingIsSent
    AssertIsReported
    ImplementsFifo
