\* Spec 7: a Set that fails on an unknown value leaves the model unchanged.
\* Expected violated: set_uart_config writes baud and pin before the TX
\* function lookup raises ValueError.
CONSTANTS
    t1 = t1
    t2 = t2
    t3 = t3
    Threads = {t1}
    Bauds = {9600, 115200}
    FormPins = {2, 7}
    Prios = {0, 1}
    MaxRequests = 2
SPECIFICATION Spec
SYMMETRY MCThreadSymmetry
\* A server whose threads are all idle and that receives no more requests
\* waits; MaxRequests bounds the requests it receives.
CHECK_DEADLOCK FALSE
PROPERTY FailedSetLeavesModel
