\* Two server threads serving up to five uart, timer and pin-table
\* requests, some with a TX pin set_uart_config rejects: at rest after
\* requests that all succeeded, file, document, record and pin table agree.
CONSTANTS
    t1 = t1
    t2 = t2
    t3 = t3
    Threads = {t1, t2}
    Bauds = {115200}
    FormPins = {2, 5, 7}
    Prios = {0, 1}
    MaxRequests = 5
SPECIFICATION Spec
SYMMETRY MCThreadSymmetry
\* A server whose threads are all idle and that receives no more requests
\* waits; MaxRequests bounds the requests it receives.
CHECK_DEADLOCK FALSE
INVARIANTS TypeOK QuiescentAgreement
