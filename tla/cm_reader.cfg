\* The pin table served by GET /wmdt/chip holds the claims of the
\* document.  Expected violated: set_devices_pin replaces self.pinmux by an
\* empty table before refilling it while another thread reads it.
CONSTANTS
    t1 = t1
    t2 = t2
    t3 = t3
    Threads = {t1, t2}
    Bauds = {9600, 115200}
    FormPins = {2, 5}
    Prios = {0, 1}
    MaxRequests = 2
SPECIFICATION Spec
SYMMETRY MCThreadSymmetry
\* A server whose threads are all idle and that receives no more requests
\* waits; MaxRequests bounds the requests it receives.
CHECK_DEADLOCK FALSE
INVARIANT ReaderSeesClaims
