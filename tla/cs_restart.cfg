\* The server's own file after a uart0 POST with an rts pin outside the
\* table (spec 7: loading never aborts).  Expected violated: set_uart_config
\* writes flow_ctrl "rts" before the lookup raises, a later timer0 POST
\* dumps the item, and ConfigHelper() raises IndexError on a restart.
CONSTANTS
    Docs <- ServerDocs
    Edits <- ServerEditsRestart
    Gate <- ServerGate
    MaxSets = 3
SPECIFICATION ServerSpec
INVARIANT ServerRestartable
