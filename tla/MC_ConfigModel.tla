--------------------------- MODULE MC_ConfigModel ---------------------------
(***************************************************************************)
(* Model-checking instances of the Device Config Model under concurrent    *)
(* requests: two or three server threads, two baud rates, TX pins that    *)
(* set_uart_config accepts (2, 5) and one it rejects (7).                 *)
(***************************************************************************)
EXTENDS ConfigModel

CONSTANTS t1, t2, t3

MCThreadSymmetry == Permutations(Threads)

====
