--------------------------- MODULE MCHostTransfer ---------------------------
(* Three devices: the first is a computer or a phone, the others may be    *)
(* either.                                                                 *)
EXTENDS HostTransfer

CONSTANTS a, b, c

MCDevices == {a, b, c}
Computers == {a, b}
=============================================================================
