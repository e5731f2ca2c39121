------------------------------ MODULE MCScanner ------------------------------
(* The browser with two sessions and several starts, and Android.           *)
EXTENDS Scanner

CONSTANTS ean, qr, odd

MCCodes == {ean, qr, odd}
MCPrinted == {ean}
MCFitting == {ean, qr}
MCDevices == { [native |-> FALSE, codes |-> MCCodes, sessions |-> 2, starts |-> 1],
               [native |-> FALSE, codes |-> {qr}, sessions |-> 2, starts |-> 2],
               [native |-> TRUE, codes |-> {qr, odd}, sessions |-> 3, starts |-> 0] }
=============================================================================
