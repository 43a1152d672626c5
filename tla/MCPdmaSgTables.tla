--------------------------- MODULE MCPdmaSgTables ---------------------------
(* Instances of PdmaSgTables for TLC.                                      *)
EXTENDS PdmaSgTables, TLC

CONSTANTS uart, i2s, spi, crc

(* A UART's receiver holds one descriptor, an I2S stream two.              *)
OneAndTwo == (uart :> 1) @@ (i2s :> 2)
TwoEach   == [u \in Users |-> 2]

(* A heap that is always clear, and one with stale words: no address of    *)
(* the pool at all, or that of its third descriptor.                       *)
NullOnly == {Null}
AnyWord  == {Null, Junk, 2}
=============================================================================
