--------------------------- MODULE MCTransferEngine ---------------------------
(* Instances of the transfer engine for TLC.                                 *)
EXTENDS TransferEngine, TLC

CONSTANTS t1, t2

\* One table of three rows, one of one row.
LongAndShort == t1 :> <<1, 2, 3>> @@ t2 :> <<1>>

\* One table of two rows.
Two == t1 :> <<1, 2>>

\* Two tables of one row.
OneEach == t1 :> <<1>> @@ t2 :> <<1>>

=============================================================================
