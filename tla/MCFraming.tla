----------------------------- MODULE MCFraming ------------------------------
(* Instances of Framing for TLC. *)
EXTENDS Framing

\* No data, data that look like a special byte, data with a byte that the BSP
\* checksum covers in front of one that it does not, a message of full size whose
\* checksum is escaped, and one of full size in which every byte is escaped.
\* MARK and ESC are lengths as well: of the last three the length is escaped.
MCDatas == {<<>>, <<MARK>>, <<1, ESC>>, <<ESCMARK, 1, ESC>>, <<ESC, MARK, ESC>>}
=============================================================================
