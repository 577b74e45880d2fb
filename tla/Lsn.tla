-------------------------------- MODULE Lsn --------------------------------
(***************************************************************************)
(* A position in the WAL on its way through text: format_lsn prints the    *)
(* two words of an LSN, the server reads them back as the start of the     *)
(* stream.  A text is the pair of the numbers printed around the slash.    *)
(***************************************************************************)
EXTENDS Integers

CONSTANT WordSize   \* the values of a word, 2^32 in the code

ASSUME WordSizeAssumption == WordSize \in Nat \ {0}

\* format!("{:X}/{:X}", lsn >> 32, lsn & 0xFFFFFFFF)
FormatLsn(lsn) == <<lsn \div WordSize, lsn % WordSize>>

\* How the server reads the position of START_REPLICATION.
ParseLsn(text) == text[1] * WordSize + text[2]
=============================================================================
