--------------------------- MODULE MCSplitMessage ---------------------------
(***************************************************************************)
(* SplitMessage with the widths of the code, over strings up to the       *)
(* longest the xpub pages can hold, messages with one non-printable or 0  *)
(* byte at every position up to past the hex limit, and strings whose     *)
(* buffer goes on past the length passed.                                 *)
(***************************************************************************)
EXTENDS SplitMessage

MCRowCap == 32
MCHexMax == 32
MCHexRow == 16
MCXpubRow == 21
MCAddrRow == 21
MCShortAddr == 10

\* A string of n characters and its terminating 0.
Str(n) == [i \in 1..n |-> Txt(i)] \o <<Nul(n + 1)>>

\* The row widths the callers pass (16, 18, 20, 21) and one above the clamp.
TextRows == {16, 18, 20, 21, 33}

Strings ==
    {[buf |-> Str(n), len |-> n, rowlen |-> r] : n \in 0..170, r \in TextRows}

\* Message lengths around the hex limit (32) and the row boundaries of 16
\* and 20.
BinLens == (1..20) \cup {31, 32, 33, 34, 47, 48, 49, 60, 61, 63, 64, 65, 66, 70}

\* Messages with a byte at position p that is not printable, or 0.
Binary ==
    UNION {{[buf |-> [i \in 1..n |-> IF i = p THEN Byte(k, i) ELSE Txt(i)] \o <<Nul(n + 1)>>,
             len |-> n, rowlen |-> r] :
                p \in 1..n, k \in {"bin", "nul"}, r \in {16, 20}} : n \in BinLens}

\* Strings whose buffer holds one more character than the length passed.
Overlong ==
    {[buf |-> Str(n + 1), len |-> n, rowlen |-> r] : n \in 0..21, r \in {16, 20}}

\* NEM payloads marked with 0xFE, up to past 32 bytes after the mark (64
\* hex digits, four rows of 16).
NemHexPayloads ==
    {[buf |-> [i \in 1..n |-> IF i = 1 THEN Fe(i) ELSE Txt(i)] \o <<Nul(n + 1)>>,
      len |-> n, rowlen |-> 16] :
        n \in 1..40}

MCInputs == Strings \cup Binary \cup Overlong \cup NemHexPayloads

=============================================================================
