---------------------------- MODULE SplitMessage ----------------------------
(***************************************************************************)
(* The message pager of legacy/firmware/layout2.c and the callers that    *)
(* choose its row width: is_valid_ascii(), split_message(),               *)
(* split_message_hex(), the message dialogs that pick text or hex,        *)
(* render_address_dialog(), layoutAddress() and layoutXPUB().             *)
(*                                                                         *)
(* A byte is a record: its kind (a printable character, a NUL, another    *)
(* non-printable byte, a '.' or a hex digit written by data2hex) and the  *)
(* position it came from, so that a row can be compared with the input it *)
(* shows.  The widths of the code (rows of 32, hex of 32 bytes in rows of *)
(* 16, addresses and xpubs in rows of 21) are constants; the model keeps  *)
(* every relation between them that the code relies on.                   *)
(*                                                                         *)
(* The pager has no state: the variables hold one input (the buffer as it *)
(* lies in memory, the length passed, the row width passed) and the       *)
(* properties are checked for every input of the bounded set.             *)
(***************************************************************************)
EXTENDS Integers, SequencesExt

CONSTANTS
    RowCap,     \* 32: split_message clamps rowlen and has rows of 32 + 1
    HexMax,     \* 32: split_message_hex encodes at most 32 bytes
    HexRow,     \* 16: the row width split_message_hex passes
    XpubRow,    \* 21: the row width of layoutXPUB
    AddrRow,    \* 21: the widest row of render_address_dialog/layoutAddress
    ShortAddr,  \* 10: layoutAddress draws shorter addresses on one line
    Inputs      \* the set of [buf, len, rowlen] checked

\* The hex text (2 * HexMax characters) fills the four rows exactly.
ASSUME /\ 4 * HexRow = 2 * HexMax
       /\ HexRow <= RowCap /\ XpubRow <= RowCap /\ AddrRow <= RowCap
       /\ XpubRow >= 3 /\ AddrRow >= 3

VARIABLES buf, len, rowlen

vars == <<buf, len, rowlen>>

Byte(kind, pos) == [t |-> kind, i |-> pos, h |-> 0]
Txt(pos) == Byte("txt", pos)      \* a printable character, ' '..'~'
Bin(pos) == Byte("bin", pos)      \* a byte outside ' '..'~', not 0
Nul(pos) == Byte("nul", pos)      \* a 0 byte
Fe(pos) == Byte("fe", pos)        \* 0xFE, the NEM hex-payload mark
Zero == Nul(0)                    \* a 0 written by memzero or strlcpy
Dot == Byte("dot", 0)             \* '.'
\* The two characters data2hex writes for byte c.
HexDigit(c, half) == [t |-> "hex", i |-> c.i, h |-> half]

IsNul(c) == c.t = "nul"

TypeOK ==
    /\ len \in Nat
    /\ rowlen \in Nat
    /\ buf \in Seq([t : {"txt", "bin", "nul", "dot", "fe"}, i : Nat, h : {0}])
    /\ Len(buf) > len /\ IsNul(buf[Len(buf)])

-----------------------------------------------------------------------------
(***************************************************************************)
(* The code.                                                               *)
(***************************************************************************)

\* Mutant: only the upper bound c <= '~' is tested, so a 0 byte passes.
is_valid_ascii_upper(b, size) == \A i \in 1..size : b[i].t # "bin"

\* is_valid_ascii(data, size): every byte in ' '..'~'.
is_valid_ascii(b, size) == \A i \in 1..size : b[i].t \in {"txt", "dot"}

\* The characters strlcpy(dst, src + off, size) copies: up to size - 1, up
\* to the first 0 byte (it never looks at the length the caller was given).
StrlcpyLen(b, off, size) ==
    LET n == SelectInSubSeq(b, off + 1, Len(b), IsNul) - (off + 1)
    IN  IF n < size - 1 THEN n ELSE size - 1

\* A row of static char str[4][RowCap + 1] after memzero and strlcpy.
CopyRow(b, off, size) ==
    [j \in 0..RowCap |-> IF j < StrlcpyLen(b, off, size) THEN b[off + j + 1]
                                                          ELSE Zero]

EmptyRow == [j \in 0..RowCap |-> Zero]

\* Mutant: rowlen is not clamped to the row buffers.
ClampNone(r) == r

\* The width split_message really uses.
Clamp(r) == IF r > RowCap THEN RowCap ELSE r

\* split_message(msg, len, rowlen) writes str[3][rowlen - 3] with an
\* unsigned index: for rowlen < 3 that is far outside the row.
SplitUB(n, r) == n > Clamp(r) * 4 /\ Clamp(r) < 3

(***************************************************************************)
(* split_message(msg, len, rowlen): row k is copied from msg + k * rowlen *)
(* when len > k * rowlen (row 0 always); when len > 4 * rowlen the last   *)
(* three cells of row 3 are overwritten with '.'.                         *)
(***************************************************************************)
split_message(b, n, r0) ==
    LET r == Clamp(r0)
        rows == [k \in 0..3 |-> IF k = 0 \/ n > r * k THEN CopyRow(b, r * k, r + 1)
                                                      ELSE EmptyRow]
    IN  IF n > r * 4
        THEN [rows EXCEPT ![3] = [@ EXCEPT ![r - 1] = Dot, ![r - 2] = Dot,
                                           ![r - 3] = Dot]]
        ELSE rows

(***************************************************************************)
(* split_message_hex(msg, len): data2hex of at most HexMax bytes into a   *)
(* zeroed buffer, the last two hex characters replaced by '.' when len is *)
(* larger, then split_message with rows of HexRow.                         *)
(***************************************************************************)
HexText(b, n) ==
    LET size == IF n > HexMax THEN HexMax ELSE n
        digits == FlattenSeq([i \in 1..size |-> <<HexDigit(b[i], 1), HexDigit(b[i], 2)>>])
        hex == digits \o [j \in 1..(2 * HexMax + 1 - 2 * size) |-> Zero]
    IN  IF n > HexMax
        THEN [hex EXCEPT ![2 * HexMax] = Dot, ![2 * HexMax - 1] = Dot]
        ELSE hex

split_message_hex(b, n) ==
    split_message(HexText(b, n), 2 * (IF n > HexMax THEN HexMax ELSE n), HexRow)

\* layoutSignMessage / layoutVerifyMessage / layoutConfirmOpReturn: text
\* rows when every byte is printable, the hex rows otherwise.
MessageRows(b, n, r) ==
    IF is_valid_ascii(b, n) THEN split_message(b, n, r) ELSE split_message_hex(b, n)

\* layoutEncryptMessage / layoutDecryptMessage: rows of 16, whatever the
\* bytes are.
CipherMessageRows(b, n) == split_message(b, n, HexRow)

(***************************************************************************)
(* layoutNEMTransferPayload(payload, length, encrypted): a payload that   *)
(* starts with 0xFE is shown as the hex of the bytes after it, written by *)
(* data2hex into a zeroed char encoded[(length - 1) * 2 + 1] and split     *)
(* with sizeof(encoded) - 1 in rows of 16; any other payload is split as  *)
(* it is.                                                                  *)
(***************************************************************************)
\* Mutant: the terminating 0 of encoded is counted in the length.
NemEncodedLenSizeof(n) == (n - 1) * 2 + 1

NemEncodedLen(n) == (n - 1) * 2 + 1 - 1

NemHex(b, n) ==
    FlattenSeq([i \in 1..(n - 1) |-> <<HexDigit(b[i + 1], 1), HexDigit(b[i + 1], 2)>>])
    \o <<Zero>>

layoutNEMTransferPayload(b, n) ==
    IF n >= 1 /\ b[1].t = "fe"
    THEN split_message(NemHex(b, n), NemEncodedLen(n), HexRow)
    ELSE split_message(b, n, HexRow)

\* layoutPublicKey(pubkey): the 32 key bytes after the type byte, passed
\* to split_message_hex with the length 32 * 2.
layoutPublicKey(b) == split_message_hex(Tail(b), 2 * HexMax)

\* C's int division, which truncates toward zero.
CDiv(a, d) == IF a < 0 THEN -((-a) \div d) ELSE a \div d

\* render_address_dialog: two rows up to 2 * 21 characters, else three,
\* rows of (addrlen - 1) / numlines + 1 clamped to 21; all four rows are
\* drawn.
AddressLineLen(addrlen) ==
    LET numlines == IF addrlen <= 2 * AddrRow THEN 2 ELSE 3
        linelen == CDiv(addrlen - 1, numlines) + 1
    IN  IF linelen > AddrRow THEN AddrRow ELSE linelen

\* Mutant: two rows are drawn for one character more than they hold.
AddressDrawnRowsOff(addrlen) ==
    IF addrlen <= 2 * AddrRow + 1 THEN 2 ELSE IF addrlen <= 3 * AddrRow THEN 3 ELSE 4

\* layoutAddress without QR code: addresses longer than 10 characters in
\* rows of 21, of which 2 (up to 42 characters), 3 (up to 63) or 4 are
\* drawn.
AddressDrawnRows(addrlen) ==
    IF addrlen <= 2 * AddrRow THEN 2 ELSE IF addrlen <= 3 * AddrRow THEN 3 ELSE 4

\* Mutant: page 1 starts one character too far on.
XpubStrideSkip == 4 * XpubRow - 2

\* layoutXPUB: page p starts 4 * 21 - 3 = 81 characters further on.
XpubStride == 4 * XpubRow - 3

XpubRows(b, page) ==
    LET rest == SubSeq(b, page * XpubStride + 1, Len(b))
    IN  split_message(rest, SelectInSeq(rest, IsNul) - 1, XpubRow)

-----------------------------------------------------------------------------
(***************************************************************************)
(* What a row shows, and the reference the rows are compared with.        *)
(***************************************************************************)

\* The characters of a row up to its first 0.
Shown(row) ==
    LET s == [j \in 1..(RowCap + 1) |-> row[j - 1]]
    IN  SubSeq(s, 1, SelectInSeq(s, IsNul) - 1)

ShownRows(rows) == [k \in 1..4 |-> Shown(rows[k - 1])]

\* The text t cut into four rows of r, with "..." over its last three
\* characters when it does not fit.
RefRows(t, r) ==
    LET u == IF Len(t) > 4 * r THEN SubSeq(t, 1, 4 * r - 3) \o <<Dot, Dot, Dot>>
             ELSE t
        upto(x) == IF x < Len(u) THEN x ELSE Len(u)
    IN  [k \in 1..4 |-> SubSeq(u, upto(r * (k - 1)) + 1, upto(r * k))]

\* The hex text of the first HexMax bytes, ".." over its last two digits
\* when there are more.
RefHex(b, n) ==
    LET size == IF n > HexMax THEN HexMax ELSE n
        d == FlattenSeq([i \in 1..size |-> <<HexDigit(b[i], 1), HexDigit(b[i], 2)>>])
    IN  IF n > HexMax THEN SubSeq(d, 1, 2 * HexMax - 2) \o <<Dot, Dot>> ELSE d

Msg == SubSeq(buf, 1, len)

\* The buffer ends at len: a 0 follows the message.
Terminated == IsNul(buf[len + 1])

\* The message holds text only: a string the caller measured with strlen.
IsString == Terminated /\ \A i \in 1..len : buf[i].t = "txt"

-----------------------------------------------------------------------------
Init ==
    \E in \in Inputs : buf = in.buf /\ len = in.len /\ rowlen = in.rowlen

\* The pager keeps nothing between calls: every input is checked on its own.
Next == UNCHANGED vars

Spec == Init /\ [][Next]_vars

-----------------------------------------------------------------------------
(***************************************************************************)
(* Properties.                                                            *)
(***************************************************************************)

\* The text of a row sequence, row after row.
Joined(rows) == FlattenSeq(ShownRows(rows))

\* What a reader must see of the text t: all of it, or its first 4r - 3
\* characters and "..." when it is longer than 4r.
Expected(t, r) ==
    IF Len(t) > 4 * r THEN SubSeq(t, 1, 4 * r - 3) \o <<Dot, Dot, Dot>> ELSE t

\* Whatever rowlen a caller passes (up to 33 here), every row split_message
\* or split_message_hex leaves in static char str[4][33] holds a 0 within
\* its 33 cells, so oledDrawString never reads past the row.
RowsTerminated ==
    \A rows \in {split_message(buf, len, rowlen), MessageRows(buf, len, rowlen)} :
        \A k \in 0..3 : \E j \in 0..RowCap : IsNul(rows[k][j])

\* layoutSignMessage, layoutVerifyMessage and layoutConfirmOpReturn show a
\* message as its text in rows of rowlen (clamped to 32) when every byte is
\* printable (' '..'~'), and as the hex of its first 32 bytes in rows of 16
\* otherwise: row by row exactly the reference, truncation marked, no byte
\* of the message dropped or hidden behind a 0 byte.
MessageShown ==
    (Terminated /\ rowlen >= 3) =>
        ShownRows(MessageRows(buf, len, rowlen)) =
            IF \A i \in 1..len : buf[i].t = "txt"
            THEN RefRows(Msg, Clamp(rowlen))
            ELSE RefRows(RefHex(buf, len), HexRow)

\* An address confirmed with render_address_dialog (layoutConfirmOutput,
\* layoutVerifyAddress) or displayed with layoutAddress is shown whole when
\* it fits four rows of 21 and with "..." otherwise: the row width computed
\* from its length never drops a character, never leaves one in a row that
\* is not drawn, and never sends split_message out of bounds.
AddressShown ==
    IsString =>
        LET linelen == AddressLineLen(len)
            dialog == split_message(buf, len, linelen)
            drawn == AddressDrawnRows(len)
            rows == ShownRows(split_message(buf, len, AddrRow))
            screen == IF len > ShortAddr THEN FlattenSeq(SubSeq(rows, 1, drawn))
                      ELSE Msg
        IN  /\ ~SplitUB(len, linelen)
            /\ Joined(dialog) = Expected(Msg, AddrRow)
            /\ screen = Expected(Msg, AddrRow)

\* layoutXPUB shows an xpub of up to 81 + 84 characters on its two pages
\* so that every character appears on one of them (the three hidden under
\* "..." on page 0 open page 1) and nothing else but the marker does.
XpubPagesCover ==
    (IsString /\ len > XpubStride /\ len <= XpubStride + 4 * XpubRow) =>
        ToSet(Joined(XpubRows(buf, 0)) \o Joined(XpubRows(buf, 1))) \ {Dot}
            = ToSet(Msg)

\* A NEM payload marked with 0xFE is shown as the hex of every byte after
\* the mark, in rows of 16, with "..." over the end when it has more than
\* 64 hex digits and not otherwise.
NemHexShown ==
    (Terminated /\ len >= 1 /\ buf[1].t = "fe") =>
        ShownRows(layoutNEMTransferPayload(buf, len))
            = RefRows(FlattenSeq([i \in 1..(len - 1) |->
                                   <<HexDigit(buf[i + 1], 1), HexDigit(buf[i + 1], 2)>>]),
                      HexRow)

\* (spec 4.1b) Callers choose plain or hex pagination by testing whether
\* the bytes are all printable: no message dialog (sign, verify,
\* OP_RETURN, encrypt, decrypt, NEM payload) puts a non-printable byte on
\* screen.
BinaryShownAsHex ==
    Terminated =>
        \A rows \in {MessageRows(buf, len, 20), CipherMessageRows(buf, len),
                     layoutNEMTransferPayload(buf, len)} :
            \A k \in 1..4 : \A c \in ToSet(ShownRows(rows)[k]) : c.t \notin {"bin", "fe"}

\* (spec 4.1b) hex mode marks truncation with ".." only when the source is
\* longer than 32 bytes: the 32-byte key layoutPublicKey shows appears in
\* full, all 64 hex digits.
PublicKeyShown ==
    len = HexMax + 1 =>
        ShownRows(layoutPublicKey(buf)) = RefRows(RefHex(Tail(buf), HexMax), HexRow)

=============================================================================
