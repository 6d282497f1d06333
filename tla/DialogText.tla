----------------------------- MODULE DialogText -----------------------------
(***************************************************************************)
(* The text of the dialogs legacy/firmware/layout2.c composes itself      *)
(* before it hands the lines to layoutDialogSwipe: the word index of      *)
(* layoutResetWord, the change count of layoutChangeCountOverThreshold,   *)
(* the header of layoutXPUB, the rows of layoutSignIdentity and           *)
(* layoutDecryptIdentity, the delay of layoutConfirmAutoLockDelay, the   *)
(* seconds line and the Fastpay rows of layoutDeviceInfo, the CoSi, Omni, *)
(* amount, fee, NEM address and NEM levy dialogs, and the placement of    *)
(* the QR code of layoutAddress.                                           *)
(*                                                                         *)
(* A C string is a sequence of characters indexed from 1 where the code   *)
(* indexes from 0.  A character is a one-letter string; a fixed text of   *)
(* the code that is only ever copied whole is Text(name, n), n characters *)
(* that stand for its n letters.                                           *)
(***************************************************************************)
EXTENDS Integers, Sequences, FiniteSetsExt, SequencesExt

CONSTANTS
    WordPositions,  \* word_pos values layoutResetWord is called with
    ChangeCounts,   \* change_count values
    XpubIndices,    \* index values of layoutXPUB
    Identities,     \* IdentityType records
    Delays,         \* auto-lock delays as [secs, rem], see below
    CosiPaths,      \* address_n of layoutCosiCommitSign, sequences of [h, i]
    CosiLens,       \* len of its data
    OmniData,       \* OP_RETURN buffers of layoutConfirmOmni, 20 bytes or more
    OmniSizes,      \* size passed with them
    QrSides,        \* qrcodegen_getSize results layoutAddress can get
    AmountLens,     \* lengths of the amount texts bn_format_uint64 makes
    NEM_ADDRESS_SIZE \* characters of a NEM address (nem.h)

VARIABLE call       \* the layout call whose text is checked

vars == <<call>>

Text(name, n) == [k \in 1..n |-> <<name, k>>]

Digit(d) == <<"0", "1", "2", "3", "4", "5", "6", "7", "8", "9">>[d + 1]

Calls ==
    {[fn |-> "ResetWord", word_pos |-> w, pass |-> p, last |-> l] :
        w \in WordPositions, p \in {0, 1}, l \in BOOLEAN}
    \cup {[fn |-> "ChangeCount", n |-> c] : c \in ChangeCounts}
    \cup {[fn |-> "XPUB", index |-> i, page |-> p, ours |-> o] :
            i \in XpubIndices, p \in {0, 1}, o \in BOOLEAN}
    \cup {[fn |-> f, id |-> x] : f \in {"SignIdentity", "DecryptIdentity"}, x \in Identities}
    \cup {[fn |-> "AutoLockDelay", secs |-> d.secs, rem |-> d.rem] : d \in Delays}
    \cup {[fn |-> "Cosi", path |-> p, data |-> [k \in 1..n |-> k], len |-> n, final |-> f] :
            p \in CosiPaths, n \in CosiLens, f \in BOOLEAN}
    \cup {[fn |-> "Omni", data |-> d, size |-> n] : d \in OmniData, n \in OmniSizes}
    \cup {[fn |-> "AddressQr", side |-> n] : n \in QrSides}
    \cup {[fn |-> "Fastpay", lang |-> l, pin |-> p, confirm |-> c] :
            l \in {"en", "zh"}, p \in BOOLEAN, c \in BOOLEAN}
    \cup {[fn |-> "ConfirmOutput", n |-> n, count |-> c, zh |-> z] :
            n \in AmountLens, c \in {0, 5}, z \in BOOLEAN}
    \cup {[fn |-> f] : f \in {"ConfirmTx", "FeeOverThreshold", "NEMDialog"}}
    \cup {[fn |-> "NEMLevy", matches |-> m, known |-> k, levy |-> l] :
            m \in BOOLEAN, k \in BOOLEAN, l \in {"Percentile", "Absolute", "Unset"}}

TypeOK == call \in Calls

-----------------------------------------------------------------------------
(***************************************************************************)
(* The C library calls, on strings as sequences.                          *)
(***************************************************************************)

\* strlcpy(dst, src, size): at most size - 1 characters of src.
strlcpy(src, size) == SubSeq(src, 1, Min({Len(src), size - 1}))

\* strlcat(dst, src, size): src appended while dst holds fewer than size - 1.
strlcat(dst, src, size) ==
    dst \o SubSeq(src, 1, Min({Len(src), size - 1 - Len(dst)}))

\* strchr(s, c): the index of the first c in s, 0 for none.
strchr(s, c) == SelectInSeq(s, LAMBDA x : x = c)

\* toupper() over the letters the inputs use.
UpperOf == ("a" :> "A") @@ ("g" :> "G") @@ ("h" :> "H") @@ ("p" :> "P")
           @@ ("s" :> "S") @@ ("t" :> "T")

toupper(c) == IF c \in DOMAIN UpperOf THEN UpperOf[c] ELSE c

\* The decimal digits %u and '0' + n % 10 produce, most significant first.
RECURSIVE Decimal(_)
Decimal(n) == IF n < 10 THEN <<Digit(n)>> ELSE Decimal(n \div 10) \o <<Digit(n % 10)>>

-----------------------------------------------------------------------------
(***************************************************************************)
(* layoutResetWord(word, pass, word_pos, last): index_str starts as       *)
(* "##th word is:"; cell 0 is a blank below 10 and the tens digit         *)
(* otherwise, cell 1 the units digit, cells 2-3 the ordinal suffix; the   *)
(* string is drawn from cell 1 below 10.                                  *)
(***************************************************************************)
Suffix(w) ==
    CASE w \in {1, 21} -> <<"s", "t">>
      [] w \in {2, 22} -> <<"n", "d">>
      [] w \in {3, 23} -> <<"r", "d">>
      [] OTHER         -> <<"t", "h">>

\* Mutant: 21 gets "th".
IndexStrNo21(w) ==
    LET suf == CASE w = 1 -> <<"s", "t">>
                 [] w \in {2, 22} -> <<"n", "d">>
                 [] w \in {3, 23} -> <<"r", "d">>
                 [] OTHER         -> <<"t", "h">>
        s == <<IF w < 10 THEN " " ELSE Digit(w \div 10), Digit(w % 10)>>
             \o suf \o Text(" word is:", 9)
    IN  IF w < 10 THEN Tail(s) ELSE s

IndexStr(w) ==
    LET s == <<IF w < 10 THEN " " ELSE Digit(w \div 10), Digit(w % 10)>>
             \o Suffix(w) \o Text(" word is:", 9)
    IN  IF w < 10 THEN Tail(s) ELSE s

layoutResetWord(w, pass, last) ==
    [btnYes |-> IF last THEN (IF pass = 1 THEN "Finish" ELSE "Again") ELSE "Next",
     action |-> IF pass = 1 THEN "Please check the seed" ELSE "Write down the seed",
     index  |-> IndexStr(w)]

(***************************************************************************)
(* layoutChangeCountOverThreshold: snprintf(str_change, 21,               *)
(* "There are %" PRIu32, change_count).                                    *)
(***************************************************************************)
\* Mutant: a buffer one character shorter.
ChangeSizeShort == 20

ChangeSize == 21

snprintf(size, s) == strlcpy(s, size)

layoutChangeCountOverThreshold(c) ==
    snprintf(ChangeSize, Text("There are ", 10) \o Decimal(c))

(***************************************************************************)
(* layoutXPUB: desc = "XPUB #__ _/2 (______)"; cells 6-7 hold index + 1   *)
(* (tens and units from 10 on, else units and a blank), cell 9 '1' + page,*)
(* cells 14-19 "yours)" ended by a 0 at 20, or "others" before the ')'.   *)
(***************************************************************************)
\* Mutant: two digits only from 11 on.
XpubNumberGt(n) ==
    IF n > 10 THEN <<Digit((n \div 10) % 10), Digit(n % 10)>>
    ELSE <<Digit(n % 10), " ">>

XpubNumber(n) ==
    IF n >= 10 THEN <<Digit((n \div 10) % 10), Digit(n % 10)>>
    ELSE <<Digit(n % 10), " ">>

XpubDesc(index, page, ours) ==
    Text("XPUB #", 6) \o XpubNumber(index + 1) \o <<" ", Digit(1 + page)>>
    \o Text("/2 (", 4)
    \o (IF ours THEN <<"y", "o", "u", "r", "s", ")">>
        ELSE <<"o", "t", "h", "e", "r", "s", ")">>)

-----------------------------------------------------------------------------
(***************************************************************************)
(* layoutSignIdentity and layoutDecryptIdentity: three rows built with    *)
(* strlcpy and strlcat in char row_proto[8 + 11 + 1],                     *)
(* row_hostport[64 + 6 + 1] and row_user[64 + 8 + 1].  An identity is    *)
(* [has_proto, proto, has_host, host, has_port, port, has_user, user].   *)
(***************************************************************************)
ProtoSize == 8 + 11 + 1
HostPortSize == 64 + 6 + 1
UserSize == 64 + 8 + 1

Given(id, f) == id["has_" \o f] /\ id[f] # <<>>

Https == <<"h", "t", "t", "p", "s">>
Gpg == <<"g", "p", "g">>

\* The proto row: fixed texts for https and gpg (sign only); otherwise the
\* protocol upper-cased in place, then the suffix.
ProtoRow(id, sign) ==
    IF ~Given(id, "proto")
    THEN strlcpy(IF sign THEN Text("Login to:", 9) ELSE Text("Decrypt for:", 12), ProtoSize)
    ELSE IF sign /\ id.proto = Https THEN strlcpy(Text("Web sign in to:", 15), ProtoSize)
    ELSE IF sign /\ id.proto = Gpg THEN strlcpy(Text("GPG sign for:", 13), ProtoSize)
    ELSE strlcat([k \in 1..Len(strlcpy(id.proto, ProtoSize)) |-> toupper(id.proto[k])],
                 IF sign THEN Text(" login to:", 10) ELSE Text(" decrypt for:", 13),
                 ProtoSize)

HostPortRow(id) ==
    IF ~Given(id, "host") THEN <<>>
    ELSE LET h == strlcpy(id.host, HostPortSize)
         IN  IF Given(id, "port")
             THEN strlcat(strlcat(h, <<":">>, HostPortSize), id.port, HostPortSize)
             ELSE h

UserRow(id) ==
    IF Given(id, "user") THEN strlcat(Text("user: ", 6), id.user, UserSize) ELSE <<>>

\* Mutant: the e-mail row is copied from the '<' itself.
GpgSplitAtBracket(rows) ==
    LET lt == strchr(rows.hostport, "<")
        user == strlcpy(SubSeq(rows.hostport, lt, Len(rows.hostport)), UserSize)
        gt == strchr(user, ">")
    IN  IF lt = 0 THEN rows
        ELSE [rows EXCEPT !.hostport = SubSeq(@, 1, lt - 1),
                          !.user = IF gt = 0 THEN user ELSE SubSeq(user, 1, gt - 1)]

\* is_gpg: "First Last <first@last.com>" in the host row is split at the
\* first '<' into the name and, in the user row, what follows up to '>'.
GpgSplit(rows) ==
    LET lt == strchr(rows.hostport, "<")
        user == strlcpy(SubSeq(rows.hostport, lt + 1, Len(rows.hostport)), UserSize)
        gt == strchr(user, ">")
    IN  IF lt = 0 THEN rows
        ELSE [rows EXCEPT !.hostport = SubSeq(@, 1, lt - 1),
                          !.user = IF gt = 0 THEN user ELSE SubSeq(user, 1, gt - 1)]

layoutSignIdentity(id) ==
    LET rows == [proto |-> ProtoRow(id, TRUE), hostport |-> HostPortRow(id),
                 user |-> UserRow(id)]
    IN  IF id.proto = Gpg THEN GpgSplit(rows) ELSE rows

layoutDecryptIdentity(id) ==
    [proto |-> ProtoRow(id, FALSE), hostport |-> HostPortRow(id), user |-> UserRow(id)]

-----------------------------------------------------------------------------
(***************************************************************************)
(* The auto-lock delay_ms is a uint32; TLC's integers stop at 2^31 - 1, so *)
(* it is taken as delay_ms = secs * 1000 + rem with rem < 1000, which      *)
(* covers every uint32 value up to 2^32 - 1 = 4294967 * 1000 + 295 and    *)
(* gives delay_ms / 1000U = secs.                                          *)
(***************************************************************************)
MaxSecs == 4294967

ASSUME \A d \in Delays :
    d.secs \in 0..MaxSecs /\ d.rem \in 0..999 /\ (d.secs < MaxSecs \/ d.rem <= 295)

\* layoutConfirmAutoLockDelay: num = delay_ms / 1000U, hours from
\* 60 * 60 * 1000 ms on, minutes from 60 * 1000 ms on; the unit gets an "s"
\* when num > 1.  "after <num> <unit>[s]?" is abstracted to the number,
\* the unit and the plural mark.
UnitSecs == [second |-> 1, minute |-> 60, hour |-> 3600]

\* Mutant: hours only from strictly more than an hour on.
layoutConfirmAutoLockDelayHourGt(s, r) ==
    LET unit == IF s > 60 * 60 THEN "hour" ELSE IF s >= 60 THEN "minute" ELSE "second"
        num == s \div UnitSecs[unit]
    IN  [num |-> num, unit |-> unit, plural |-> num > 1]

\* delay_ms >= T * 1000 is secs >= T for a whole number of seconds T.
layoutConfirmAutoLockDelay(s, r) ==
    LET unit == IF s >= 60 * 60 THEN "hour" ELSE IF s >= 60 THEN "minute" ELSE "second"
        num == s \div UnitSecs[unit]
    IN  [num |-> num, unit |-> unit, plural |-> num > 1]

\* layoutDeviceInfo page 2: char secstrbuf[] = "________0 s";
\* secstr = secstrbuf + 9; do { secstr--; *secstr = secs % 10 + '0';
\* secs /= 10; } while (secs > 0 && secstr >= secstrbuf);
\* Pass k writes cell 9 - k; the loop ends when the number is used up or
\* after the write at cell 0 was followed by one more pass.
SecsBufStart == 9

\* Mutant: a while loop in place of the do-while (nothing written for 0).
SecsPassesAsWhile(s) == Cardinality({j \in 0..9 : s \div 10^j > 0})

\* The passes the do-while makes: one per digit, ended by secs reaching 0,
\* or by the cell count (the pass after cell 0 writes at cell -1).
SecsPasses(s) ==
    LET digits == 1 + Cardinality({j \in 1..9 : s \div 10^j > 0})
    IN  IF digits > SecsBufStart + 1 THEN SecsBufStart + 1 ELSE digits

\* The lowest cell written, and the characters shown from there on.
SecsLowCell(s) == SecsBufStart - SecsPasses(s)

SecsDigits(s) ==
    LET n == SecsPasses(s)
    IN  [k \in 1..n |-> Digit((s \div 10^(n - k)) % 10)]

-----------------------------------------------------------------------------
(***************************************************************************)
(* layoutCosiCommitSign(address_n, count, data, len, final_sign).  A path *)
(* element is [h, i], the hardened bit and i & 0x7FFFFFFF; a byte of data *)
(* is its position, which data2hex writes as two digits.                  *)
(***************************************************************************)
\* Mutant: indices up to 10.
is_slip18Le10(path) ==
    Len(path) = 2 /\ path[1] = [h |-> TRUE, i |-> 10018] /\ path[2].h /\ path[2].i <= 10

is_slip18(path) ==
    Len(path) = 2 /\ path[1] = [h |-> TRUE, i |-> 10018] /\ path[2].h /\ path[2].i <= 9

\* The character '0' + n: a digit up to 9, the characters after '9' above.
ZeroPlus(n) == IF n <= 9 THEN Digit(n) ELSE <<"'0'+", n>>

\* "CoSi sign index #?" and "CoSi commit index #?", the '#' at cell 16 or 18.
CosiPrefix(final) ==
    IF final THEN Text("CoSi sign index ", 16) ELSE Text("CoSi commit index ", 18)

CosiGeneric(final) ==
    IF final THEN Text("CoSi sign message?", 18) ELSE Text("CoSi commit message?", 20)

CosiDesc(path, final) ==
    IF is_slip18(path)
    THEN [strlcpy(CosiPrefix(final) \o <<"#", "?">>, 32) EXCEPT
              ![Len(CosiPrefix(final)) + 1] = ZeroPlus(path[2].i)]
    ELSE CosiGeneric(final)

data2hex(bytes) == FlattenSeq([k \in DOMAIN bytes |-> <<<<"hi", bytes[k]>>, <<"lo", bytes[k]>>>>])

\* char str[4][17]: four rows of 8 bytes for a 32-byte message, four
\* words otherwise.
CosiRows(data, len) ==
    IF len = 32 THEN [k \in 1..4 |-> data2hex(SubSeq(data, 8 * (k - 1) + 1, 8 * k))]
    ELSE <<Text("Data", 4), Text("of", 2), Text("unsupported", 11), Text("length", 6)>>

layoutCosiCommitSign(path, data, len, final) ==
    [desc |-> CosiDesc(path, final), rows |-> CosiRows(data, len)]

(***************************************************************************)
(* layoutConfirmOmni(data, size).  A uint32_t load at data + p reads the  *)
(* bytes at p in little-endian order; a value is kept as that byte         *)
(* sequence, least significant first, and REVERSE32/64 reverse it.  The    *)
(* buffer runs past size: the load of tx_type at data + 4 happens before  *)
(* size is tested, and reads whatever lies there when size < 8.  The      *)
(* amount text of bn_format_uint64 is abstracted to its arguments.         *)
(***************************************************************************)
Load(data, p, w) == SubSeq(data, p + 1, p + w)

\* n as the w bytes of a little-endian word.
LEBytes(n, w) == [k \in 1..w |-> (n \div 256^(k - 1)) % 256]

OmniCurrencies ==
    (1 :> [suffix |-> "OMNI", divisible |-> TRUE]) @@ (2 :> [suffix |-> "tOMNI", divisible |-> TRUE])
    @@ (3 :> [suffix |-> "MAID", divisible |-> FALSE]) @@ (31 :> [suffix |-> "USDT", divisible |-> TRUE])

\* Mutant: the currency is compared without REVERSE32.
layoutConfirmOmniNoSwap(data, size) ==
    LET tx_type == Reverse(Load(data, 4, 4))
        currency == Load(data, 8, 4)
        known == {c \in DOMAIN OmniCurrencies : LEBytes(c, 4) = currency}
        cur == IF known = {} THEN [suffix |-> "UNKN", divisible |-> FALSE]
               ELSE OmniCurrencies[CHOOSE c \in known : TRUE]
    IN  IF tx_type = LEBytes(0, 4) /\ size = 20
        THEN [desc |-> "Simple send of ", amount |-> Reverse(Load(data, 12, 8)),
              suffix |-> cur.suffix, decimals |-> IF cur.divisible THEN 8 ELSE 0]
        ELSE [desc |-> "Unknown transaction", amount |-> <<>>, suffix |-> "", decimals |-> 0]

layoutConfirmOmni(data, size) ==
    LET tx_type == Reverse(Load(data, 4, 4))
        currency == Reverse(Load(data, 8, 4))
        known == {c \in DOMAIN OmniCurrencies : LEBytes(c, 4) = currency}
        cur == IF known = {} THEN [suffix |-> "UNKN", divisible |-> FALSE]
               ELSE OmniCurrencies[CHOOSE c \in known : TRUE]
    IN  IF tx_type = LEBytes(0, 4) /\ size = 20
        THEN [desc |-> "Simple send of ", amount |-> Reverse(Load(data, 12, 8)),
              suffix |-> cur.suffix, decimals |-> IF cur.divisible THEN 8 ELSE 0]
        ELSE [desc |-> "Unknown transaction", amount |-> <<>>, suffix |-> "", decimals |-> 0]

(***************************************************************************)
(* layoutAddress with qrcode: oledInvert(0, 0, 63, 63), then every dark   *)
(* module of a code of side <= 29 as a 2x2 box from 32 - side, and of     *)
(* side <= 60 as one pixel from 32 - side / 2.  Rows and columns are      *)
(* placed alike, so one axis is modelled.                                  *)
(***************************************************************************)
QR_MAX_VERSION == 9

QrScale(side) ==
    IF side > 0 /\ side <= 29 THEN 2 ELSE IF side > 0 /\ side <= 60 THEN 1 ELSE 0

\* Mutant: the one-pixel branch offset as in the two-pixel one.
QrOffsetAsDouble(side) == 32 - side

QrOffset(side) == IF QrScale(side) = 2 THEN 32 - side ELSE 32 - side \div 2

\* The pixel columns the modules of one row cover.
QrSpan(side) ==
    {QrOffset(side) + QrScale(side) * i + dx : i \in 0..(side - 1), dx \in 0..(QrScale(side) - 1)}

(***************************************************************************)
(* layoutDeviceInfo page 3, the Fastpay settings: English rows "Skip pin  *)
(* check:" and "Skip button confirm:" answered Yes/No, Chinese rows        *)
(* "check PIN:" and "confirm by button:" answered yes/no (是/否).          *)
(***************************************************************************)
YesNo(b) == IF b THEN "yes" ELSE "no"

FastpayRows(lang, pinFlag, confirmFlag) ==
    IF lang = "zh"
    THEN <<[label |-> "CheckPin", value |-> YesNo(~confirmFlag)],
           [label |-> "ButtonConfirm", value |-> YesNo(~confirmFlag)]>>
    ELSE <<[label |-> "SkipPinCheck", value |-> YesNo(pinFlag)],
           [label |-> "SkipButtonConfirm", value |-> YesNo(confirmFlag)]>>

(***************************************************************************)
(* The amount dialogs.  bn_format_uint64(amount, ..., out, n) writes the   *)
(* amount text when it has fewer than n characters and leaves out empty    *)
(* otherwise; an amount text is AmountText(k).  A line of a dialog is a   *)
(* fixed wording, which ui_language chooses, or a value the call passes.  *)
(***************************************************************************)
AmountText(k) == [j \in 1..k |-> <<"amount", j>>]

bn_format_uint64(text, n) == IF Len(text) < n THEN text ELSE <<>>

Wd(name) == [kind |-> "wording", x |-> name]
Val(v) == [kind |-> "value", x |-> v]

To == <<" ", "t", "o">>

\* Mutant: the amount formatted into sizeof(str_out) - 2.
layoutConfirmOutputWide(n, count, zh) ==
    LET str_out == bn_format_uint64(AmountText(n), (32 + 3) - 2)
    IN  [line2 |-> IF zh THEN str_out ELSE strlcat(str_out, To, 32 + 3),
         extra_line |-> IF count > 0 THEN "address_n_str" ELSE "NULL"]

\* layoutConfirmOutput: char str_out[32 + 3], the amount into all but 3.
layoutConfirmOutput(n, count, zh) ==
    LET str_out == bn_format_uint64(AmountText(n), (32 + 3) - 3)
    IN  [line2 |-> IF zh THEN str_out ELSE strlcat(str_out, To, 32 + 3),
         extra_line |-> IF count > 0 THEN "address_n_str" ELSE "NULL"]

\* The lines of layoutConfirmTx and layoutFeeOverThreshold, the NULL
\* lines left out; "out" and "fee" are the formatted amounts.
layoutConfirmTx(zh) ==
    IF zh THEN <<Wd("confirm send:"), Val("out"), Wd("fee included :"), Val("fee")>>
    ELSE <<Wd("Really send"), Val("out"), Wd("from your wallet?"), Wd("Fee included:"), Val("fee")>>

layoutFeeOverThreshold(zh) ==
    IF zh THEN <<Wd("fee too high:"), Wd("confirm send")>>
    ELSE <<Wd("Fee"), Val("fee"), Wd("is unexpectedly high."), Wd("Send anyway?")>>

Values(lines) == {lines[k].x : k \in {j \in DOMAIN lines : lines[j].kind = "value"}}

(***************************************************************************)
(* layoutNEMDialog: the address in three lines, two static buffers of     *)
(* NEM_ADDRESS_SIZE / 3 + 1 filled by strlcpy and the tail from           *)
(* NEM_ADDRESS_SIZE * 2 / 3 on.                                            *)
(***************************************************************************)
\* Mutant: the buffers without the cell of the terminator.
NemThirdSizeNoNul == NEM_ADDRESS_SIZE \div 3

NemThirdSize == NEM_ADDRESS_SIZE \div 3 + 1

layoutNEMDialog(address) ==
    << strlcpy(address, NemThirdSize),
       strlcpy(SubSeq(address, NEM_ADDRESS_SIZE \div 3 + 1, Len(address)), NemThirdSize),
       SubSeq(address, (NEM_ADDRESS_SIZE * 2) \div 3 + 1, Len(address)) >>

(***************************************************************************)
(* layoutNEMLevy(definition, network).  nem_mosaicMatches and             *)
(* nem_mosaicByName (nem2.c) are inputs: the levy is paid in the mosaic   *)
(* being defined, in another known mosaic, or in one unknown to the       *)
(* firmware.  nem_mosaicFormatAmount(m, ...) writes the amount with the   *)
(* ticker of m, and as a raw number for NULL; bn_format_uint64 with no    *)
(* suffix writes a raw number.  A NULL line is NoLine.                     *)
(***************************************************************************)
NoLine == [kind |-> "none", x |-> "NULL"]

\* The fee amount text with the ticker of a mosaic, or raw.
FeeIn(unit) == "fee in " \o unit

LevyMosaic(matches, known) ==
    IF matches THEN "definition" ELSE IF known THEN "other" ELSE "NULL"

\* Mutant: the raw name of an unknown mosaic passed where a known one is.
layoutNEMLevyNameSwapped(matches, known, levy) ==
    LET mosaic == LevyMosaic(matches, known)
        mosaic_name == IF mosaic = "NULL" THEN "levy_namespace.levy_mosaic" ELSE ""
    IN  IF levy = "Percentile"
        THEN <<Wd("Percentile Levy"), Wd("Raw levy value is"),
               Val(FeeIn("raw")), Wd("in"),
               CASE mosaic = "definition" -> Wd("the same mosaic")
                 [] mosaic = "other"      -> Val("mosaic->name")
                 [] OTHER                 -> Val(mosaic_name)>>
        ELSE <<Wd("Absolute Levy"), Wd("Levy is"),
               Val(FeeIn(IF mosaic = "NULL" THEN "raw" ELSE mosaic)),
               CASE mosaic = "definition" -> Wd("in the same mosaic")
                 [] mosaic = "other"      -> NoLine
                 [] OTHER                 -> Wd("in raw units of"),
               IF mosaic = "NULL" THEN NoLine ELSE Val(mosaic_name)>>

layoutNEMLevy(matches, known, levy) ==
    LET mosaic == LevyMosaic(matches, known)
        mosaic_name == IF mosaic = "NULL" THEN "levy_namespace.levy_mosaic" ELSE ""
    IN  IF levy = "Percentile"
        THEN <<Wd("Percentile Levy"), Wd("Raw levy value is"),
               Val(FeeIn("raw")), Wd("in"),
               CASE mosaic = "definition" -> Wd("the same mosaic")
                 [] mosaic = "other"      -> Val("mosaic->name")
                 [] OTHER                 -> Val(mosaic_name)>>
        ELSE <<Wd("Absolute Levy"), Wd("Levy is"),
               Val(FeeIn(IF mosaic = "NULL" THEN "raw" ELSE mosaic)),
               CASE mosaic = "definition" -> Wd("in the same mosaic")
                 [] mosaic = "other"      -> NoLine
                 [] OTHER                 -> Wd("in raw units of"),
               IF mosaic = "NULL" THEN Val(mosaic_name) ELSE NoLine>>

-----------------------------------------------------------------------------
Init == call \in Calls

\* Every call builds its text afresh from its arguments.
Next == UNCHANGED vars

Spec == Init /\ [][Next]_vars

-----------------------------------------------------------------------------
(***************************************************************************)
(* References and properties.                                             *)
(***************************************************************************)

\* The English ordinal suffix of n.
EnglishSuffix(n) ==
    IF n % 100 \in 11..13 THEN <<"t", "h">>
    ELSE CASE n % 10 = 1 -> <<"s", "t">>
           [] n % 10 = 2 -> <<"n", "d">>
           [] n % 10 = 3 -> <<"r", "d">>
           [] OTHER      -> <<"t", "h">>

\* The seed backup screens of layoutResetWord name each word by its
\* position as an English ordinal, "1st" to "24th" with "11th"-"13th" and
\* "21st"-"23rd", with no blank in front and no digit lost.
OrdinalShown ==
    call.fn = "ResetWord" =>
        layoutResetWord(call.word_pos, call.pass, call.last).index
            = Decimal(call.word_pos) \o EnglishSuffix(call.word_pos) \o Text(" word is:", 9)

\* The warning of layoutChangeCountOverThreshold shows the whole change
\* count, for every uint32 up to ten digits: snprintf never cuts a digit.
ChangeCountShown ==
    call.fn = "ChangeCount" =>
        layoutChangeCountOverThreshold(call.n) = Text("There are ", 10) \o Decimal(call.n)

\* The header of layoutXPUB reads "XPUB #" and the 1-based index of the
\* xpub in decimal, then a blank, for every index a multisig can have.
XpubDescShown ==
    call.fn = "XPUB" =>
        LET d == XpubDesc(call.index, call.page, call.ours)
            n == Decimal(call.index + 1)
        IN  SubSeq(d, 7, 6 + Len(n)) = n /\ d[7 + Len(n)] = " "

\* A GPG user id "First Last <first@last.com>": one '<', and one '>' at
\* its end.
Bracket(h, c) == {i \in DOMAIN h : h[i] = c}

IsUserId(h) ==
    /\ Len(h) >= 2 /\ h[Len(h)] = ">"
    /\ Cardinality(Bracket(h, "<")) = 1 /\ Bracket(h, ">") = {Len(h)}

\* (layoutSignIdentity) A GPG identity whose host is a user id is shown
\* as the name on the host row and the e-mail address, without its
\* brackets, on the user row, whatever port and user the identity has.
GpgUserIdSplit ==
    (call.fn = "SignIdentity" /\ call.id.proto = Gpg /\ Given(call.id, "host")
        /\ IsUserId(call.id.host)) =>
        LET h == call.id.host
            lt == CHOOSE i \in Bracket(h, "<") : TRUE
            rows == layoutSignIdentity(call.id)
        IN  /\ rows.hostport = SubSeq(h, 1, lt - 1)
            /\ rows.user = SubSeq(h, lt + 1, Len(h) - 1)

\* The rows of an identity, in full.
RefRows(id, sign) ==
    [proto |-> IF ~Given(id, "proto")
               THEN IF sign THEN Text("Login to:", 9) ELSE Text("Decrypt for:", 12)
               ELSE IF sign /\ id.proto = Https THEN Text("Web sign in to:", 15)
               ELSE IF sign /\ id.proto = Gpg THEN Text("GPG sign for:", 13)
               ELSE [k \in DOMAIN id.proto |-> toupper(id.proto[k])]
                    \o (IF sign THEN Text(" login to:", 10) ELSE Text(" decrypt for:", 13)),
     hostport |-> IF ~Given(id, "host") THEN <<>>
                  ELSE id.host \o (IF Given(id, "port") THEN <<":">> \o id.port ELSE <<>>),
     user |-> IF Given(id, "user") THEN Text("user: ", 6) \o id.user ELSE <<>>]

\* The fields the row buffers are sized for: a protocol of 8 characters,
\* a host of 64, a port of 6 and a user of 64.
FitsRows(id) ==
    Len(id.proto) <= 8 /\ Len(id.host) <= 64 /\ Len(id.port) <= 6 /\ Len(id.user) <= 64

\* (row_proto[8 + 11 + 1], row_hostport[64 + 6 + 1]) The sign-in and
\* decrypt dialogs show every character of an identity whose fields have
\* the sizes the row buffers are declared for: no row is cut by strlcat.
RowsFit ==
    (call.fn \in {"SignIdentity", "DecryptIdentity"} /\ FitsRows(call.id)
        /\ (call.fn = "SignIdentity" => call.id.proto # Gpg)) =>
        IF call.fn = "SignIdentity"
        THEN layoutSignIdentity(call.id) = RefRows(call.id, TRUE)
        ELSE layoutDecryptIdentity(call.id) = RefRows(call.id, FALSE)

\* The delay the user confirms is the one being set, to within the unit
\* shown: never more, less by under one unit, in the largest unit of which
\* it holds at least one, for every uint32 delay_ms from 1 s on.
ConfirmedDelayBounds ==
    (call.fn = "AutoLockDelay" /\ call.secs >= 1) =>
        LET t == layoutConfirmAutoLockDelay(call.secs, call.rem)
            u == UnitSecs[t.unit]
        IN  /\ t.num * u <= call.secs
            /\ call.secs < (t.num + 1) * u
            /\ \A v \in DOMAIN UnitSecs : UnitSecs[v] > u => call.secs < UnitSecs[v]

\* Page 2 of the device info shows exactly delay / 1000 in decimal, and the
\* do-while never writes below secstrbuf, for every uint32 delay.
SecsShown ==
    call.fn = "AutoLockDelay" =>
        SecsLowCell(call.secs) >= 0 /\ SecsDigits(call.secs) = Decimal(call.secs)

\* The CoSi dialog names the SLIP-18 key it signs with only by its true
\* index, in full, in the place of the '#'; otherwise it shows the plain
\* question; a 32-byte message appears whole, 8 bytes a row.
CosiShown ==
    call.fn = "Cosi" =>
        LET d == layoutCosiCommitSign(call.path, call.data, call.len, call.final)
            p == call.path
        IN  /\ \/ d.desc = CosiGeneric(call.final)
               \/ /\ Len(p) = 2 /\ p[1] = [h |-> TRUE, i |-> 10018] /\ p[2].h
                  /\ d.desc = CosiPrefix(call.final) \o Decimal(p[2].i) \o <<"?">>
            /\ call.len = 32 => FlattenSeq(d.rows) = data2hex(call.data)

\* The big-endian number a byte string stands for.
RECURSIVE BEValue(_)
BEValue(b) == IF b = <<>> THEN 0 ELSE 256 * BEValue(SubSeq(b, 1, Len(b) - 1)) + b[Len(b)]

\* (Omni layer) A 20-byte payload of version 0 and type 0 is a simple
\* send: the dialog names the property id of bytes 8-11 (big-endian) and
\* shows the amount of bytes 12-19 in its byte order; every other payload,
\* whatever lies past its end, is an unknown transaction with no amount.
OmniShown ==
    call.fn = "Omni" =>
        LET o == layoutConfirmOmni(call.data, call.size)
            d == call.data
            id == BEValue(SubSeq(d, 9, 12))
        IN  IF call.size = 20 /\ \A k \in 5..8 : d[k] = 0
            THEN /\ o.desc = "Simple send of "
                 /\ Reverse(o.amount) = SubSeq(d, 13, 20)
                 /\ o.suffix = IF id \in DOMAIN OmniCurrencies THEN OmniCurrencies[id].suffix ELSE "UNKN"
            ELSE o.desc = "Unknown transaction" /\ o.amount = <<>>

\* Every QR code the encoder can give for versions 1 to QR_MAX_VERSION is
\* drawn, inside the 64x64 square oledInvert clears for it, and centred
\* to within one pixel.
QrShown ==
    (call.fn = "AddressQr" /\ call.side > 0) =>
        LET span == QrSpan(call.side)
        IN  /\ QrScale(call.side) > 0
            /\ span \subseteq 0..63
            /\ Min(span) - (63 - Max(span)) \in {-1, 0, 1}

\* What a row of the Fastpay page says: an English "Skip ..." row says the
\* check is skipped with "yes", a Chinese row names the check and says it
\* is skipped with "no".
Skipped(row) ==
    IF row.label \in {"SkipPinCheck", "SkipButtonConfirm"} THEN row.value = "yes" ELSE row.value = "no"

\* A confirmed output never shows part of an amount: the line holds the
\* amount text whole or, where bn_format_uint64 cannot write it, nothing,
\* and the English dialog always ends it with the whole " to".
OutputAmountShown ==
    call.fn = "ConfirmOutput" =>
        LET suffix == IF call.zh THEN <<>> ELSE To
        IN  layoutConfirmOutput(call.n, call.count, call.zh).line2
                \in {AmountText(call.n) \o suffix, suffix}

\* A NEM dialog shows the whole address, in order, on its three lines.
NemAddressShown ==
    call.fn = "NEMDialog" =>
        LET address == [k \in 1..NEM_ADDRESS_SIZE |-> k]
        IN  FlattenSeq(layoutNEMDialog(address)) = address

\* The lines of a levy dialog that say which mosaic the levy is paid in.
Names(m) ==
    CASE m = "definition" -> {Wd("the same mosaic"), Wd("in the same mosaic")}
      [] m = "other"      -> {Val("mosaic->name"), Val(FeeIn("other"))}
      [] OTHER            -> {Val("levy_namespace.levy_mosaic")}

\* A NEM levy dialog always says which mosaic the levy is paid in: the
\* mosaic being defined, another known mosaic by its name or ticker, or an
\* unknown one by the raw name nem_mosaicFormatName writes; and a levy
\* amount without a ticker is always marked as raw.
LevyNamesMosaic ==
    call.fn = "NEMLevy" =>
        LET d == layoutNEMLevy(call.matches, call.known, call.levy)
            m == LevyMosaic(call.matches, call.known)
        IN  /\ \E k \in DOMAIN d : d[k] \in Names(m)
            /\ Val(FeeIn("raw")) \in {d[k] : k \in DOMAIN d} =>
                  \E k \in DOMAIN d : d[k] \in {Wd("Raw levy value is"), Wd("in raw units of")}

\* (spec, localization) ui_language chooses only the wording: the Chinese
\* dialog of a call shows the same values as the English one, and its
\* Fastpay rows say the same of the PIN check and the button confirmation.
LanguageNeutral ==
    /\ call.fn = "ConfirmTx" => Values(layoutConfirmTx(TRUE)) = Values(layoutConfirmTx(FALSE))
    /\ call.fn = "FeeOverThreshold" =>
          Values(layoutFeeOverThreshold(TRUE)) = Values(layoutFeeOverThreshold(FALSE))
    /\ call.fn = "Fastpay" =>
          \A k \in 1..2 : Skipped(FastpayRows("zh", call.pin, call.confirm)[k])
                          = Skipped(FastpayRows("en", call.pin, call.confirm)[k])

=============================================================================
