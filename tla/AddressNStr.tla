---------------------------- MODULE AddressNStr ----------------------------
(***************************************************************************)
(* The derivation-path humanizer of legacy/firmware/layout2.c:            *)
(* address_n_str() and slip44_extras().                                   *)
(*                                                                         *)
(* A path element is a uint32 split into its two parts the code tests:    *)
(* the hardened bit (i & 0x80000000) and the index (i & 0x7fffffff), so   *)
(* that indices up to 2^31 - 1 stay within TLC's integers.  A label is a  *)
(* sequence of characters, except the fixed words of the canonical label *)
(* and the coin tickers, which are single tokens.                         *)
(*                                                                         *)
(* The coin registry (coinBySlip44) is external: it is the constant Coins. *)
(***************************************************************************)
EXTENDS Integers, FiniteSets, SequencesExt

CONSTANTS
    Coins,      \* set of [slip44 : Elem, shortcut, has_segwit, bech32]
    Inputs      \* set of [path : Seq(Elem), acct : BOOLEAN] checked

\* i & 0x7fffffff at its largest.
MaxIndex == 2147483647

Elem == [hard : BOOLEAN, v : 0..MaxIndex]
H(v) == [hard |-> TRUE, v |-> v]      \* 0x80000000 + v
U(v) == [hard |-> FALSE, v |-> v]     \* v

None == "none"

VARIABLES path, acct

vars == <<path, acct>>

TypeOK ==
    /\ path \in Seq(Elem)
    /\ acct \in BOOLEAN

-----------------------------------------------------------------------------
(***************************************************************************)
(* The code.                                                               *)
(***************************************************************************)

Digit(d) == <<"0", "1", "2", "3", "4", "5", "6", "7", "8", "9">>[d + 1]

\* slip44_extras(coin_type): tickers of non-Bitcoin coins, hardened only.
Extras == (40 :> "EXP") @@ (43 :> "NEM") @@ (60 :> "ETH") @@ (61 :> "ETC")
              @@ (108 :> "UBQ") @@ (137 :> "RSK") @@ (37310 :> "tRSK")

slip44_extras(coin_type) ==
    IF coin_type.hard /\ coin_type.v \in DOMAIN Extras THEN Extras[coin_type.v]
    ELSE None

BIP32_MAX_LAST_ELEMENT == 1000000

\* coinBySlip44: the registry entry for a coin type; the empty set stands
\* for the NULL it returns for an unknown one.
coinBySlip44(x) == {c \in Coins : c.slip44 = x}

\* The known BIP44/49/84 path shape.
IsCanonical(p) ==
    /\ Len(p) = 5
    /\ p[1] \in {H(44), H(49), H(84)}
    /\ p[2].hard /\ p[3].hard
    /\ ~p[4].hard /\ p[4].v <= 1
    /\ ~p[5].hard /\ p[5].v <= BIP32_MAX_LAST_ELEMENT

\* The ticker and the legacy mark chosen by purpose and registry entry.
Abbr(p) ==
    LET coin == coinBySlip44(p[2])
        ticker == IF coin = {} THEN None ELSE (CHOOSE c \in coin : TRUE).shortcut
        segwit == \E c \in coin : c.has_segwit
        bech32 == \E c \in coin : c.has_segwit /\ c.bech32
    IN  CASE p[1] = H(84) -> [abbr |-> IF bech32 THEN ticker ELSE None, legacy |-> FALSE]
          [] p[1] = H(49) -> [abbr |-> IF segwit THEN ticker ELSE None, legacy |-> FALSE]
          [] coin # {}    -> [abbr |-> ticker, legacy |-> segwit]
          [] OTHER        -> [abbr |-> slip44_extras(p[2]), legacy |-> FALSE]

\* accnum - 1: the index that is counted (accnum = index + 1).
AccIndex(p, a) == IF a THEN p[5].v ELSE p[3].v

\* acc[]: one digit below 10, two digits otherwise.
AccDigits(accnum) ==
    IF accnum < 10 THEN <<Digit(accnum)>>
    ELSE <<Digit(accnum \div 10), Digit(accnum % 10)>>

\* Mutant: " legacy" is never appended.
NamedLabelNoLegacy(p, a) ==
    <<Abbr(p).abbr>>
    \o (IF p[1] = H(84) THEN <<" segwit">> ELSE <<>>)
    \o <<IF a THEN " address #" ELSE " account #">>
    \o AccDigits(AccIndex(p, a) + 1)

\* The label strlcpy/strlcat compose in path[100].
NamedLabel(p, a) ==
    LET ab == Abbr(p)
    IN  <<ab.abbr>>
        \o (IF ab.legacy THEN <<" legacy">> ELSE <<>>)
        \o (IF p[1] = H(84) THEN <<" segwit">> ELSE <<>>)
        \o <<IF a THEN " address #" ELSE " account #">>
        \o AccDigits(AccIndex(p, a) + 1)

IsNamed(p, a) ==
    IsCanonical(p) /\ Abbr(p).abbr # None /\ AccIndex(p, a) < 99

(***************************************************************************)
(* The raw rendering: static char address_str[7 + 8 * (1 + 10 + 1) + 1],  *)
(* written from its end towards its start through the pointer c.  The    *)
(* model keeps what lies from c + 1 to the end: a write at c is a         *)
(* character put in front, and c + 1 = AddressStrSize - Len(w); a start   *)
(* below 0 is a write below the buffer.                                   *)
(***************************************************************************)
AddressStrSize == 7 + 8 * (1 + 10 + 1) + 1

Put(w, ch) == <<ch>> \o w

\* Mutant: a while loop in place of the do-while (no digit for 0).
DoWhileCountAsWhile(i) == Cardinality({j \in 0..9 : i \div 10^j > 0})

\* The number of times do { ... i /= 10; } while (i > 0) runs: once, and
\* once more for every power of ten up to i (i < 2^31 < 10^10).
DoWhileCount(i) == 1 + Cardinality({j \in 1..9 : i \div 10^j > 0})

\* do { *c = '0' + (i % 10); c--; i /= 10; } while (i > 0): pass j writes
\* the digit of 10^(j-1), so the last digit written, the first in front of
\* c, is the most significant one.
EmitDigits(w, i) ==
    LET n == DoWhileCount(i)
    IN  [j \in 1..n |-> Digit((i \div 10^(n - j)) % 10)] \o w

\* for (n = address_n_count - 1; n >= 0; n--): ', the digits, '/'.
RECURSIVE EmitPath(_, _, _)
EmitPath(p, m, w) ==
    IF m < 1 THEN w
    ELSE EmitPath(p, m - 1,
                  Put(EmitDigits(IF p[m].hard THEN Put(w, "'") ELSE w, p[m].v), "/"))

\* *c = 0 first, "Path: m" last.
RawWrite(p) == <<"P", "a", "t", "h", ":", " ", "m">> \o EmitPath(p, Len(p), <<"\\0">>)

RawStart(p) == AddressStrSize - Len(RawWrite(p))

RawLabel(p) == SubSeq(RawWrite(p), 1, Len(RawWrite(p)) - 1)

\* address_n_str(address_n, address_n_count, address_is_account).
address_n_str(p, a) ==
    CASE Len(p) > 8     -> <<"Unknown long path">>
      [] Len(p) = 0     -> <<"P", "a", "t", "h", ":", " ", "m">>
      [] IsNamed(p, a)  -> NamedLabel(p, a)
      [] OTHER          -> RawLabel(p)

-----------------------------------------------------------------------------
Init == \E in \in Inputs : path = in.path /\ acct = in.acct

\* address_n_str keeps nothing a later call depends on.
Next == UNCHANGED vars

Spec == Init /\ [][Next]_vars

-----------------------------------------------------------------------------
(***************************************************************************)
(* References and properties.                                             *)
(***************************************************************************)

\* The decimal digits of v, most significant first.
RECURSIVE Decimal(_)
Decimal(v) == IF v < 10 THEN <<Digit(v)>> ELSE Decimal(v \div 10) \o <<Digit(v % 10)>>

\* "Path: m" and "/<index>" for every element, "'" after a hardened one.
RefRaw(p) ==
    <<"P", "a", "t", "h", ":", " ", "m">>
    \o FlattenSeq([k \in 1..Len(p) |->
                     <<"/">> \o Decimal(p[k].v) \o (IF p[k].hard THEN <<"'">> ELSE <<>>)])

\* What a label tells the user: the purpose, coin, level and counted index of
\* a canonical label, the whole path of a raw one. The counted index of an
\* address-level label is the address index alone: the account and the
\* chain are not part of it (spec 4.2), so "#1" of account 0' and of
\* account 9' mean the same here.
Meaning(p, a) ==
    IF IsNamed(p, a)
    THEN [kind |-> "named", p |-> SubSeq(p, 1, 2), n |-> AccIndex(p, a), a |-> a]
    ELSE [kind |-> "raw", p |-> p, n |-> 0, a |-> FALSE]

\* Every label of a path of at most 8 elements and what it means, computed
\* once for all inputs.
Labels ==
    {[l |-> address_n_str(q.path, q.acct), m |-> Meaning(q.path, q.acct)] :
        q \in {r \in Inputs : Len(r.path) <= 8}}

\* A path that is not given a canonical label is rendered right to left into
\* address_str[104]: the pointer c never runs below the buffer, even for
\* eight hardened elements of ten digits, and the text from c on is exactly
\* "Path: m/i0/i1/.../in" with "'" after every hardened element.
RawPathExact ==
    (Len(path) \in 1..8 /\ ~IsNamed(path, acct)) =>
        /\ RawStart(path) >= 0
        /\ RawLabel(path) = RefRaw(path)

\* The label address_n_str shows on a confirmation screen never stands for
\* two things it distinguishes: two paths of at most 8 elements with the same
\* label have the same purpose variant (legacy, segwit or neither), coin
\* type, level (account or address) and counted index (the account number,
\* or the address index, whose account the label does not show), or are the
\* same path (raw).
LabelsUnambiguous ==
    Len(path) <= 8 =>
        LET label == address_n_str(path, acct)
            meaning == Meaning(path, acct)
        IN  \A t \in Labels : t.l = label => t.m = meaning

=============================================================================
