--------------------------- MODULE MCAddressNStr ---------------------------
(***************************************************************************)
(* AddressNStr over a registry of three Bitcoin-family coins, canonical    *)
(* paths around every boundary the code tests, and raw paths of every     *)
(* length with indices of one, two and ten digits.                        *)
(***************************************************************************)
EXTENDS AddressNStr

\* A coin with segwit and bech32, one with segwit only, one with neither.
MCCoins ==
    { [slip44 |-> H(0), shortcut |-> "BTC", has_segwit |-> TRUE, bech32 |-> TRUE],
      [slip44 |-> H(2), shortcut |-> "SEG", has_segwit |-> TRUE, bech32 |-> FALSE],
      [slip44 |-> H(3), shortcut |-> "DOGE", has_segwit |-> FALSE, bech32 |-> FALSE] }

Small == {H(v) : v \in {0, 1, 9, 10, MaxIndex}} \cup {U(v) : v \in {0, 1, 9, 10, MaxIndex}}
Few == {H(0), U(0), H(10), U(MaxIndex)}

RawPaths ==
    {<<>>} \cup {<<e>> : e \in Small} \cup {<<e, f>> : e, f \in Small}
    \cup {<<e, f, g>> : e, f, g \in Few}
    \cup {[k \in 1..n |-> e] : n \in 4..9, e \in Small}

\* Purpose, coin (registry, extras, unhardened, unknown), account, change
\* and address index on both sides of each bound.
CanonicalPaths ==
    {<<p, c, a, ch, i>> :
        p \in {H(44), H(49), H(84), U(44)},
        c \in {H(0), H(2), H(3), H(60), U(60), H(5)},
        a \in {H(0), H(9), H(99), U(0)},
        ch \in {U(0), U(2)},
        i \in {U(0), U(9), U(99), U(1000001)}}

MCInputs == {[path |-> p, acct |-> a] : p \in RawPaths \cup CanonicalPaths, a \in BOOLEAN}

=============================================================================
