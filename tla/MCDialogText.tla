---------------------------- MODULE MCDialogText ----------------------------
EXTENDS DialogText

\* A seed has 12, 18 or 24 words: every position a backup names.
MCWordPositions == 1..24

\* Every digit count of a uint32 up to ten digits (TLC's integers stop at
\* 2^31 - 1, which has as many digits as 2^32 - 1).
MCChangeCounts == {0, 1, 9, 10, 99, 100, 999999999, 1000000000, 2147483647}

\* A multisig has at most 15 cosigners; the indices run past that.
MCXpubIndices == 0..30

Rep(c, n) == [k \in 1..n |-> c]

\* Protocols: https and gpg (fixed texts), a short one, and lengths around
\* the 8 characters row_proto is sized for.
MCProtos == {<<>>, Https, Gpg, <<"s", "s", "h">>, Rep("a", 7), Rep("a", 8)}

\* Hosts: short, 64 characters, and GPG user ids with and without a name,
\* with a missing '>' and a '<' at the end.
MCHosts ==
    {<<>>, Rep("a", 3), Rep("a", 64),
     Rep("a", 2) \o <<"<">> \o Rep("a", 2) \o <<">">>,
     <<"<", ">">>, <<"a", "<", "a">>, <<"a", "<">>}

MCPorts == {<<>>, Rep("1", 5), Rep("1", 6)}

MCUsers == {<<>>, Rep("a", 3), Rep("a", 64)}

MCIdentities ==
    [has_proto : BOOLEAN, proto : MCProtos, has_host : BOOLEAN, host : MCHosts,
     has_port : BOOLEAN, port : MCPorts, has_user : BOOLEAN, user : MCUsers]
\* Every boundary of the units and the digit counts, each side of it, and
\* the largest uint32 delay_ms (4294967 s and 295 ms).
Edges == {0, 1, 2, 9, 10, 59, 60, 61, 119, 120, 121, 99, 100, 999, 1000,
          3599, 3600, 3601, 7199, 7200, 7201, 9999, 10000, 86399, 86400,
          99999, 100000, 999999, 1000000, 4294966, MaxSecs}

MCDelays ==
    {[secs |-> s, rem |-> r] : s \in Edges \cup (0..130), r \in {0, 295}}
    \cup {[secs |-> s, rem |-> 999] : s \in Edges \ {MaxSecs}}

\* SLIP-18 paths with the indices around the single digit, an unhardened
\* index, a wrong purpose, and paths of other lengths.
MCCosiPaths ==
    {<<>>, <<[h |-> TRUE, i |-> 10018]>>,
     <<[h |-> TRUE, i |-> 10017], [h |-> TRUE, i |-> 0]>>,
     <<[h |-> TRUE, i |-> 10018], [h |-> FALSE, i |-> 3]>>,
     <<[h |-> TRUE, i |-> 10018], [h |-> TRUE, i |-> 0], [h |-> TRUE, i |-> 0]>>}
    \cup {<<[h |-> TRUE, i |-> 10018], [h |-> TRUE, i |-> n]>> : n \in {0, 1, 9, 10, 11, 99}}

MCCosiLens == {0, 31, 32, 33}

\* Byte values for the Omni fields: 0, small, the known ids and one past.
OmniBytes == {0, 1, 3, 31}

\* Every type and currency of those bytes in their last position, the type
\* and currency bytes moved to the front, and two amounts.
MCOmniData ==
    {<<111, 109, 110, 105>> \o <<v, 0, 0, t>> \o <<0, 0, 0, c>> \o a :
        v \in {0, 1}, t \in OmniBytes, c \in OmniBytes,
        a \in {<<0, 0, 0, 0, 0, 0, 0, 1>>, <<1, 2, 3, 4, 5, 6, 7, 8>>}}
    \cup {<<111, 109, 110, 105, 0, 0, 0, 0>> \o <<c, 0, 0, 0>> \o <<1, 2, 3, 4, 5, 6, 7, 8>> :
            c \in OmniBytes}

\* Sizes below the 8 bytes read before the test, around 20, and above.
MCOmniSizes == {0, 4, 8, 19, 20, 21, 40}

\* qrcodegen_getSize is 4 * version + 17 for the versions 1 to
\* QR_MAX_VERSION the encoder may pick, and 0 when the text does not fit.
MCQrSides == {0} \cup {4 * v + 17 : v \in 1..QR_MAX_VERSION}

\* Amount texts up to the 31 characters str_out can take, and past them.
MCAmountLens == {0, 1, 30, 31, 32, 33}

\* NEM_ADDRESS_SIZE of trezor-crypto's nem.h.
MCNemAddressSize == 40

=============================================================================
