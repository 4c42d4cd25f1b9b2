------------------------------- MODULE MCWire -------------------------------
(***************************************************************************)
(* An instance of Wire for TLC: every circulation has one draft of each    *)
(* type with a message out of Messages, or a set-keys alert followed by an *)
(* alert, perhaps of the same type, that old and new keys sign.            *)
(***************************************************************************)
EXTENDS Wire

Fill(n, b) == [i \in 1 .. n |-> b]

\* Keys are told apart by their number; one that begins with 2 parses.
Key(k) == <<2>> \o Fill(32, k)
BadKey == <<9>> \o Fill(32, 0)
KeyParses(k) == k[1] = 2
\* Stands for a signature: it names its key and depends on the data.
KeySign(k, data) ==
  [i \in 1 .. 65 |-> IF i = 1 THEN k[33] ELSE data[1 + ((i * i) % Len(data))]]

FirstKeys == <<Key(1), Key(2), Key(3), Key(4), Key(5)>>
Three == <<Key(1), Key(2), Key(3)>>

Draft(a, number, signers) ==
  [type |-> a.type, message |-> a.message, number |-> number, second |-> 59, signers |-> signers]

Hash == Fill(32, 205)
ToolAlerts ==
  {InfoAlert(<<84>> \o Fill(104, 101)), FreezeAlert(Hash),
   ConfiscateAlert(<<221>> \o Fill(31, 27)), InvalidateBlockAlert(Hash)}

\* Numbers at the edges of bytes and markers, with too few, enough and too many
\* bytes behind them
Strings ==
  {<<p>> \o Fill(n, 1) : p \in {0, 1, 2, 252, 253, 254, 255}, n \in {0, 1, 2, 3}}
    \cup {<<n>> \o Fill(n, b) : n \in {5, 252}, b \in {0, 255}}
    \cup {<<253, 253, 0>> \o Fill(n, 7) : n \in {252, 253, 254}}
    \cup {<<m, 1, 0, 0, 0>> \o Fill(n, 0) : m \in {253, 254}, n \in 0 .. 2}
    \cup {<<255, 2, 0, 0, 0, b, 0, 0, 0>> \o Fill(n, 65) : b \in {0, 1}, n \in 1 .. 3}

Short == {s \in Strings : Len(s) < 12}

Fund == FundSerialize(Hash, 0, 10000, 10100, 1)
HighFund(k) == [Fund EXCEPT ![k] = 128]
Funds ==
  {Fill(n, 1) : n \in {56, 57, 58, 113, 114, 115}}
    \cup {HighFund(k) : k \in {39, 40, 41, 48, 56, 57}}
    \cup {Fund \o HighFund(k) : k \in {40, 48, 56}}

Messages(t) ==
  CASE t = 1 -> Strings
    [] t \in {2, 3} -> Funds
    [] t = 4 -> {h \o s : h \in {LE64(10000), Fill(8, 127), Fill(8, 128)}, s \in Strings}
                  \cup {LE64(1)}
    [] t \in {5, 6} -> {s \o r : s \in Short, r \in Short}
    [] t = 7 -> {Hash \o s : s \in Strings} \cup {Fill(31, 0), Hash}
    [] t = 8 -> {Fill(n, 2) : n \in {164, 166}}
    [] OTHER -> {Fill(2, 1)}

\* The second set keeps two of the first keys, and its third key may not parse.
NewKeys(bad) == Key(2) \o Key(3) \o (IF bad THEN BadKey ELSE Key(6)) \o Key(7) \o Key(8)
Info == <<1, 65>>

Rotations ==
  {{Draft([type |-> Word(8), message |-> NewKeys(bad)], 1, Three),
    Draft([type |-> Word(1), message |-> Info], 2, signers)} :
     bad \in BOOLEAN,
     signers \in {Three, <<Key(2), Key(3), Key(7)>>}}

\* Two set-keys alerts.  Both bring in the same key, or another one each, and
\* the second is then signed with the first one's key, perhaps along with one
\* that nobody has.
KeysWith(k) == Key(1) \o Key(2) \o Key(3) \o Key(4) \o Key(k)
Succession(k, signers) ==
  {Draft([type |-> Word(8), message |-> KeysWith(6)], 1, Three),
   Draft([type |-> Word(8), message |-> KeysWith(k)], 2, signers)}

Successions ==
  {Succession(6, Three), Succession(7, <<Key(6), Key(6), Key(6)>>),
   Succession(7, <<Key(6), Key(9), Key(9)>>)}

Types == KnownTypes \cup {9, 99}
Alone ==
  UNION {{{Draft([type |-> Word(t), message |-> m], 1, Three)} : m \in Messages(t)} : t \in Types}
MCCirculations == Alone \cup {{Draft(a, 1, Three)} : a \in ToolAlerts} \cup Rotations
                    \cup Successions

\* Version, number 0, timestamp, type; three signatures, which no node looks at
MCGenesisRaw == Word(1) \o Word(0) \o LE64(17) \o Word(8) \o Fill(195, 1)

Unsigned == Word(1) \o Word(1) \o LE64(17) \o Word(1) \o Info \o Fill(195, 1)
MCNoise == {<<>>, Fill(19, 1), Fill(20, 1), SubSeq(Unsigned, 1, 216), Unsigned}

\* Of the alerts that the tool can write, nodes read two.
ASSUME ToolAlertsRead ==
  {a \in ToolAlerts : Read(a.type, a.message)} = {FreezeAlert(Hash), InvalidateBlockAlert(Hash)}
=============================================================================
