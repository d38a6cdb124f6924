------------------------------ MODULE MCConfig ------------------------------
(* Instances of Config for TLC. Names are a letter long: l, p, t, x, c and v stand for
   Listen, Path, Type, Text, CtlFile and Preview, blocks s, i, o and r for StaticText,
   Stdin, OggStdin and SHRecord, q for a directive that nobody looks up. *)
EXTENDS Config

MCName == Seq(0 .. 255)

MCFold(name) == [i \in DOMAIN name |-> IF name[i] \in 65 .. 90 THEN name[i] + 32 ELSE name[i]]

\* The bytes of a name as a number: the order of strcasecmp by its first three.
Byte(name, i) == IF i \in DOMAIN name THEN name[i] ELSE 0

MCRank(name) ==
    1 + Byte(name, 1) * 65536 + Byte(name, 2) * 256 + Byte(name, 3)

\* p and q share a bucket, x and v do (as text and preview), l and whatever else does.
MCHash(name) ==
    CASE name \in {<<112>>, <<113>>} -> 0
      [] name \in {<<120>>, <<118>>} -> 9
      [] name = <<116>>              -> 4
      [] name = <<99>>               -> 15
      [] OTHER                       -> 5

\* Pointers that come before, between and behind the names.
MCAddress == {0, MCRank(<<113>>), MCRank(<<255>>)}

MCKind(name) ==
    CASE name # <<>> /\ MCFold(name)[1] = 115 -> "StaticText"
      [] name # <<>> /\ MCFold(name)[1] = 105 -> "Stdin"
      [] name # <<>> /\ MCFold(name)[1] = 111 -> "OggStdin"
      [] name # <<>> /\ MCFold(name)[1] = 114 -> "SHRecord"
      [] OTHER -> "other"

MCOn(value) == value # <<>> /\ value[1] = 49
MCOff(value) == value # <<>> /\ value[1] = 48
MCResolves(value) == value # <<>> /\ value[1] \in 48 .. 57

ListenName == <<108>>
PathName == <<112>>
TypeName == <<116>>
TextName == <<120>>
CtlFileName == <<99>>
PreviewName == <<118>>
DefaultText == <<100>>

NL == <<10>>
Line1(name, value) == <<name, 32>> \o value \o NL
Open(name) == <<60, name, 62>> \o NL
Close(name) == <<60, 47, name, 62>> \o NL

\* Every text of up to four of these characters.
Small == BoundedSeq({10, 32, 35, 60, 62, 47, 34, 97, 92, 49}, 4) \ {<<>>}

Listens == {Line1(108, <<49>>), Line1(76, <<50>>)}

Bodies == {
    Line1(112, <<97>>) \o Line1(120, <<98>>),
    Line1(120, <<98>>) \o Line1(118, <<49>>) \o Line1(113, <<97>>) \o Line1(112, <<34, 97, 34>>) \o Line1(80, <<98>>),
    Line1(116, <<98, 35>>) \o Line1(112, <<99>>) \o Line1(99, <<97>>) \o Line1(118, <<48>>)}

Blocks == {Open(k) \o body \o Close(k) : k \in {115, 105, 111, 114}, body \in Bodies}

Odd == {Open(105), Close(105), Line1(113, <<97>>), Line1(107, <<97>>), Line1(112, <<100>>) \o Line1(120, <<101>>),
        <<113, 10>>, <<35, 97, 10>>, <<113, 35, 10>>,
        <<113, 32, 92, 120, 54, 49, 98, 10>>, <<113, 32, 92, 49, 92, 110, 10>>,
        <<113, 32, 92, 49, 255, 97, 10>>}

Files == {FlattenSeq(s) : s \in BoundedSeq(Blocks \cup Odd \cup Listens, 2)} \ {<<>>}

MCTexts == Small \cup Files
MCArgs == {<<51>>}
=============================================================================
