------------------------------ MODULE MCSymCrypto ------------------------------
(* Instances of SymCrypto: characters of two bits, headers of two characters,  *)
(* and passwords that are empty, that meet their own end once encoded, or that *)
(* fill or exceed the room for them.                                           *)
EXTENDS SymCrypto

CONSTANTS j1, j2, j3

ThreeJobs == {j1, j2, j3}

a == {1}
b == {2}
c == {1, 2}
TwoBits == {1, 2}
EncodeKeyDef == <<a, b>>

Empties == <<>>
OneLong == <<c>>
Collides == <<c, b>>
TwoLong == <<b, a>>
Fills == <<b, a, b>>
Exceeds == <<b, a, b, a>>

AllKeys == {Empties, OneLong, Collides, TwoLong, Fills, Exceeds}

Plain(body) == [head |-> NoHead, body |-> body]
Foreign(minor, ext) ==
    [head |-> Signed(minor, <<c>>, "foreign", ext, 0), body |-> <<a>>]

AllInputs ==
    {Plain(<<a>>), Plain(<<a, b, {}, c, a>>), Foreign(Minor, ".zb"), Foreign(2, ".spc"),
     Foreign(Minor, ".spc")}

\* Operations are alike: they are asked for in order.  The third one is asked
\* for only among passwords and inputs that can be decoded at all.
Plays(j) == job[j].pc # "idle"
InOrder == (Plays(j2) => Plays(j1)) /\ (Plays(j3) => Plays(j2))
FewKeys == {<<>>, OneLong, TwoLong}
ThirdPlays ==
    Plays(j3) =>
        /\ files[Input].head = NoHead
        /\ \A j \in Jobs : job[j].key \in FewKeys

Asked == (InOrder /\ ThirdPlays)'
===============================================================================
