--------------------------- MODULE MC_ProtoValue ---------------------------
(***************************************************************************)
(* Instances of ProtoValue for TLC: one schema, a few messages, and the    *)
(* calls of each run.                                                      *)
(***************************************************************************)
EXTENDS ProtoDecode

\* message R { 1: int32 a; 2: M m; 3: repeated int32 li; 4: map<string, int32> mp;
\*             5: repeated string ls; 6: map<string, N> mn }
\* message M { 1: string s; 2: N n; 3: repeated int32 li; 8: map<int32, int32> mp }
\* message N { 1: int32 x; 2: string y }
D(typ, id, elem, key, msg) == [typ |-> typ, id |-> id, elem |-> elem, key |-> key, msg |-> msg]
Scalar(typ, id)  == D(typ, id, typ, "int", "N")
Msg(id, msg)     == D("msg", id, "msg", "int", msg)
ListOf(typ, id)  == D("list", id, typ, "int", "N")
MapOf(k, e, id)  == D("map", id, e, k, "N")

MCFields ==
    [R |-> <<Scalar("int", 1), Msg(2, "M"), ListOf("int", 3), MapOf("str", "int", 4),
             ListOf("str", 5), MapOf("str", "msg", 6)>>,
     M |-> (1 :> Scalar("str", 1)) @@ (2 :> Msg(2, "N")) @@ (3 :> ListOf("int", 3))
           @@ (8 :> MapOf("int", "int", 8)),
     N |-> <<Scalar("int", 1), Scalar("str", 2)>>]

-----------------------------------------------------------------------------
\* Well-formed bytes.
Prefixed(b)      == AppendVarint(Len(b)) \o b
Str(n)           == Prefixed([i \in 1 .. n |-> 7])
F(num, typ, b)   == AppendTag(num, WireType(typ)) \o b
MapPair(num, kt, k, vt, v) == F(num, "msg", Prefixed(F(1, kt, k) \o F(2, vt, v)))
Packed(num, vs)  == F(num, "str", Prefixed(FlattenSeq([i \in DOMAIN vs |-> AppendVarint(vs[i])])))
KeyK == <<7>>
KeyJ == <<8>>

NBytes == F(1, "int", <<3>>)
MBytes == F(1, "str", Str(5)) \o F(2, "msg", Prefixed(NBytes))
MpOf(ks) == FlattenSeq([i \in DOMAIN ks |-> MapPair(4, "str", Prefixed(ks[i]), "int", <<i>>)])
MapM == MapPair(8, "int", <<2>>, "int", <<9>>)

Small == F(1, "int", <<1>>)
Full  == Small \o F(2, "msg", Prefixed(MBytes))
Pairs == Small \o F(5, "str", Str(2)) \o MpOf(<<KeyJ, KeyK>>)
MCInitBufs == {Full, Pairs}

\* Paths.
At(t, n) == [t |-> t, n |-> n, k |-> <<>>]
Id(n)    == At("id", n)
Name(n)  == At("name", n)
Ix(n)    == At("index", n)
IK(k)    == At("intKey", k)
SK(k)    == [t |-> "strKey", n |-> 0, k |-> k]

Sub(t, raw)    == [t |-> t, raw |-> raw]
Call(path, sub) == [path |-> path, sub |-> sub]

MCGets == { <<Id(1)>>, <<Name(2)>>, <<Id(2), Id(1)>>, <<Name(2), Name(2), Id(1)>>,
            <<Id(2), Id(2), Id(2)>>, <<Id(2), Id(3)>>, <<Id(2), Id(3), Ix(0)>>,
            <<Id(2), Id(3), Ix(40)>>, <<Id(4)>>, <<Id(4), SK(KeyJ)>>, <<Id(4), SK(<<6>>)>>,
            <<Id(2), Id(8)>>, <<Id(2), Id(8), IK(2)>>, <<Id(2), Id(8), IK(4)>>, <<Id(5)>>, <<Id(7)>> }

MCSets == { Call(<<Id(1)>>, Sub("str", Str(1))),
            Call(<<Name(2), Id(1)>>, Sub("str", Str(1))),
            Call(<<Id(2)>>, Sub("msg", Prefixed(F(2, "msg", Prefixed(NBytes))))),
            Call(<<Id(2), Name(2), Name(2)>>, Sub("str", Str(12))),
            Call(<<Id(2), Id(3)>>, Sub("list", Packed(3, <<5>>))),
            Call(<<Id(2), Id(3), Ix(0)>>, Sub("int", AppendVarint(20))),
            Call(<<Id(2), Id(3), Ix(40)>>, Sub("int", <<6>>)),
            Call(<<Id(2), Id(8)>>, Sub("map", MapM)),
            Call(<<Id(4), SK(KeyK)>>, Sub("int", <<5>>)),
            Call(<<Id(5), Ix(40)>>, Sub("str", Str(1))) }

MCUnsets == { <<Id(2)>>, <<Id(2), Id(1)>>, <<Id(2), Id(2), Id(1)>>, <<Id(2), Name(2), Name(2)>>,
              <<Id(2), Id(3), Ix(0)>>, <<Id(2), Id(8), IK(2)>>,
              <<Id(2), Id(8), IK(4)>>, <<Id(4), SK(KeyJ)>>, <<Id(4)>>, <<Id(5), Ix(0)>> }

\* Several children at once: with and without a place, found in another order than asked for.
Steps(path, steps) == [path |-> path, steps |-> steps]
Many(path, steps, subs) == [path |-> path, steps |-> steps, subs |-> subs]
MCGetManys == { Steps(<<>>, <<Id(5), Id(2), Id(4), Id(6)>>), Steps(<<Id(2)>>, <<Id(3), Id(1), Id(2)>>),
                Steps(<<Id(2), Id(3)>>, <<Ix(1), Ix(0)>>), Steps(<<Id(2), Id(2)>>, <<Id(2)>>),
                Steps(<<Id(5)>>, <<Ix(1), Ix(7), Ix(0)>>), Steps(<<Id(4)>>, <<SK(KeyK)>>) }
MCSetManys == { Many(<<>>, <<Id(5), Id(1)>>, <<Sub("list", F(5, "str", Str(1))), Sub("int", <<1>>)>>),
                Many(<<Id(2)>>, <<Id(3), Id(1), Id(2)>>,
                     <<Sub("list", Packed(3, <<5, 6>>)), Sub("str", Str(1)), Sub("msg", Prefixed(NBytes))>>),
                Many(<<Id(2), Id(3)>>, <<Ix(1), Ix(0), Ix(9)>>,
                     <<Sub("int", <<6>>), Sub("int", AppendVarint(20)), Sub("int", <<6>>)>>),
                Many(<<Id(5)>>, <<Ix(0), Ix(40)>>, <<Sub("str", Str(1)), Sub("str", Str(1))>>),
                Many(<<Id(4)>>, <<SK(KeyK)>>, <<Sub("int", <<5>>)>>) }

-----------------------------------------------------------------------------
\* A map of messages, and a call that makes the message of its second pair longer.
MnPair(k) == MapPair(6, "str", Prefixed(k), "msg", Prefixed(NBytes))
PairBufs  == {Small \o MnPair(KeyJ) \o MnPair(KeyK)}
PairSets  == {Call(<<Id(6), SK(KeyK), Id(2)>>, Sub("str", Str(1))),
              Call(<<Id(6), SK(KeyK), Id(1)>>, Sub("int", <<1>>))}
PairGets  == {<<Id(6)>>, <<Id(6), SK(KeyK)>>, <<Id(6), SK(KeyK), Id(2)>>}
NoPaths   == {}
=============================================================================
