---------------------------- MODULE T2JEncoding ----------------------------
(***************************************************************************)
(* What a conversion should give: a recursive encoder of the value itself, *)
(* not of its bytes, which collects the members of an object first and     *)
(* joins them afterwards, and the claim that T2J computes it.              *)
(* A value is <<"lit", n>>, <<"struct", fields>> with fields [id, v],      *)
(* <<"list", values>>, or <<"map", pairs>> with pairs [key, v].            *)
(***************************************************************************)
EXTENDS T2J

\* The message of a value.
RECURSIVE Bin(_, _)
Bin(typ, v) ==
    CASE Kind(typ) \in Scalars -> <<Val(v[2])>>
      [] Kind(typ) = "list" ->
             <<ListTok(Kind(Types[typ].e), Len(v[2]))>>
             \o FlattenSeq([i \in DOMAIN v[2] |-> Bin(Types[typ].e, v[2][i])])
      [] Kind(typ) = "map" ->
             <<MapTok(Kind(Types[typ].key), Kind(Types[typ].e), Len(v[2]))>>
             \o FlattenSeq([i \in DOMAIN v[2] |->
                    <<Val(v[2][i].key)>> \o Bin(Types[typ].e, v[2][i].v)])
      [] Kind(typ) = "struct" ->
             FlattenSeq([i \in DOMAIN v[2] |->
                 LET t == v[2][i].typ
                 IN  <<FieldTok(v[2][i].id, Kind(t))>> \o Bin(t, v[2][i].v)])
             \o <<Stop>>

\* A result: what was written, what the response was given, and whether it is an error.
Res(out, sets) == [err |-> FALSE, out |-> out, sets |-> sets]
Error          == [err |-> TRUE, out |-> <<>>, sets |-> <<>>]

\* Parts one after the other, with commas between those that wrote something.
Joined(parts) ==
    LET written == SelectSeq(parts, LAMBDA r : r.out # <<>>)
        between == [i \in DOMAIN written |-> CommaIf(i > 1) \o written[i].out]
    IN  IF \E i \in DOMAIN parts : parts[i].err THEN Error
        ELSE Res(FlattenSeq(between), FlattenSeq([i \in DOMAIN parts |-> parts[i].sets]))

Around(l, r, m) == IF m.err THEN Error ELSE Res(<<l>> \o m.out \o <<r>>, m.sets)
After(key, r)   == IF r.err THEN Error ELSE Res(Key(key) \o r.out, r.sets)

RECURSIVE Enc(_, _, _, _)

\* The first mapping that takes the value, if any.
ToResponse(field, id, v, cx) ==
    LET r     == Enc(field.typ, v, [cx EXCEPT !.root = FALSE], cx.resp)
        takes == {i \in DOMAIN field.hms : Response(field.hms[i], TRUE, r.out) = "ok"}
        first == Min(takes)
        fails == takes = {} \/ first > 1
    IN  CASE r.err                      -> [done |-> TRUE, r |-> Error]
          [] fails /\ ~cx.opts.omit     -> [done |-> TRUE, r |-> Error]
          [] takes # {}                 -> [done |-> TRUE,
                                            r |-> Res(<<>>, Append(r.sets, <<field.hms[first], id, r.out>>))]
          [] OTHER                      -> [done |-> FALSE, r |-> Res(<<>>, r.sets)]

Body(field, id, v, cx) ==
    IF cx.opts.vm /\ field.vm THEN Res(Key(id) \o <<<<"quoted", v[2]>>>>, <<>>)
    ELSE After(id, Enc(field.typ, v, [cx EXCEPT !.root = FALSE], cx.root /\ cx.resp))

\* A field of the message: nothing for a base given to the caller, else the response or the body.
Present(s, x, cx) ==
    LET field == Structs[s][x.id]
        h     == ToResponse(field, x.id, x.v, cx)
        b     == Body(field, x.id, x.v, cx)
        keep  == Res(<<>>, h.r.sets)
    IN  CASE x.id \notin DOMAIN Structs[s] -> IF cx.opts.disallow THEN Error ELSE Res(<<>>, <<>>)
          [] cx.root /\ cx.opts.base /\ field.base /\ cx.hasBase -> Res(<<>>, <<>>)
          [] ~(cx.resp /\ cx.opts.http /\ field.hms # <<>>) -> b
          [] h.done                -> h.r
          [] ~cx.opts.fallback     -> keep
          [] b.err                 -> Error
          [] OTHER                 -> Res(b.out, keep.sets \o b.sets)

EmptyOf(field) ==
    CASE Kind(field.typ) \in Scalars -> <<"lit", Default(field)>>
      [] OTHER                       -> <<Kind(field.typ), <<>>>>

\* A field that is missing: as if its default had been sent, to the response or the body.
Missing(s, id, cx) ==
    LET field  == Structs[s][id]
        mapped == cx.resp /\ cx.opts.http /\ field.hms # <<>>
        h      == ToResponse(field, id, EmptyOf(field), cx)
    IN  CASE field.req = "required" /\ ~cx.opts.wReq -> Error
          [] Skipped(field, cx.opts) -> Res(<<>>, <<>>)
          [] OTHER -> IF mapped /\ h.done THEN h.r
                      ELSE Res(Key(id) \o EmptyJSON(field), IF mapped THEN h.r.sets ELSE <<>>)

Struct(s, xs, cx) ==
    LET seen    == {xs[i].id : i \in DOMAIN xs}
        present == [i \in DOMAIN xs |-> Present(s, xs[i], cx)]
        missing == LET ids == SelectSeq([i \in 1 .. Words(s) * WordBits |-> i - 1],
                                    LAMBDA x : x \in Marked(s) \ seen)
                   IN  [i \in DOMAIN ids |-> Missing(s, ids[i], cx)]
    IN  Around(<<"obj">>, <<"endobj">>, Joined(present \o missing))

\* cx: the options, whether the caller gave a base and, below, root and resp.
Enc(typ, v, cx, resp) ==
    LET inner == [cx EXCEPT !.resp = resp, !.root = FALSE]
    IN  CASE Kind(typ) \in Scalars -> Res(Lit(v[2]), <<>>)
          [] Kind(typ) = "list" ->
                 Around(<<"arr">>, <<"endarr">>,
                        Joined([i \in DOMAIN v[2] |-> Enc(Types[typ].e, v[2][i], inner, FALSE)]))
          [] Kind(typ) = "map" ->
                 IF v[2] # <<>> /\ Kind(Types[typ].key) \notin {"int", "str"} THEN Error
                 ELSE Around(<<"obj">>, <<"endobj">>,
                             Joined([i \in DOMAIN v[2] |->
                                 After(v[2][i].key, Enc(Types[typ].e, v[2][i].v, inner, FALSE))]))
          [] Kind(typ) = "struct" -> Struct(Types[typ].s, v[2], [cx EXCEPT !.resp = resp])

\* The first exception of a result struct is the error; nothing else of it matters then.
Exception(s, xs, cx) ==
    LET thrown == {i \in DOMAIN xs : xs[i].id \in DOMAIN Structs[s] \ {0}}
    IN  IF ~cx.opts.exc \/ thrown = {} THEN <<>>
        ELSE <<Enc(Structs[s][xs[Min(thrown)].id].typ, xs[Min(thrown)].v, [cx EXCEPT !.root = FALSE], FALSE)>>

Expected(call) ==
    LET cx   == [opts |-> call.opts, hasBase |-> call.hasBase, root |-> TRUE, resp |-> call.opts.http]
        all  == Enc(call.typ, call.v, cx, cx.resp)
        e    == IF Kind(call.typ) = "struct" THEN Exception(Types[call.typ].s, call.v[2], cx) ELSE <<>>
    IN  CASE call.cut   -> <<"error">>
          [] e # <<>>   -> IF e[1].err THEN <<"error">> ELSE <<"exception", e[1].out, <<>>>>
          [] all.err    -> <<"error">>
          [] OTHER      -> <<"ok", all.out, all.sets>>

Result(c) == IF c.ret \in {"ok", "exception"} THEN <<c.ret, c.outs[1], c.sets>> ELSE <<c.ret>>

-----------------------------------------------------------------------------
(***************************************************************************)
(* Properties.                                                             *)
(***************************************************************************)
\* A conversion gives what the encoder of the value gives: the same JSON, the same parts of
\* the response in the same order, an error exactly where there is one, and no panic; whatever
\* other conversions have left in the bitmaps or do at the same time.
Agrees == \A p \in Procs : st[p].ret \notin {"idle", "none"} => Result(st[p]) = Expected(st[p].call)

\* Every conversion returns: the loops over fields, elements, mappings and marks all end.
Returns == \A p \in Procs : st[p].ret = "none" ~> st[p].ret # "none"

=============================================================================
