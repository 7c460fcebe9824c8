-------------------------- MODULE MCConfigDocument --------------------------
(* Documents that bring providers into conflict, leave fields out, or have *)
(* odd settings.                                                           *)
EXTENDS ConfigDocument

p == <<"p">>
q == <<"q">>
rule(id, body, models, cost, costs, default) ==
    [id |-> id, body |-> body, models |-> models, cost |-> cost, costs |-> costs, default |-> default]

pa == rule(p, "a", {1}, None, None, TRUE)
pb == rule(p, "b", {1}, 7, None, TRUE)
priced == rule(p, "a", {1, 2}, 7, 1 :> 8 @@ 2 :> 9, TRUE)
p2 == rule(<<"p", 2>>, "c", None, None, None, TRUE)
qa == rule(q, "a", {1}, None, 3 :> 8, TRUE)
bare == rule(q, "n", {1}, None, None, FALSE)
empty == rule(q, "h", {}, None, None, FALSE)

a == <<"a">>
ab == <<"a", "b">>
default == <<"d">>
MCModels == {a, ab, <<"b">>, <<"a", "b", "d">>}

entry(m, id) == [model |-> m, provider |-> id]
Tables == {None,
           <<entry(a, p), entry(ab, q), entry(default, p), entry(a, q)>>}

group(id, table, idList, own, active) ==
    [id |-> id, table |-> table, ids |-> idList, own |-> own, active |-> active]

Groups1 == {group("g1", t, i, o, c) : t \in Tables, i \in {None, <<p, q>>},
            o \in {None, <<pb>>, <<priced>>, <<pa, qa>>, <<bare>>, <<pa, empty>>}, c \in {None, p}}
Groups2 == {group("g2", <<entry(default, p)>>, i, o, None) : i \in {None, <<p>>},
            o \in {None, <<pb>>, <<priced>>, <<p2>>}}

settings(locale, mode, repo, token, enabled, branch, host, port, auth, bearer, theme, minutes) ==
    [host |-> host, port |-> port, auth_enabled |-> auth, bearer |-> bearer,
     theme |-> theme, locale |-> locale, locale_mode |-> mode,
     auto_start |-> None, auto_update |-> None, minutes |-> minutes,
     enabled |-> enabled, repo |-> repo, token |-> token, branch |-> branch]

NoSettings == settings(None, None, None, None, None, None, None, None, None, None, None, None)

OddSettings ==
    {settings(l, m, r, t, e, b, None, None, None, None, None, None) :
        l \in {None, "zh-CN", "xx"}, m \in {None, "manual", "xx"}, r \in {None, "", "url"},
        t \in {None, "", "t"}, e \in {None, FALSE}, b \in {None, "", "dev"}} \cup
    {settings(None, None, None, None, None, None, h, pt, au, be, th, mi) :
        h \in {None, "", "h"}, pt \in {None, 0, 80}, au \in {None, TRUE}, be \in {None, "", "t"},
        th \in {None, "dark", "xx"}, mi \in {None, 0, 1440, 1441}}

MCDocuments ==
    {[version |-> v, settings |-> NoSettings, groups |-> g, providers |-> pr] :
        v \in {4, 5}, pr \in {<< >>, <<pa>>, <<pa, pb, qa>>, <<priced, p2>>},
        g \in {<<g1>> : g1 \in Groups1} \cup {<<g1, g2>> : g1 \in Groups1, g2 \in Groups2}} \cup
    {[version |-> v, settings |-> s, groups |-> << >>, providers |-> << >>] :
        v \in {None, 0, 2, 3, 5, 6}, s \in OddSettings}
=============================================================================
