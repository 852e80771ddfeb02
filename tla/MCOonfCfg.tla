----------------------------- MODULE MCOonfCfg -----------------------------
(* An instance of OonfCfg: one section type for each mode of the schema.   *)
EXTENDS OonfCfg

MCSingle(d) == [def |-> d, list |-> FALSE, validator |-> TRUE, valid |-> {1, 2}]
MCList(d) == [def |-> d, list |-> TRUE, validator |-> TRUE, valid |-> {1, 2}]
MCString(d) == [def |-> d, list |-> FALSE, validator |-> FALSE, valid |-> {}]
MCSection(t, m, e) ==
    [type |-> t, mode |-> m, def_name |-> "a", handler |-> TRUE, entries |-> e]

MCSections ==
    [global |-> [type |-> "g", mode |-> "unnamed", def_name |-> NoName, handler |-> FALSE,
                 entries |-> [plugin |-> [def |-> <<0>>, list |-> TRUE, validator |-> FALSE, valid |-> {}],
                              failfast |-> [def |-> <<0>>, list |-> FALSE, validator |-> TRUE, valid |-> {0, 1}]]],
     u |-> MCSection("u", "unnamed", [x |-> MCSingle(<<1>>), y |-> MCList(<<1>>)]),
     o |-> MCSection("o", "unnamed_optional", [x |-> MCString(<<1>>)]),
     n |-> MCSection("n", "named", [x |-> MCSingle(<<1>>)]),
     n2 |-> MCSection("n", "named", [y |-> MCSingle(<<2>>)]),
     d |-> MCSection("d", "named_with_default", [x |-> MCSingle(<<1>>)]),
     z |-> MCSection("z", "named_mandatory", [x |-> MCSingle(<<>>)])]

MCPluginOf == [s \in DOMAIN MCSections |-> IF s = "z" THEN 7 ELSE 0]

MCArg(t, n, k, v) == [type |-> t, name |-> n, key |-> k, value |-> v]

MCArgs ==
    {MCArg("u", NoName, "x", v) : v \in {1, 9, NoValue}}
    \cup {MCArg("u", NoName, "y", v) : v \in {2, 9}}
    \cup {MCArg("u", "a", NoKey, NoValue)}
    \cup {MCArg("o", NoName, "x", v) : v \in {1, 2, NoValue}}
    \cup {MCArg(t, NoName, "x", v) : t \in {"n", "d"}, v \in {1, 2, NoValue}}
    \cup {MCArg(t, "a", "x", v) : t \in {"n", "d"}, v \in {1, NoValue}}
    \cup {MCArg(t, "a", NoKey, NoValue) : t \in {"n", "d"}}
    \cup {MCArg("n", "a", "y", 1), MCArg("d", "b", NoKey, NoValue)}
    \cup {MCArg("g", NoName, "plugin", v) : v \in {7, 8, NoValue}}
    \cup {MCArg("g", NoName, "failfast", 1)}
    \cup {MCArg("z", "a", "x", v) : v \in {1, NoValue}}
    \cup {MCArg(NoType, NoName, "x", 2)}

MCHead(t, n) == [head |-> TRUE, type |-> t, name |-> n]
MCLine(k, v) == [head |-> FALSE, key |-> k, value |-> v]

MCText(lines) == [text |-> lines]

MCScopes ==
    {[types |-> {"u"}, file |-> MCText(<<MCHead("u", NoName), MCLine("x", 2), MCLine("y", 1),
                                         MCLine("y", 2), MCHead("d", "b")>>)],
     [types |-> {"o"}, file |-> Failed],
     [types |-> {"n"}, file |-> MCText(<<MCHead("n", "a"), MCHead("n", NoName),
                                         MCLine("x", 2)>>)],
     [types |-> {"d"}, file |-> MCText(<<MCHead("d", "b")>>)],
     [types |-> {"g", "z"}, file |-> MCText(<<MCHead("g", NoName), MCLine("plugin", 7),
                                              MCHead("z", "a"), MCLine("x", 1)>>)],
     [types |-> {"g"}, file |-> MCText(<<MCLine("x", 1)>>)],
     [types |-> {"parsers"}, file |-> MCText(<<MCHead("o", NoName), MCLine("x", 2)>>)]}

MCTypeOrder == <<"d", "g", "n", "o", "u", "z">>
MCNameOrder == <<NoName, "a", "b">>
MCKeyOrder == <<"failfast", "plugin", "x", "y">>
MCParserOrder == <<"binary", "compact", "json">>
=============================================================================
