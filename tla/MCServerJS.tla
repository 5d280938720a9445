----------------------------- MODULE MCServerJS -----------------------------
(* A small site: two paths, and scripts that compete for them.             *)
EXTENDS ServerJS

CONSTANTS c1, c2

MCSegments == {"a", "b", "c", "index", "[p]", "[...]"}
MCPaths == {<<"a">>, <<"a", "b">>}
MCScripts == {<<"a">>, <<"a", "index">>, <<"[p]", "index">>, <<"a", "[p]">>, <<"[p]", "b">>,
              <<"a", "c", "b">>, <<"[...]">>}
MCEdited == {<<"a">>, <<"[p]", "b">>}
MCSites == {MCScripts \ {<<"a">>}, {<<"a">>},
            {<<"[p]", "index">>, <<"a", "c", "b">>, <<"[p]", "b">>, <<"[...]">>}}
MCOutside == {<<"[p]", "index">>}
=============================================================================
