------------------------------ MODULE MCPlugins ------------------------------
EXTENDS Plugins
SmallSettings == {Obj([ours |-> Leaf(1)]), Obj([mcpServers |-> Obj([s |-> Leaf(1)])])}
SmallMarkdown == {<<"p", "begin", "q", "end", "p">>, <<"begin", "p">>}
SmallPieces == {<<"ours">>}
=============================================================================
