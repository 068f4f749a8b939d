------------------------------ MODULE MCLogArea -----------------------------
\* The instance of LogArea for TLC: a file at the top, one below a directory of the
\* same name, one below a nested directory, and a second top-level entry.
EXTENDS LogArea

MCPaths == {<<"a">>, <<"a", "x">>, <<"a", "d", "x">>, <<"b", "x">>}
=============================================================================
