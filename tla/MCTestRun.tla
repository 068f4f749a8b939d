------------------------------ MODULE MCTestRun -----------------------------
\* The instances of TestRun for TLC. One image has nothing but a path, of two parts; the
\* other a registry with a port, a path of one part, a tag and a digest.
EXTENDS TestRun

MCImages ==
  {[registry |-> <<>>, path |-> <<"org", "/", "name">>, tag |-> <<>>, digest |-> <<>>],
   [registry |-> <<"localhost", ":", "5000">>, path |-> <<"name">>,
    tag |-> <<"v1">>, digest |-> <<"sha256", ":", "hex">>]}
=============================================================================
