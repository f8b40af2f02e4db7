---------------------------- MODULE MCLocalState ----------------------------
EXTENDS LocalState, TLC

\* Two keys of one pool; two models; two types of findings.
MCUses == [k \in Kinds |->
    CASE k = "token" -> {<<"m", "p1", "k1">>, <<"m", "p1", "k2">>}
      [] OTHER -> {<<"a">>, <<"b">>}]
=============================================================================
