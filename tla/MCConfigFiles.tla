---- MODULE MCConfigFiles ----
EXTENDS ConfigFiles

MCMatches == <<"a">>
====
