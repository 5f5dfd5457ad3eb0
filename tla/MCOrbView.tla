---- MODULE MCOrbView ----
EXTENDS OrbView
====
