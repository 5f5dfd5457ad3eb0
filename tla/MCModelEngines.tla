---- MODULE MCModelEngines ----
EXTENDS ModelEngines
====
