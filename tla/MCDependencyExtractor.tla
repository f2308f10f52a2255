-------------------------- MODULE MCDependencyExtractor --------------------------
(* Every formula over a few variables, line by line.    *)
EXTENDS DQDIMACSParser

AllSettings == [extended : BOOLEAN, ignore : BOOLEAN]
================================================================================
