--------------------------- MODULE MCYncaClient ---------------------------
(* Instances of YncaClient for TLC: which calls share the Client.          *)
EXTENDS YncaClient

CONSTANTS s1, s2, m1, m2   \* two Sends and two SendMultis

=============================================================================
