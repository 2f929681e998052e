--------------------------- MODULE MCSubscriber ---------------------------
(* Subscriber under the names its configurations give to the constants.    *)
EXTENDS Subscriber

=============================================================================
