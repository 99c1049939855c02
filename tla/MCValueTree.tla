---------------------------- MODULE MCValueTree ----------------------------
(* ValueTree instantiated for TLC: the array-index keys in numeric order.  *)
EXTENDS ValueTree

MCIndexKeys == <<"0", "1">>
MCOneIndexKey == <<"1">>
MCNoIndexKeys == <<>>
=============================================================================
