------------------------------- MODULE MCCore -------------------------------
(***************************************************************************)
(* Small instances of the two parts of the core for TLC: GenericDecode, a  *)
(* context of two layers with a sliding window, and PluginHost, with a     *)
(* plugin that has a tokenizer and an architecture, one that takes the     *)
(* name of a built-in architecture, one without the entry symbol and one   *)
(* with an incompatible descriptor.  The two share nothing, so a behaviour *)
(* is one of either part while the other has not begun.                    *)
(***************************************************************************)
EXTENDS GenericDecode, PluginHost

CONSTANTS anka, shadow, noentry, badabi

MultiHead == [threeD |-> TRUE, heads |-> 2, kvHeads |-> 2]
Grouped == [threeD |-> TRUE, heads |-> 4, kvHeads |-> 2]

AnyLayout == {Plain, MultiHead, Grouped}
MultiHeadOnly == {MultiHead}

MCEntry == [l \in Library |->
  IF l = noentry THEN "missing" ELSE IF l = badabi THEN "incompatible" ELSE "valid"]

MCProvides == [l \in Library |->
  IF l = anka THEN <<[reg |-> "tok", name |-> "anka"], [reg |-> "arch", name |-> "anka"]>>
  ELSE IF l = shadow THEN <<[reg |-> "arch", name |-> "nedolm"]>>
  ELSE <<>>]

MCBuiltins == <<[reg |-> "arch", name |-> "nedolm"], [reg |-> "tok", name |-> "nedolm"]>>

\* One path per library.
OwnPath == [p \in Path |-> p]

----------------------------------------------------------------------------

CoreInit == DecodeInit /\ Init

\* The host has made the calls it makes, and every one has returned.
HostRests == calls = MaxCalls /\ \A t \in Thread : pc[t] = "idle"

CoreNext ==
  \/ Init /\ DecodeNext /\ UNCHANGED vars
  \/ DecodeInit /\ Next /\ UNCHANGED decodeVars
  \/ HostRests /\ UNCHANGED <<decodeVars, vars>>

CoreSpec == /\ CoreInit /\ [][CoreNext]_<<decodeVars, vars>>
            /\ \A t \in Thread : WF_vars(Progress(t))
=============================================================================
