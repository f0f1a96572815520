---------------------------- MODULE MCAgentLoop ----------------------------
(* The answers and outcomes of the bounded instance for TLC: a call alone, and *)
(* one that needs an approval before two that run side by side.               *)
EXTENDS AgentLoop

MCCall(tool) == [tool |-> tool, arg |-> 1]
MCAnswers == {<<MCCall("browse")>>, <<MCCall("wipe"), MCCall("look"), MCCall("look")>>}
MCOutcomes == [t \in Tools |-> CASE t = "browse" -> {"verified", "missing"}
                                 [] t = "look"   -> {"plain", "timeout"}
                                 [] OTHER        -> {"plain"}]
=============================================================================
