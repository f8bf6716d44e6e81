--------------------------- MODULE MCPasRegister ----------------------------
(***************************************************************************)
(* Instances of PasRegister.  A set with a negative number cannot be       *)
(* written in a configuration file.                                        *)
(***************************************************************************)
EXTENDS PasRegister

AcceptOrRefuse == {0, -1, -2}
Accept == {0}

(* What RegistrationIsSound excepts: not true when two calls overlap       *)
(* (MCPasRegister_lost.cfg), when a message could not be sent (_unsent),   *)
(* and when a signal is handled in the middle of a call (_stale).          *)
HoldsWhenCrossed   == ~ unsent => AnswerToCome
HoldsWhenUnsent    == ~ crossed => AnswerToCome
HoldsWhenOvertaken == ~ crossed => FlagTellsTheTruth
=============================================================================
