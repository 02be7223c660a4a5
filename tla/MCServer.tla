------------------------------- MODULE MCServer -------------------------------
(***************************************************************************)
(* The limiters, the credentials, the configuration and the usage buffer   *)
(* of one process.  They share no state, so a behaviour moves one of them  *)
(* and one configuration checks them all.                                  *)
(***************************************************************************)
EXTENDS RateLimits, Credentials, RuntimeConfig, UsageBuffer

CONSTANTS p1, p2

VARIABLE part

Parts == {"limits", "keys", "sessions", "config", "usage"}

(* The limiters' gate is fixed where another part moves. *)
Init ==
  /\ part \in Parts
  /\ LimitInit /\ (part # "limits" => gate = "global")
  /\ CredentialsInit /\ ConfigInit /\ UsageInit

Next ==
  \/ part = "limits" /\ LimitNext /\ UNCHANGED <<part, credentialVars, configVars, usageVars>>
  \/ part = "keys" /\ KeysNext /\ UNCHANGED <<part, limitVars, configVars, usageVars>>
  \/ part = "sessions" /\ SessionsNext /\ UNCHANGED <<part, limitVars, configVars, usageVars>>
  \/ part = "config" /\ ConfigNext /\ UNCHANGED <<part, limitVars, credentialVars, usageVars>>
  \/ part = "usage" /\ UsageNext /\ UNCHANGED <<part, limitVars, credentialVars, configVars>>

serverVars == <<part, limitVars, credentialVars, configVars, usageVars>>

(* No action that is fair is enabled in the first state of its part, so    *)
(* the fairness of one asks nothing where another moves.                   *)
Spec == Init /\ [][Next]_serverVars /\ ConfigFairness /\ UsageFairness

(* Types; the bootstrap key is never saved; the usage log keeps its order; *)
(* a session that was logged out of stays refused.                         *)
ServerInv ==
  /\ LimitTypeOK /\ CredentialsTypeOK /\ ConfigTypeOK
  /\ BootstrapStaysInMemory
  /\ UsageInv
  /\ LoggedOutStaysOut

(* What is stopped ends, and a trigger of the refresh is taken up.         *)
ServerProgress == TriggerIsServed /\ ShutdownEnds /\ UsageStops
=============================================================================
