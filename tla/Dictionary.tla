----------------------------- MODULE Dictionary -----------------------------
(***************************************************************************)
(* What the autocorrect subsystem promises about its dictionary, whatever  *)
(* generations, channels and goroutines it takes: the dictionary in use is *)
(* the one the configuration asks for, or none; a load in progress ends in *)
(* that dictionary or in a failure, and one that was overtaken by a new    *)
(* configuration has no effect.                                            *)
(***************************************************************************)
CONSTANTS DictKeys, None

VARIABLES
  want,    \* the dictionary the configuration names
  phase,   \* "idle", "loading", "ready" or "failed"
  served   \* the dictionary in use, or None

dvars == <<want, phase, served>>

DInit == want \in DictKeys /\ phase = "idle" /\ served = None

(* A new configuration: nothing of the old dictionary is used any more.    *)
Configure(k) ==
  /\ k # want /\ want' = k
  /\ phase' = "idle" /\ served' = None

Begin ==
  /\ phase \in {"idle", "failed"}
  /\ phase' = "loading" /\ served' = None /\ UNCHANGED want

Succeed ==
  /\ phase = "loading"
  /\ phase' = "ready" /\ served' = want /\ UNCHANGED want

Fail ==
  /\ phase = "loading"
  /\ phase' = "failed" /\ served' = None /\ UNCHANGED want

DNext == (\E k \in DictKeys : Configure(k)) \/ Begin \/ Succeed \/ Fail

DSpec == DInit /\ [][DNext]_dvars /\ WF_dvars(Succeed \/ Fail)
=============================================================================
