--------------------------- MODULE Deployments_proofs ---------------------------
(***************************************************************************)
(* The two processes of MCDeployments side by side: their composition does *)
(* what each of them does alone, so that all that is proved of RecoverySpec *)
(* and of HybridSpec holds of it, for any instance.                        *)
(***************************************************************************)
EXTENDS MCDeployments, LoginRecovery_proofs, HybridRunner_proofs

\* Next to a scheduler's worker the recovery is what it is alone: a step of the
\* other process is a stutter of this one.
THEOREM DeploysRecovery == Spec => RecoverySpec
<1>1. Init => RecoveryInit
  BY DEF Init
<1>2. [Next]_vars => [RecoveryNext]_recoveryVars
  BY DEF Next, vars
<1> QED
  BY <1>1, <1>2, PTL DEF Spec, RecoverySpec

\* Next to a worker in its login recovery the platform is what it is alone.
THEOREM DeploysPlatform == Spec => HybridSpec
<1>1. Init => HybridInit
  BY DEF Init
<1>2. [Next]_vars => [HybridNext]_hybridVars
  BY DEF Next, vars
<1> QED
  BY <1>1, <1>2, PTL DEF Spec, HybridSpec

\* Every variable of the two processes keeps its type.
THEOREM DeploymentTypes == Spec => []TypeOK
<1>1. Spec => []RecoveryTypeOK
  BY DeploysRecovery, RecoveryTypes
<1>2. Spec => []HybridTypeOK
  BY DeploysPlatform, HybridTypes
<1>3. RecoveryTypeOK /\ HybridTypeOK => TypeOK
  BY DEF TypeOK
<1> QED
  BY <1>1, <1>2, <1>3, PTL
=============================================================================
