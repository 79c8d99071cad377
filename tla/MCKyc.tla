-------------------------------- MODULE MCKyc --------------------------------
(***************************************************************************)
(* Instances of Kyc for TLC.                                                *)
(***************************************************************************)
EXTENDS Kyc, TLC

CONSTANTS s1, s2, s3, d1, d2

\* one of each, on queues of their own
MCOutcome == (d1 :> "REJECTED" @@ d2 :> "APPROVED")
MCQueue == (d1 :> "kyc-rejected" @@ d2 :> "kyc-approved-approval")
=============================================================================
