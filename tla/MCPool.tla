-------------------------------- MODULE MCPool --------------------------------
EXTENDS Pool, TLC

CONSTANTS balance1, balance2, kyc, read

\* two ledger requests, a KYC event of a user with one account, a plain query
MCNested == balance1 :> <<FALSE>> @@ balance2 :> <<FALSE>>
            @@ kyc :> <<FALSE, TRUE>> @@ read :> <<>>
=============================================================================
