--------------------------- MODULE AttachmentLease ---------------------------
(***************************************************************************)
(* What a session promises about its attachment lease: at most one adapter *)
(* holds the session at a time, a new holder is admitted only when there   *)
(* is none or when the lease of the last one has run out, and the          *)
(* identity of an attachment is never given out twice.                     *)
(***************************************************************************)
EXTENDS Naturals

VARIABLES holder,     \* the attachment holding the session, 0 when none does
          expired,    \* the holder's lease has run out
          granted     \* how many attachments were ever granted

leaseVars == <<holder, expired, granted>>

LeaseInit == holder = 0 /\ expired = FALSE /\ granted = 0

Grant == /\ holder = 0 \/ expired
         /\ granted' = granted + 1
         /\ holder' = granted'
         /\ expired' = FALSE

Renew == /\ holder # 0
         /\ expired' = FALSE
         /\ UNCHANGED <<holder, granted>>

Expire == /\ holder # 0
          /\ expired' = TRUE
          /\ UNCHANGED <<holder, granted>>

Revoke == /\ holder # 0
          /\ holder' = 0
          /\ expired' = FALSE
          /\ UNCHANGED granted

LeaseNext == Grant \/ Renew \/ Expire \/ Revoke

LeaseSpec == LeaseInit /\ [][LeaseNext]_leaseVars
=============================================================================
