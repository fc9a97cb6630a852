--------------------------- MODULE MCContactSync ---------------------------
(* Instances of ContactSync for TLC.  Contacts do not influence each       *)
(* other, so one contact on several devices is the interesting case.       *)
EXTENDS ContactSync
CONSTANT ExpiresAt
MCExpires == [c \in Contact |-> ExpiresAt]
=============================================================================
