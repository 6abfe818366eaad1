------------------------------ MODULE MCSession ------------------------------
(***************************************************************************)
(* A small instance of Session for TLC.                                    *)
(***************************************************************************)
EXTENDS Session

CONSTANTS ana, ben, acme

(* One user is a member of the organisation, and the other is an admin.     *)
OneMember == [u \in Users |-> IF u = ana THEN {acme} ELSE {}]

=============================================================================
