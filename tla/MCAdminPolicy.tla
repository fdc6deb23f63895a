----------------------------- MODULE MCAdminPolicy -----------------------------
(* The admin policy of two peers, for TLC; forwarding has a run of its own. *)
EXTENDS AdminPolicy
=============================================================================
