----------------------------- MODULE MCMembers -----------------------------
(* Members for TLC: two avatars, of one chunk and of two. *)
EXTENDS Members

TwoAvatars == <<1, 2>>
=============================================================================
