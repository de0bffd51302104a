---------------------------- MODULE MCWantSearch ----------------------------
(* WantSearch with two wants, one of them asked for over Telegram. *)
EXTENDS WantSearch

MCPosted == <<1>>
=============================================================================
