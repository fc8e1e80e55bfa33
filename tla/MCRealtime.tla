------------------------------- MODULE MCRealtime -------------------------------
(* Two browsers: one watches the registrations, or both the calls, or each  *)
(* one of them.                                                             *)
EXTENDS Realtime, TLC

CONSTANTS c1, c2

MCPages == {c1 :> "registrations" @@ c2 :> "other",
            c1 :> "calls" @@ c2 :> "calls"}
=============================================================================
