----------------------------- MODULE MCCastApps -----------------------------
(***************************************************************************)
(* Two senders, the mirroring application with its two ids, and an idle      *)
(* screen.                                                                   *)
(***************************************************************************)
EXTENDS CastApps

MCApps == {"mirroring", "idle_screen"}

MCAppIds ==
  [app \in MCApps |->
     IF app = "mirroring" THEN <<"av", "audio">> ELSE <<"idle">>]

MCMessagingApps == {"mirroring"}

MCIdleScreenApps == {"idle_screen"}

\* The second sender may have been set to send audio only.
MCStreamingAppIds ==
  [s \in Sockets |-> IF s = 1 THEN {"av"} ELSE {"av", "audio"}]

=============================================================================
