---------------------------- MODULE MessageFate ----------------------------
(***************************************************************************)
(* What the outbox promises about one alert, seen from the Discord channel: *)
(* an alert that is accepted is open until its one message appears or it is *)
(* given up, and either fate is irrevocable.                                *)
(***************************************************************************)
CONSTANT Events
VARIABLE fate

Fates == {"none", "open", "sent", "never"}

Init == fate = [e \in Events |-> "none"]

(* An alert is offered for delivery, or stored with delivery switched off;  *)
(* an open one is sent or given up.                                         *)
Turns == {<<"none", "open">>, <<"none", "never">>, <<"open", "sent">>, <<"open", "never">>}

(* One restart may decide several alerts at once. *)
Decide ==
    /\ fate' \in [Events -> Fates]
    /\ \A e \in Events : fate'[e] = fate[e] \/ <<fate[e], fate'[e]>> \in Turns

Spec == Init /\ [][Decide]_fate
=============================================================================
