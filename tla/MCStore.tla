------------------------------ MODULE MCStore ------------------------------
(* A small instance of Services, each behaviour with some of them. *)
EXTENDS Services

CONSTANTS c1, c2

MCUses == {{"settings", "profile"}, {"providers", "profile"}, {"turns", "clock"}, {"turns", "calls"},
           {"publish", "uploads"}, {"settings", "scripts"}, {"memory"}, {"log"},
           {"events"}, {"events", "push"}, {"files"}, {"limits"}, {"terminal"}}

MCProfiles == {[s |-> "workspace", f |-> "gate", v |-> FALSE, lock |-> TRUE]}

\* A script calls after two calls that save the settings.
MCMaxCalls == [u \in AllUses |-> IF u = "scripts" THEN 3 ELSE 2]

MCCap == [l \in Counted |-> IF l = "workspace" THEN 2 ELSE 1]
=============================================================================
