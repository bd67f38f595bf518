---------------------------- MODULE MCDeployment ----------------------------
(* An instance of Deployment for TLC: two replicas alone, and two replicas with a
   worker that fetches what they have stored.                                *)
EXTENDS Deployment, TLC

CONSTANTS a1, a2, w1, s1, l1, i1, f1, f2

Names == {a1, a2, w1, s1, l1, i1}
KindOf ==
    [p \in Names |-> CASE p \in {a1, a2} -> "api" [] p = w1 -> "worker" [] p = s1 -> "submissiond"
                       [] p = l1 -> "lmtpd" [] p = i1 -> "imapd"]

Whole(prefix) ==
    [db |-> TRUE, smtp |-> TRUE, tls |-> TRUE, relay |-> TRUE, key |-> TRUE, bucket |-> "set",
     prefix |-> prefix]

Plain == Whole(<<"dev">>)
Slashed == Whole(<<"dev", "/">>)
NoBucket == [Plain EXCEPT !.bucket = "none"]
Lacking == [Plain EXCEPT !.db = FALSE, !.tls = FALSE, !.key = FALSE, !.bucket = "invalid"]

\* The prefix written both ways, and what a process may lack.
EnvironmentsOf == {Plain, Slashed, NoBucket, [Plain EXCEPT !.smtp = FALSE], Lacking}

OtherDeployment == {<<"prod", "/", f1>>, <<f1>>}
Scene(who, envs, releases, faults) ==
    [who |-> who, envs |-> envs, releases |-> releases, faults |-> faults]

Migrators(faults) == Scene({a1, a2}, {NoBucket}, 1..2, faults)

ScenesOf ==
    { Migrators({}), Migrators({"crash", "db"}),
      Scene({a1}, {NoBucket, [Plain EXCEPT !.smtp = FALSE]}, 1..2, {"crash", "db"}),
      Scene({a1, a2, w1}, {Plain, Slashed}, {0}, {"crash", "db"}),
      Scene({w1, s1, l1, i1}, {Plain, Lacking}, {0}, {"crash"}) }
=============================================================================
