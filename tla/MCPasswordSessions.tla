------------------------ MODULE MCPasswordSessions ------------------------
(* Instances of PasswordSessions for TLC.                                  *)
EXTENDS PasswordSessions, TLC

CONSTANTS c1, c2, c3, t1, t2, p1, p2, s1, s2

ThreeCalls == {c1, c2, c3}
TwoLinks == {t1, t2}
TwoPasswords == {p1, p2}
TwoSubjects == {s1, s2}

Ask(op, given, chosen, t) ==
    [op |-> op, given |-> given, chosen |-> chosen, link |-> t, subject |-> s1, proven |-> FALSE]

SignIn(s, proven) ==
    [op |-> "sso", given |-> p1, chosen |-> p1, link |-> t1, subject |-> s, proven |-> proven]

\* Every request over two passwords, two links and two subjects; fields an operation does not
\* use are fixed.
AllRequests ==
    {Ask("register", p1, p, t1) : p \in TwoPasswords}
    \cup {Ask("login", p, p1, t1) : p \in TwoPasswords}
    \cup {Ask("reset", p1, p, t) : p \in TwoPasswords, t \in TwoLinks}
    \cup {Ask("change", p, q, t1) : p, q \in TwoPasswords}
    \cup {SignIn(s, proven) : s \in TwoSubjects, proven \in BOOLEAN}

CallSymmetry == Permutations(ThreeCalls)
=============================================================================
