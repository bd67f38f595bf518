--------------------------- MODULE MCSubmission ---------------------------
(* Instances of Submission for TLC.                                        *)
EXTENDS Submission, TLC

CONSTANTS o, a, e, nobody, r1, r2, s1, c1

Three == {o, a, e}
TwoRequests == {r1, r2}
OneSession == {s1}
OneConn == {c1}
Limits == [k \in Rules |-> IF k = "minute" THEN 1 ELSE 2]

Company == (o :> "owner") @@ (a :> "admin") @@ (e :> "member")

Scene(owner, ops, ids, limited) ==
    [role |-> Company, owner |-> owner, ops |-> ops, ids |-> ids, mails |-> 1, limited |-> limited]

\* What changes a right, with what uses it.
AllScenes == {
    Scene(e, {"SetSMTPPassword", "RemoveMember", "AddMember", "Submit"}, 5, FALSE),
    Scene(e, {"SetSMTPPassword", "UpdateMember", "RemoveMember", "AddMember"}, 5, FALSE),
    Scene(e, {"SetSMTPPassword", "DeleteSMTPPassword", "Submit"}, 5, FALSE),
    Scene(e, {"SetSMTPPassword", "AssignOwner", "UpdatePassword", "Submit"}, 5, FALSE),
    Scene(e, {"SetSMTPPassword", "DeleteDomain", "Submit"}, 5, FALSE),
    Scene(e, {"SetSMTPPassword", "DeleteDomain", "VerifyDomain", "CreateMailbox"}, 7, FALSE),
    Scene(e, {"SetSMTPPassword", "DeleteWorkspace", "AddMember"}, 5, FALSE),
    Scene(e, {"Send", "AssignOwner"}, 3, FALSE),
    Scene(e, {"Send", "DeleteDomain", "VerifyDomain", "CreateMailbox"}, 7, FALSE),
    Scene(nobody, {"Send", "CreateApiKey", "RevokeApiKey", "AssignOwner", "DeleteDomain"}, 3, FALSE),
    Scene(e, {"Send", "DeleteWorkspace", "RemoveMember"}, 4, FALSE),
    Scene(e, {"Send", "Submit"}, 3, TRUE),
    Scene(e, {"Imap", "AssignOwner", "RemoveMember", "UpdatePassword"}, 4, FALSE),
    Scene(nobody, {"Imap", "AssignOwner", "RemoveMember", "AddMember"}, 3, FALSE),
    Scene(e, {"Imap", "DeleteDomain", "VerifyDomain", "CreateMailbox"}, 7, FALSE),
    Scene(e, {"ListMessages", "GetMessage", "AssignOwner"}, 3, FALSE),
    Scene(nobody, {"MarkMessageRead", "DownloadReceivedAttachment", "RemoveMember"}, 3, FALSE)}
Symmetry == Permutations(TwoRequests)
=============================================================================
