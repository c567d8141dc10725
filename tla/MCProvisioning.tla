--------------------------- MODULE MCProvisioning ---------------------------
(* Instances of Provisioning for TLC. *)
EXTENDS Provisioning, TLC

\* Three identities, so that an admin and two invitees can coexist, one of
\* them spelled in two ways, and an email without "@".
MCEmails == {"", "plain", "a@x", "A@x", "b@x", "c@x"}
MCNormalizeEmail == [e \in MCEmails |-> IF e = "A@x" THEN "a@x" ELSE e]
MCHasAt == MCEmails \ {"", "plain"}

\* Two identities, where emails are not the question.
FewEmails == {"", "a@x", "b@x"}
FewNormalizeEmail == [e \in FewEmails |-> e]
FewHasAt == FewEmails \ {""}

\* Not given, one hour, and a number whose Duration wraps to a negative one.
MCTTLHours == {0, 1, 5}
OneTTL == {1}

Interchangeable == Permutations(Redeems) \cup Permutations(Mints)
=============================================================================
