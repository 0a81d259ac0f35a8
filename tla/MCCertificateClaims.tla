------------------------- MODULE MCCertificateClaims -------------------------
(***************************************************************************)
(* Small instances of CertificateClaims: one address claimed under two     *)
(* names, with and without an idempotency key.                             *)
(***************************************************************************)
EXTENDS CertificateClaims, TLC

CONSTANTS e1, n1, n2, k1

Ask(op, n, k) == [op |-> op, email |-> e1, name |-> n, key |-> k]
Resend        == Ask("resend", n1, Null)
Confirm       == Ask("confirm", n1, Null)

MCEmails == {e1}
MCNames  == {n1, n2}
MCKeys   == {k1}

\* A claim and its retry under the key, the key reused for another name, a
\* submission without a key, a resend, and confirms.
MCCalls == {Ask("submit", n1, k1), Ask("submit", n2, k1),
            Ask("submit", n2, Null), Resend, Confirm}

\* No request sends a key.
MCUnkeyedCalls == {Ask("submit", n1, Null), Resend, Confirm}

Symmetry == Permutations(Reqs) \cup Permutations(Tokens)
=============================================================================
