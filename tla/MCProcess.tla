----------------------------- MODULE MCProcess ------------------------------
(***************************************************************************)
(* Quota files and command lines for TLC.                                  *)
(***************************************************************************)
EXTENDS Process

CONSTANTS root, alice

File(ok, as) == [ok |-> ok, admins |-> as]

\* A file, one with another administrator, and one that is rejected.
ThreeFiles == {File(TRUE, {root}), File(TRUE, {}), File(FALSE, {root})}

\* Consistent and inconsistent command lines.
Line(q, t, e, d, a) == [required |-> TRUE, quotas |-> q, token |-> t, enforce |-> e,
                        failClosed |-> FALSE, defaultDeny |-> d, admin |-> a]
AllLines == {Line(q, t, e, d, a) : q, e, d, a \in BOOLEAN, t \in {"none", "unreadable", "ok"}}
            \cup {[Line(TRUE, "ok", TRUE, TRUE, TRUE) EXCEPT !.required = FALSE],
                  [Line(TRUE, "ok", TRUE, TRUE, TRUE) EXCEPT !.failClosed = TRUE]}

\* The unit file of deploy/.
UnitLine == {[Line(TRUE, "ok", TRUE, TRUE, TRUE) EXCEPT !.failClosed = TRUE]}
=============================================================================
