--------------------------- MODULE MCUsersTable ---------------------------
(* Small instances of UsersTable for TLC.                                  *)
EXTENDS UsersTable

CONSTANTS u1, r1, r2

\* One user with two rules: r1 counts and lets the walk go on, r2 ends it.
\* r1 comes first in the order of rules_mysql_load.
Owner == [r \in Rules |-> u1]
Order == [r \in Rules |-> IF r = r1 THEN 1 ELSE 2]
===========================================================================
