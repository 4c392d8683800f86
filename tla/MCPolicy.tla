----------------------------- MODULE MCPolicy -----------------------------
(* A small instance of Policy for TLC: the time policy with users and      *)
(* groups of users and one definition, the URL policy with users and two.  *)
EXTENDS Policy

Chains == [p \in Plugins |-> IF p = "time" THEN <<"users", "group_users">> ELSE <<"users">>]

Events == [p \in Plugins |-> IF p = "time" THEN 1 ELSE 2]
DefinitionIds == [p \in Plugins |-> IF p = "time" THEN {1} ELSE {1, 2}]

\* a policy that allows, or refuses, what no definition is about
Default(d) == [policy |-> 1, def |-> d, valid |-> TRUE, md5 |-> IF d THEN "11" ELSE "10"]
Assignments == {Default(TRUE), Default(FALSE)}

Def(w, t, v, m) == [policy |-> 1, when |-> w, target |-> t, valid |-> v, md5 |-> m]

\* Two definitions of the time policy have the same digits in their columns one
\* after the other, as day 1 from second 1 and day 11 would; a pattern may not
\* compile.
Definitions ==
  [p \in Plugins |-> IF p = "time"
     THEN {Def({<<0, 1>>}, FALSE, TRUE, "1011"), Def({<<1, 1>>}, FALSE, TRUE, "1011"),
           Def({<<0, 0>>, <<0, 1>>}, TRUE, TRUE, "1002")}
     ELSE {Def({"a"}, FALSE, TRUE, "1a0"), Def({"a", "b"}, TRUE, TRUE, "1ab1"),
           Def({}, FALSE, FALSE, "1(0")}]

Tables ==
  [p \in Plugins |->
    [l \in ToSet(Chains[p]) \cup {"defs"} |->
      IF l = "defs" THEN [i \in DefinitionIds[p] |-> IF i = 1 THEN CHOOSE d \in Definitions[p] :
                            ~d.target /\ d.valid ELSE Absent]
      ELSE [i \in Subjects |-> Default(TRUE)]]]
===========================================================================
