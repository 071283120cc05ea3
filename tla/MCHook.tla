------------------------------- MODULE MCHook -------------------------------
(***************************************************************************)
(* A bash and another shell.  Users enter a command, a longer line that    *)
(* begins with it and runs in a subshell, a job in the background, two     *)
(* hidden commands and the empty line.                                     *)
(***************************************************************************)
EXTENDS HookProperties, TLC

CONSTANTS s1, s2, make, makeTest, job, secret

MCShell == {s1, s2}
MCKindOf == [s \in MCShell |-> IF s = s1 THEN "bash" ELSE "zsh"]
MCMaxCycle == [s \in MCShell |-> IF s = s1 THEN 3 ELSE 1]
MCText == {make, makeTest, job, secret}

Entered(t, x) == [text |-> t, space |-> FALSE, executes |-> x]
Spaced(t) == [text |-> t, space |-> TRUE, executes |-> t]

MCLine ==
  {Entered(make, make), Entered(makeTest, Nothing), Entered(job, job), Spaced(secret), Spaced(make), EmptyLine}

MCStartsWith == {<<t, t>> : t \in MCText} \cup {<<makeTest, make>>}
MCHistControl == {"ignorespace", "ignoredups"}
=============================================================================
