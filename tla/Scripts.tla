------------------------------ MODULE Scripts ------------------------------
(***************************************************************************)
(* How the set-up and tear-down functions of the drivers are written down; *)
(* module Unwind says what they do.                                        *)
(***************************************************************************)
EXTENDS Sequences

\* A step of a body: what it acquires or calls, the release it goes to when
\* that fails ("return" if there is nothing to release, "continue" if it does not
\* matter), whether it then forgets to set err, whether it is a release.
Step(what, label, quiet, drop) ==
  [what |-> what, label |-> label, quiet |-> quiet, drop |-> drop]
On(what, label) == Step(what, label, FALSE, FALSE)
Forgetful(what, label) == Step(what, label, TRUE, FALSE)
Regardless(what) == Step(what, "continue", TRUE, FALSE)
Drop(what) == Step(what, "continue", TRUE, TRUE)

\* A function: the steps of its body, the releases below its labels, what must
\* be held for it to do anything if not "always", and whether it falls through
\* to its labels when all went well.
Script(get, put) ==
  [get |-> get, put |-> put, when |-> "always", through |-> FALSE]
Releases(put) == Script(<< >>, put)
When(r, script) == [script EXCEPT !.when = r]
Through(script) == [script EXCEPT !.through = TRUE]
=============================================================================
