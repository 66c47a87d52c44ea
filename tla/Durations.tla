------------------------------- MODULE Durations -------------------------------
(***************************************************************************)
(* Durations as texts: what the user writes and what Omni's durations look *)
(* like differ (util.go).  dur is what a text means, form how it is        *)
(* written; "junk" does not parse.                                         *)
(***************************************************************************)
EXTENDS Integers

CONSTANT Null

\* The way Go prints a duration is one of several ways to write it.
Text(d) == [dur |-> d, form |-> "canonical"]
ParsesAsDuration(t) == t.form # "junk"

ServersForm(existing, d) == IF d = 0 THEN Null ELSE Text(d)

\* reconcileDuration: the text in the state is kept while it means what the server has.
ReconcileDuration(existing, d) ==
  IF d = 0 THEN Null
  ELSE IF existing # Null /\ ParsesAsDuration(existing) /\ existing.dur = d THEN existing
  ELSE Text(d)

================================================================================
