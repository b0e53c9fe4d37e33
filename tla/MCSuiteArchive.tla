---- MODULE MCSuiteArchive ----
(* A success that failed a policy check, one that failed two, an evaluation  *)
(* that could not be scored.                                                 *)
EXTENDS SuiteArchive
Eval(o, a, f, e) == [outcome |-> o, attempts |-> a, committed |-> 0,
                     failed |-> f, error |-> e]
MCEvaluations == {Eval("success", 1, {"c1"}, FALSE),
                  Eval("success", 1, {"c1", "c2"}, FALSE),
                  Eval("not_evaluated", 0, {}, TRUE)}
====
