----------------------------- MODULE MCDashboard -----------------------------
(***************************************************************************)
(* Three tests.  In one log the second fails and the first is cut off; in  *)
(* the other the first has a large value on the way, and the third, whose  *)
(* name is large, passes.                                                  *)
(***************************************************************************)
EXTENDS Dashboard

L(kind, test, what) == [kind |-> kind, test |-> test, what |-> what]
MCLogs == {<<L("LINE", 2, 1), L("FINISH", 2, "failed"), L("START", 1, None)>>,
           <<L("LINE", 1, 1), L("LINE", 1, 2), L("FINISH", 3, "passed")>>}
Q(query, of, mask) == [query |-> query, of |-> of, mask |-> mask]
MCAsks == {Q("tests", None, "none"), Q("run", 1, "none"), Q("run", 1, "drops"),
           Q("run", 1, "keeps"), Q("trace", 1, "none"), Q("coverage", None, "none")}
=============================================================================
