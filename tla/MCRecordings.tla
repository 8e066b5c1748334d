---------------------------- MODULE MCRecordings ----------------------------
(***************************************************************************)
(* The test of revision 0 reads a file, keeps what it got in a field, and  *)
(* takes a random number that the agent cannot record; killed before the   *)
(* random number, it leaves a complete recording.  The test of revision 1  *)
(* reads the clock.  Two recordings of revision 0 that end in the input    *)
(* have the same id although the file differs.                             *)
(***************************************************************************)
EXTENDS Recordings, TLC

Step(kind, at, field, of, shows) ==
    [kind |-> kind, at |-> at, field |-> field, of |-> of, shows |-> shows]
Call(of) == Step("CALL", "p", None, of, 0)
Draw(of) == Step("DRAW", None, None, of, 0)
MCProgram == [R \in Revisions |->
    CASE R = 0 -> <<Call("file"), Draw("file"), Step("WRITE", "q", "x", None, 2),
                    Call("random"), Draw("random")>>
      [] OTHER -> <<Call("clock"), Draw("clock")>>]
MCWants == {[step |-> "WRITE", until |-> None, watch |-> "x"],
            [step |-> "CALL", until |-> None, watch |-> "x"]}
Symmetry == Permutations(Recorders)
=============================================================================
