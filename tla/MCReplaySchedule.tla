-------------------------- MODULE MCReplaySchedule --------------------------
(* Two threads that both draw an input, in every recorded interleaving.    *)
EXTENDS ReplaySchedule

CONSTANTS t1, t2

MCThreads == {t1, t2}
MCPrograms == [t \in MCThreads |->
    IF t = t1 THEN <<"CALL", "INPUT", "LINE">> ELSE <<"CALL", "INPUT">>]
MCKind == [t \in MCThreads |-> "random"]
=============================================================================
