------------------------------ MODULE MCCoNode ------------------------------
(***************************************************************************)
(* Two entries; one error of the CAN driver; a node that starts by itself  *)
(* and leaves the operational state on errors.                             *)
(***************************************************************************)
EXTENDS CoNode

MCGroupOf == [hbTimeout |-> "comm", hbReset |-> "comm", busOff |-> "comm",
              emFull |-> "none"]
MCCanErrors == <<"busOff">>
MCConfigs ==
    LET leave == [k \in 0 .. 5 |-> 0]
        stop  == [k \in 0 .. 5 |-> IF k = 0 THEN 2 ELSE 1]
    IN  {[startup |-> TRUE,  eb |-> leave, used |-> 2, max |-> 1],
         [startup |-> TRUE,  eb |-> leave, used |-> 1, max |-> 2],
         [startup |-> FALSE, eb |-> stop,  used |-> 1, max |-> 2]}
=============================================================================
