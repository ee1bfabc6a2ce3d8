---------------------------- MODULE SdoTransfer -----------------------------
(***************************************************************************)
(* What an SDO transfer promises to the application of the client: one     *)
(* request at a time; only a download changes a variable, only its own,    *)
(* and in one piece; success means that the data have arrived and nothing  *)
(* more changes.  A transfer that fails promises nothing about domains,    *)
(* whose functions get the data piece by piece.                            *)
(***************************************************************************)
EXTENDS Integers, Sequences

CONSTANTS Objects, Domains

VARIABLES od, status, req, got

xfer == <<od, status, req, got>>

Agree(a, b) == \A i \in DOMAIN a \cap DOMAIN b : a[i] = b[i]

\* The object holds what was sent: exactly, unless a short download gave no
\* size, when the server cannot know how much of the frame is data.
Holds(content, r) == IF r.exact THEN content = r.data ELSE Agree(content, r.data)

Begin ==
    /\ status # "busy"
    /\ status' = "busy"
    /\ got' = << >>
    /\ UNCHANGED od

\* A server that was left in the middle of a failed download may still flush
\* the part it has of a domain.
Change ==
    /\ status # "ok"
    /\ \A o \in Objects \ Domains :
         \/ od'[o] = od[o]
         \/ o = req.o /\ req.kind = "down" /\ Holds(od'[o], req)
    /\ UNCHANGED <<status, req, got>>

Collect ==
    /\ status = "busy" /\ req.kind = "up"
    /\ UNCHANGED <<od, status, req>>

Succeed ==
    /\ status = "busy" /\ status' = "ok" /\ req.o \in Objects
    /\ IF req.kind = "down" THEN Holds(od[req.o], req) ELSE got' = od[req.o]
    /\ UNCHANGED <<od, req>>

Fail ==
    /\ status = "busy" /\ status' = "failed"
    /\ UNCHANGED <<od, req>>

TransferInit == status = "ok" /\ got = << >>

Reset == status # "busy" /\ TransferInit'

TransferSpec ==
    TransferInit /\ [][Begin \/ Change \/ Collect \/ Succeed \/ Fail \/ Reset]_xfer
=============================================================================
