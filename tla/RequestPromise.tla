--------------------------- MODULE RequestPromise ---------------------------
(***************************************************************************)
(* What RemoteServerClient promises to the callers of send_request: a call *)
(* is open while nothing has decided how it ends, ends once, and once the  *)
(* loss of the connection was announced no call is open and none opens.    *)
(***************************************************************************)
CONSTANT Request

VARIABLES status, lost

promiseVars == <<status, lost>>

PromiseInit ==
    /\ status = [r \in Request |-> "idle"]
    /\ lost = FALSE

Moves(r, from, to) ==
    /\ status[r] \in from
    /\ \E v \in to : status' = [status EXCEPT ![r] = v]
    /\ UNCHANGED lost

\* A call opens, or is refused before anything is sent.
Opens(r)   == ~lost /\ Moves(r, {"idle"}, {"open"})
Refused(r) == Moves(r, {"idle"}, {"settled", "failed"})

\* An answer, or the certainty that none comes; then the caller takes it.
Settles(r) == Moves(r, {"open"}, {"settled"})
Ends(r)    == Moves(r, {"settled"}, {"answered", "failed"})

\* The caller stops waiting.
GivesUp(r) == Moves(r, {"open", "settled"}, {"failed"})

Loses ==
    /\ \A r \in Request : status[r] # "open"
    /\ lost' = TRUE
    /\ UNCHANGED status

PromiseNext ==
    \/ \E r \in Request :
         Opens(r) \/ Refused(r) \/ Settles(r) \/ Ends(r) \/ GivesUp(r)
    \/ Loses

PromiseSpec == PromiseInit /\ [][PromiseNext]_promiseVars
=============================================================================
