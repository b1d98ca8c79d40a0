------------------------- MODULE BookingLifecycle --------------------------
(***************************************************************************)
(* What the dispatch engine promises, with no queue, lock, wave or offer   *)
(* in sight: a booking follows the state machine, it is handed to a driver *)
(* only out of a search, that driver has no other live job, keeps the job  *)
(* until it ends or goes back to the search, and once the tow is under way *)
(* nobody can take it away.                                                *)
(***************************************************************************)
EXTENDS BookingStates

CONSTANTS Bookings, Drivers, NoDriver

VARIABLES
    status,     \* bookings.status
    holder      \* the driver on the job while the status is an active one

lvars == <<status, holder>>

LInit ==
    /\ status = [b \in Bookings |-> "searching"]
    /\ holder = [b \in Bookings |-> NoDriver]

\* A search ends in an assignment: the driver is free and becomes the holder.
LAssign(b, d) ==
    /\ status[b] = "searching"
    /\ \A c \in Bookings : holder[c] # d
    /\ status' = [status EXCEPT ![b] = "assigned"]
    /\ holder' = [holder EXCEPT ![b] = d]

\* The driver moves along the job and stays its holder.
LProgress(b, to) ==
    /\ to \in ActiveJobStatuses
    /\ status[b] \in ActiveJobStatuses
    /\ IsLegal(status[b], to)
    /\ status' = [status EXCEPT ![b] = to]
    /\ UNCHANGED holder

\* Every other edge of the table leaves the booking without a holder.
LLeave(b, to) ==
    /\ to \notin ActiveJobStatuses
    /\ IsLegal(status[b], to)
    /\ status' = [status EXCEPT ![b] = to]
    /\ holder' = [holder EXCEPT ![b] = NoDriver]

LNext ==
    \E b \in Bookings :
        \/ \E d \in Drivers : LAssign(b, d)
        \/ \E to \in JobStatus : LProgress(b, to) \/ LLeave(b, to)

LSpec == LInit /\ [][LNext]_lvars
=============================================================================
