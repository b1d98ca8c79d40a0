--------------------------- MODULE BookingStates ---------------------------
(***************************************************************************)
(* The booking status enum and its transition table, shared by every       *)
(* module that moves a booking.  `BookingStateMachineService.transition`   *)
(* is the only writer of `bookings.status`; it consults this table while   *)
(* it holds the row `FOR UPDATE`.                                          *)
(***************************************************************************)

\* LEGAL_TRANSITIONS, edge for edge.
LegalTransitions ==
    [ searching        |-> {"assigned", "no_drivers_found", "cancelled"},
      assigned         |-> {"en_route", "arrived", "searching", "cancelled"},
      en_route         |-> {"arrived", "searching", "cancelled"},
      arrived          |-> {"in_progress", "searching", "cancelled"},
      in_progress      |-> {"completed", "disputed", "cancelled"},
      completed        |-> {"paid", "disputed"},
      disputed         |-> {"completed", "paid", "cancelled"},
      paid             |-> {"refunded", "disputed"},
      cancelled        |-> {},
      no_drivers_found |-> {"searching", "cancelled"},
      refunded         |-> {} ]

JobStatus ==
    {"searching", "assigned", "en_route", "arrived", "in_progress",
     "completed", "disputed", "paid", "cancelled", "no_drivers_found",
     "refunded"}

\* ACTIVE_JOB_STATUSES: the statuses in which a driver is on the job, and the
\* predicate of the partial unique index uq_bookings_one_active_per_driver.
ActiveJobStatuses == {"assigned", "en_route", "arrived", "in_progress"}

IsLegal(from, to) == to \in LegalTransitions[from]
=============================================================================
