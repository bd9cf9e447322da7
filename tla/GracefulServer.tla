--------------------------- MODULE GracefulServer ---------------------------
(***************************************************************************)
(* What falcore.Server promises to the program that embeds it: connections *)
(* are admitted while the server serves; once a stop has been requested at *)
(* most one more is admitted; and ListenAndServe returns only when every   *)
(* admitted connection has been retired.  Nothing here says how: there are *)
(* no goroutines, channels, deadlines or wait groups.                      *)
(***************************************************************************)
EXTENDS Naturals

CONSTANT Conn   \* the connections clients may open

VARIABLES
  phase,          \* "down", "serving", "stopped" (ListenAndServe returned), "dead"
  stopRequested,  \* StopAccepting has been called
  active,         \* admitted and not yet retired
  retired,        \* closed for good
  grace           \* admissions after the stop request

vars == <<phase, stopRequested, active, retired, grace>>

Init ==
  /\ phase = "down"
  /\ stopRequested = FALSE
  /\ active = {}
  /\ retired = {}
  /\ grace = 0

Serve ==
  /\ phase = "down"
  /\ phase' = "serving"
  /\ UNCHANGED <<stopRequested, active, retired, grace>>

Admit(c) ==
  /\ phase = "serving"
  /\ c \notin active \cup retired
  /\ \/ ~stopRequested /\ grace' = grace
     \/ stopRequested /\ grace = 0 /\ grace' = 1
  /\ active' = active \cup {c}
  /\ UNCHANGED <<phase, stopRequested, retired>>

Retire(c) ==
  /\ phase # "dead"
  /\ c \in active
  /\ active' = active \ {c}
  /\ retired' = retired \cup {c}
  /\ UNCHANGED <<phase, stopRequested, grace>>

RequestStop ==
  /\ phase # "dead"
  /\ ~stopRequested
  /\ stopRequested' = TRUE
  /\ UNCHANGED <<phase, active, retired, grace>>

\* ListenAndServe returns: only after a stop request, and with nothing active.
Return ==
  /\ phase = "serving"
  /\ stopRequested
  /\ active = {}
  /\ phase' = "stopped"
  /\ UNCHANGED <<stopRequested, active, retired, grace>>

\* The process may die at any time.
Die ==
  /\ phase # "dead"
  /\ phase' = "dead"
  /\ UNCHANGED <<stopRequested, active, retired, grace>>

Next ==
  \/ Serve \/ RequestStop \/ Return \/ Die
  \/ \E c \in Conn : Admit(c) \/ Retire(c)

Spec == Init /\ [][Next]_vars
=============================================================================
