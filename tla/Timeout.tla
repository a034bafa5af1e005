------------------------------ MODULE Timeout -------------------------------
(***************************************************************************)
(* Class riaps::utils::Timeout (r_timeout.h).  A timeout is a record of    *)
(* the configured duration and of the time left until m_endPoint; the      *)
(* clock is read by letting time pass (Elapse).  Once m_endPoint has       *)
(* passed, how long ago it did makes no difference: left stays at -1.      *)
(***************************************************************************)
EXTENDS Integers

Timeouts(D) == [timeout : D, left : D \cup {-1}]

\* Timeout(T), Timeout(int64_t) and Reset(T): duration and end point.
Armed(d) == [timeout |-> d, left |-> d]

\* Reset(int64_t): the duration is stored and the end point is NOT moved.
ResetCount(t, c) == [t EXCEPT !.timeout = c]

\* now > m_endPoint
IsTimeout(t) == t.left < 0

\* One unit of time passes.
Elapse(t) == IF t.left < 0 THEN t ELSE [t EXCEPT !.left = @ - 1]
=============================================================================
