--------------------------- MODULE MCWebSession ----------------------------
(* A small instance of WebSession for TLC.  The tabs are interchangeable,  *)
(* so what one of them comes to, each does.                                *)
EXTENDS WebSession

CONSTANTS t1, t2

MCTabs == {t1, t2}

FairSpec == SessionSpec /\ SessionFairness

(* A form that is sent on the login page gets its answer.                  *)
FormEnds == FormEndsIn(t1)

(* The spinner of the guard gives way to the dashboard or the login page.  *)
SpinnerEnds == SpinnerEndsIn(t1)
=============================================================================
