----------------------------- MODULE MCAppLife -----------------------------
(* Small apps for the runs of AppLife.                                     *)
EXTENDS AppLife

CONSTANTS e1, e2, c1

TwoEngines == {e1, e2}
OneClient == {c1}
FirstEngine == {e1}
Both == {TRUE, FALSE}

\* When another thread may close the app: once it has started, or whenever it is.
Started == {"ON_INIT_DONE"}
Anytime == States
=============================================================================
