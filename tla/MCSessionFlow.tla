--------------------------- MODULE MCSessionFlow ----------------------------
(***************************************************************************)
(* Two sessions over one container under every mode of notification, a    *)
(* queue of one message and one metric, and as many entries as can be in   *)
(* the batch, in the queue and in the worker's hand at once.               *)
(***************************************************************************)
EXTENDS SessionFlow

CONSTANTS web, e1, e2

MCContainers == {web}
MCCallers    == {"main", "session", "other"}
MCEntries    == {e1, e2}
MCSubjects   == {"log", "empty", "report"} \cup MCContainers

Plain == [split |-> FALSE, report |-> TRUE, errorsOnly |-> FALSE,
          greet |-> TRUE, once |-> FALSE, overlap |-> FALSE, entries |-> {e1}]

MCSettings ==
    {Plain,
     [Plain EXCEPT !.errorsOnly = TRUE],
     [Plain EXCEPT !.split = TRUE, !.report = FALSE],
     [Plain EXCEPT !.overlap = TRUE, !.report = FALSE],
     [Plain EXCEPT !.split = TRUE, !.errorsOnly = TRUE, !.once = TRUE, !.greet = FALSE],
     [Plain EXCEPT !.once = TRUE, !.entries = MCEntries]}
=============================================================================
