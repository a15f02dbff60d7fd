------------------------------ MODULE Printer ------------------------------
(***************************************************************************)
(* Tracer::file_logger, the debug log every other class prints to.  A line *)
(* opens the file, writes and closes it, under a mutex.  A failed write    *)
(* leaves badbit set in the stream, a successful open clears it, and an    *)
(* open that fails does not set it: only both together make PrintLine      *)
(* throw, and it throws with the mutex locked.                             *)
(***************************************************************************)

VARIABLES
    enabled,  \* _enabled
    locked,   \* mtx is held
    bad,      \* badbit of _logFile
    threw,    \* PrintLine has thrown in this process
    hung      \* the process waits for mtx, which it holds itself

printerVars == <<enabled, locked, bad, threw, hung>>

PrinterInit ==
    enabled = FALSE /\ locked = FALSE /\ bad = FALSE /\ threw = FALSE /\ hung = FALSE

PrintLineLeavesLocked(skip) ==   \* mutant: a line that is skipped is not unlocked
    \/ ~enabled /\ UNCHANGED printerVars
    \/ /\ enabled /\ ~locked
       /\ bad' \in BOOLEAN /\ locked' = skip
       /\ UNCHANGED <<enabled, threw, hung>>

\* The line is written, or is not, because it is to be skipped, because the
\* file does not open or because the write fails; PrintLine returns.
PrintLine(skip) ==
    \/ ~enabled /\ UNCHANGED printerVars
    \/ /\ enabled /\ ~locked
       /\ \/ bad' = FALSE          \* opened
          \/ bad' = TRUE /\ ~skip  \* opened, and the write fails
          \/ ~bad /\ bad' = FALSE  \* not opened
       /\ UNCHANGED <<enabled, locked, threw, hung>>

\* The stream is bad and the file does not open.
Throws == enabled /\ ~locked /\ bad

PrintThrows ==
    /\ Throws
    /\ locked' = TRUE /\ threw' = TRUE
    /\ UNCHANGED <<enabled, bad, hung>>

\* mtx.lock() does not return.
PrintHangs ==
    /\ enabled /\ locked
    /\ hung' = TRUE
    /\ UNCHANGED <<enabled, locked, bad, threw>>
=============================================================================
