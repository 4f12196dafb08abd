--------------------------- MODULE MCSessionTasks ---------------------------
\* SessionTasks for TLC: two turns, a message of the user, a note and a mail.
EXTENDS SessionTasks
=============================================================================
