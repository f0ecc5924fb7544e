--------------------------- MODULE ShmConnections ---------------------------
(* Who uses the shared memory of a WAL database.                           *)
CONSTANTS
  Process,  \* operating-system processes
  Conn,     \* connections (unixShm), each used by one thread at a time
  ProcOf    \* the process of each connection
=============================================================================
