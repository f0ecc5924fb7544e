------------------------------- MODULE Files -------------------------------
(***************************************************************************)
(* An open file, on Unix or on Windows as the build says.                  *)
(***************************************************************************)
EXTENDS UnixIo, WinIo

FilesNext == UnixNext \/ WinNext \/ FileNext
FilesSpec == FileInit /\ [][FilesNext]_ioVars
=============================================================================
