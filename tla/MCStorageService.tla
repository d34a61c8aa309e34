-------------------------- MODULE MCStorageService --------------------------
(* The small instance of StorageService that TLC checks.                   *)
EXTENDS StorageService

CONSTANTS h1, h2

MCHandlers == {h1, h2}
=============================================================================
