------------------------------ MODULE MCDriver ------------------------------
(***************************************************************************)
(* The driver on an image of MCReadFile: requests of a buffer's length for *)
(* the file in a subdirectory, which is shorter.                           *)
(***************************************************************************)
EXTENDS MCReadFile, Driver

MCLength == {3}
=============================================================================
