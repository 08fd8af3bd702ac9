------------------------------ MODULE MCTaskPage ------------------------------
(* Two requests at a time, one page *)
EXTENDS TaskPage
================================================================================
