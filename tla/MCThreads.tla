-------------------------------- MODULE MCThreads --------------------------------
(***************************************************************************)
(* Small instances of Threads for TLC, with the queues of MCChain.         *)
(***************************************************************************)
EXTENDS Threads, MCChain

================================================================================
