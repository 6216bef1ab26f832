-------------------------- MODULE MCServiceGroup --------------------------
(* An instance of ServiceGroup for TLC. *)
EXTENDS ServiceGroup

CleanupHttpGrpc == <<"cleanup", "http", "grpc">>
=============================================================================
