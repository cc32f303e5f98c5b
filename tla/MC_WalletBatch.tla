--------------------------- MODULE MC_WalletBatch ---------------------------
(***************************************************************************)
(* main's eight calls, in its order.                                       *)
(***************************************************************************)
EXTENDS WalletBatch

MCSteps ==
  << [mode |-> "exec",     cmd |-> "balance"],
     [mode |-> "json",     cmd |-> "balance"],
     [mode |-> "exec",     cmd |-> "address"],
     [mode |-> "json",     cmd |-> "address"],
     [mode |-> "exec",     cmd |-> "set_nonce"],
     [mode |-> "jsonfile", cmd |-> "set_nonce"],
     [mode |-> "exec",     cmd |-> "transfer"],
     [mode |-> "jsonfile", cmd |-> "transfer"] >>

=============================================================================
