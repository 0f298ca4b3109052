------------------------------ MODULE MCI2c61 ------------------------------
(***************************************************************************)
(* Transfers for I2c61: a send and a receive of several bytes, a probe     *)
(* without data, and a register read (a write and a read in one).          *)
(***************************************************************************)
EXTENDS I2c61

W(k) == [rd |-> FALSE, len |-> k]
R(k) == [rd |-> TRUE, len |-> k]

MCTransfers ==
  { [via |-> "master_send", msgs |-> <<W(2)>>],
    [via |-> "master_recv", msgs |-> <<R(3)>>],
    [via |-> "transfer",    msgs |-> <<W(0)>>],
    [via |-> "transfer",    msgs |-> <<W(1), R(2)>>] }
=============================================================================
