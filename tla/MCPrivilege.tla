----------------------------- MODULE MCPrivilege -----------------------------
(***************************************************************************)
(* TLC instance of Privilege: one machine and two supervisor interrupts,   *)
(* ten values of mstatus that reach every combination of MPP, MPRV, SPP    *)
(* and the interrupt enables that traps and returns then permute.          *)
(***************************************************************************)
EXTENDS Privilege

MCInterrupts == {"MTI", "STI", "SSI"}
MCExceptions == {"Illegal_Instr"}

Value(mie_, mpp, mprv, tsr, sie_, spp) ==
  [MIE |-> mie_, MPIE |-> 0, MPP |-> mpp, MPRV |-> mprv, TSR |-> tsr,
   SIE |-> sie_, SPIE |-> 0, SPP |-> spp]

MCMstatusWritten ==
  {Value(0, p, m, 0, 0, 1) : p \in {"U", "S", "M", "H"}, m \in Bit}
  \union {Value(1, "S", 0, t, 1, 0) : t \in Bit}

MCMedelegWritten ==
  {{}, {"UEnvCall", "Illegal_Instr"}, {"SEnvCall", "MEnvCall"}}
=============================================================================
