-------------------------------- MODULE LrSc --------------------------------
(***************************************************************************)
(* Load-reserved and store-conditional.  The emulator keeps one            *)
(* reservation, in the C globals reservation and reservation_valid, for    *)
(* whatever runs on the hart: here the threads of a kernel that a trap and *)
(* an xRET switch.  Neither the trap nor the xRET touches the reservation. *)
(***************************************************************************)
EXTENDS Integers

CONSTANTS
  Threads, Addrs,   \* Addrs: physical addresses
  NoAddr,
  KernelClears      \* does the kernel execute an sc before it returns?

ASSUME LrScAssumption ==
  /\ NoAddr \notin Addrs
  /\ KernelClears \in BOOLEAN

VARIABLES
  reservation, reservation_valid,   \* C globals
  thread,       \* the thread that runs, or that the kernel interrupted
  kernel,       \* is the hart in the kernel?
  rd,           \* what the last sc returned: 0 success, 1 failure, 2 none yet
  linked,       \* the address of each thread's last lr, until its sc
  written,      \* what others wrote since that lr
  interrupted   \* has the thread been trapped since that lr?

lrsc_vars == <<reservation, reservation_valid, thread, kernel, rd, linked, written,
          interrupted>>

\* The type invariant; a valid reservation has an address.
LrScTypeOK ==
  /\ reservation \in Addrs \union {NoAddr}
  /\ reservation_valid \in BOOLEAN
  /\ reservation_valid => reservation \in Addrs
  /\ thread \in Threads
  /\ kernel \in BOOLEAN
  /\ rd \in 0 .. 2
  /\ linked \in [Threads -> Addrs \union {NoAddr}]
  /\ written \in [Threads -> SUBSET Addrs]
  /\ interrupted \in [Threads -> BOOLEAN]

LrScInit ==
  /\ reservation = NoAddr /\ reservation_valid = FALSE
  /\ thread \in Threads /\ kernel = FALSE /\ rd = 2
  /\ linked = [t \in Threads |-> NoAddr]
  /\ written = [t \in Threads |-> {}]
  /\ interrupted = [t \in Threads |-> FALSE]
-----------------------------------------------------------------------------
\* Mutants: a cancelled reservation still matches; lr keeps the address of a
\* reservation that is set.
match_reservation_Stale(a) == reservation = a
load_reservation_First(a) ==
  /\ reservation' = IF reservation_valid THEN reservation ELSE a
  /\ reservation_valid' = TRUE

match_reservation(a) == reservation_valid /\ reservation = a

load_reservation(a) == reservation' = a /\ reservation_valid' = TRUE

cancel_reservation == reservation_valid' = FALSE

\* The reservation is set after the load succeeded.
LOADRES(a) ==
  /\ ~kernel
  /\ load_reservation(a)
  /\ linked' = [linked EXCEPT ![thread] = a]
  /\ written' = [written EXCEPT ![thread] = {}]
  /\ interrupted' = [interrupted EXCEPT ![thread] = FALSE]
  /\ UNCHANGED <<thread, kernel, rd>>

WrittenTo(a, others) ==
  [t \in Threads |-> IF t \in others THEN written[t] \union {a}
                                     ELSE written[t]]

STORECON(a) ==
  /\ ~kernel
  /\ IF match_reservation(a)
     THEN /\ rd' = 0
          /\ written' = WrittenTo(a, Threads \ {thread})
     ELSE rd' = 1 /\ UNCHANGED written
  /\ cancel_reservation
  /\ linked' = [linked EXCEPT ![thread] = NoAddr]
  /\ UNCHANGED <<reservation, thread, kernel, interrupted>>

\* Ordinary stores and AMOs, of a thread or of the kernel, do not look at the
\* reservation.
Store(a) ==
  /\ written' = WrittenTo(a, IF kernel THEN Threads ELSE Threads \ {thread})
  /\ UNCHANGED <<reservation, reservation_valid, thread, kernel, rd, linked,
                 interrupted>>

\* A trap: an ecall, an interrupt, or an lr, sc or store that faults.
Trap ==
  /\ ~kernel
  /\ kernel' = TRUE
  /\ interrupted' = [interrupted EXCEPT ![thread] = TRUE]
  /\ UNCHANGED <<reservation, reservation_valid, thread, rd, linked, written>>

\* The kernel returns to a thread; a careful kernel first executes an sc to a
\* scratch word, which cancels the reservation whether it matches or not.
Return(t) ==
  /\ kernel
  /\ kernel' = FALSE
  /\ thread' = t
  /\ IF KernelClears THEN cancel_reservation ELSE UNCHANGED reservation_valid
  /\ UNCHANGED <<reservation, rd, linked, written, interrupted>>

LrScNext ==
  \/ \E a \in Addrs : LOADRES(a) \/ STORECON(a) \/ Store(a)
  \/ Trap
  \/ \E t \in Threads : Return(t)

LrScSpec == LrScInit /\ [][LrScNext]_lrsc_vars
-----------------------------------------------------------------------------
(* Properties *)

\* A successful sc pairs with the last lr of the same thread to the same
\* address, and nobody else wrote there in between.
ScIsAtomic ==
  [][\A a \in Addrs : STORECON(a) /\ rd' = 0
       => linked[thread] = a /\ a \notin written[thread]]_lrsc_vars

\* An sc that follows its lr without a trap in between succeeds: retry loops
\* make progress.
NoSpuriousFailure ==
  [][\A a \in Addrs : STORECON(a) /\ rd' = 1
       => linked[thread] # a \/ interrupted[thread]]_lrsc_vars
=============================================================================
