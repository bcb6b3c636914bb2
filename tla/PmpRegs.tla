------------------------------ MODULE PmpRegs ------------------------------
(***************************************************************************)
(* The registers of physical memory protection (riscv_pmp_regs.sail): one  *)
(* configuration byte and one address register per entry, written by       *)
(* machine-mode software through CSRs that hold several bytes each.  An    *)
(* entry may be locked, which freezes it, and the address register below   *)
(* it when it is a top-of-range entry, until the machine is reset.         *)
(***************************************************************************)
EXTENDS Integers

CONSTANTS
  NumEntries,  \* entries that are matched: 64 in the code
  Count,       \* sys_pmp_count(), the entries the platform offers
  PerCsr,      \* configuration bytes in one CSR: 4 on RV32, 8 on RV64
  CsrStep,     \* distance of the numbers of two such CSRs: 1 on RV32, 2 on RV64
  XLen,        \* width of a CSR
  AddrBits,    \* bits of an address register: 32 on RV32, 54 on RV64
  Grains,      \* the values --pmp-grain may have
  Bytes,       \* the configuration bytes software writes
  Addrs        \* the addresses software writes

AddrMatchType == {"OFF", "TOR", "NA4", "NAPOT"}
Pmpcfg_ent == [L : BOOLEAN, A : AddrMatchType,
               X : BOOLEAN, W : BOOLEAN, R : BOOLEAN]

Entries == 0 .. NumEntries - 1

ASSUME PmpAssumption ==
  /\ NumEntries \in Nat \ {0} /\ Count \in 0 .. NumEntries
  /\ PerCsr \in Nat \ {0} /\ CsrStep \in Nat \ {0}
  /\ XLen \in Nat /\ AddrBits \in 0 .. XLen
  /\ Grains \subseteq Nat
  /\ Bytes \subseteq Pmpcfg_ent
  /\ Addrs \subseteq Nat

\* An address register holds a value below this.
AddrSpan == 2 ^ AddrBits

\* Facts of arithmetic that the provers do not compute for every width.
ASSUME PowerAssumption ==
  /\ 2 ^ 0 = 1
  /\ \A k \in 0 .. XLen : 2 ^ k \in Nat \ {0} /\ 2 ^ (k + 1) = 2 * 2 ^ k

VARIABLES
  pmpcfg_n,    \* entry -> configuration
  pmpaddr_n,   \* entry -> address register, in words
  grain        \* sys_pmp_grain(), an option of the command line

vars == <<pmpcfg_n, pmpaddr_n, grain>>

\* What model_init and init_pmp leave: nothing locked, nothing matched.
AfterReset ==
  [n \in Entries |-> [L |-> FALSE, A |-> "OFF",
                      X |-> FALSE, W |-> FALSE, R |-> FALSE]]

Init ==
  /\ pmpcfg_n = AfterReset
  /\ pmpaddr_n = [n \in Entries |-> 0]
  /\ grain \in Grains

pmpLocked(cfg) == cfg.L
pmpTORLocked(cfg) == cfg.L /\ cfg.A = "TOR"

\* Mutant: the address below a locked top-of-range entry is left writable.
AddrLocked_Own(n) == pmpLocked(pmpcfg_n[n])

\* What a configuration byte becomes: reserved permissions are dropped and
\* NA4 is not selectable with a grain.
Legal(v) ==
  LET w == IF v.W /\ ~v.R
           THEN [v EXCEPT !.X = FALSE, !.W = FALSE, !.R = FALSE] ELSE v
  IN IF grain >= 1 /\ w.A = "NA4" THEN [w EXCEPT !.A = "OFF"] ELSE w

pmpWriteCfg(cfg, v) == IF pmpLocked(cfg) THEN cfg ELSE Legal(v)

\* May address register n be written?
AddrLocked(n) ==
  \/ pmpLocked(pmpcfg_n[n])
  \/ n + 1 \in Entries /\ pmpTORLocked(pmpcfg_n[n + 1])

\* A write of the k-th configuration CSR, which changes PerCsr entries.  The
\* CSR exists when its number, not the number of its entries, is below Count.
pmpWriteCfgReg(k, bytes) ==
  /\ k * CsrStep < Count
  /\ pmpcfg_n' = [n \in Entries |->
       IF n \div PerCsr = k THEN pmpWriteCfg(pmpcfg_n[n], bytes[n % PerCsr])
       ELSE pmpcfg_n[n]]
  /\ UNCHANGED <<pmpaddr_n, grain>>

pmpWriteAddrReg(n, v) ==
  /\ n < Count
  /\ pmpaddr_n' = [pmpaddr_n EXCEPT ![n] =
                     IF AddrLocked(n) THEN @ ELSE v % AddrSpan]
  /\ UNCHANGED <<pmpcfg_n, grain>>

\* reinit_sail between two runs of the verification interface.
Reset ==
  /\ pmpcfg_n' = AfterReset
  /\ pmpaddr_n' = [n \in Entries |-> 0]
  /\ UNCHANGED grain

Next ==
  \/ \E k \in Entries, bytes \in [0 .. PerCsr - 1 -> Bytes] :
        pmpWriteCfgReg(k, bytes)
  \/ \E n \in Entries, v \in Addrs : pmpWriteAddrReg(n, v)
  \/ Reset

Spec == Init /\ [][Next]_vars

----------------------------------------------------------------------------
\* Clear, or set, the low k bits of an address.
LowZeros(a, k) == (a \div 2 ^ k) * 2 ^ k
LowOnes(a, k)  == LowZeros(a, k) + 2 ^ k - 1

Lesser(a, b) == IF a <= b THEN a ELSE b

\* Mutant: without NAPOT one bit more is cleared.
pmpReadAddrReg_OneMore(n) ==
  LET a == pmpaddr_n[n] IN
  IF pmpcfg_n[n].A \in {"NA4", "NAPOT"}
  THEN IF grain >= 2 THEN LowOnes(a, Lesser(grain - 1, XLen)) ELSE a
  ELSE IF grain >= 1 THEN LowZeros(a, Lesser(grain + 1, XLen)) ELSE a

\* What software, and the matching logic, see of address register n: how many
\* of its low bits count depends on the grain and on the mode of entry n.
pmpReadAddrReg(n) ==
  LET a == pmpaddr_n[n] IN
  IF pmpcfg_n[n].A \in {"NA4", "NAPOT"}
  THEN IF grain >= 2 THEN LowOnes(a, Lesser(grain - 1, XLen)) ELSE a
  ELSE IF grain >= 1 THEN LowZeros(a, Lesser(grain, XLen)) ELSE a

----------------------------------------------------------------------------
\* The type invariant of the registers.
TypeOK ==
  /\ pmpcfg_n \in [Entries -> Pmpcfg_ent]
  /\ pmpaddr_n \in [Entries -> Nat]
  /\ grain \in Grains

\* The assertion of pmpAddrRange can not fail: whatever is written, an entry
\* in mode NA4 means there is no grain.
NoNa4WithGrain == \A n \in Entries : pmpcfg_n[n].A = "NA4" => grain = 0

\* All that pins down what a locked entry protects: its byte, its address
\* and, for a top-of-range entry, the address below.
Frozen(n) ==
  /\ pmpcfg_n'[n] = pmpcfg_n[n]
  /\ pmpaddr_n'[n] = pmpaddr_n[n]
  /\ (pmpcfg_n[n].A = "TOR" /\ n > 0) => pmpaddr_n'[n - 1] = pmpaddr_n[n - 1]

\* A locked entry keeps all of that until reset, though the byte that locks
\* it is written together with its neighbours' and the address below it
\* belongs to another entry.
LockedStays ==
  [][Reset \/ \A n \in Entries : pmpLocked(pmpcfg_n[n]) => Frozen(n)]_vars
=============================================================================
