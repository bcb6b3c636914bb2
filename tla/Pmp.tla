-------------------------------- MODULE Pmp --------------------------------
(***************************************************************************)
(* The matching logic of physical memory protection                        *)
(* (riscv_pmp_control.sail) over the registers of PmpRegs: which range an  *)
(* entry covers, how an access meets it, and which entry decides.          *)
(* Below, the rule of the privileged architecture is written without the   *)
(* code's arithmetic, and the code is checked against it.                  *)
(***************************************************************************)
EXTENDS PmpRegs, FiniteSetsExt

\* The address above which a top-of-range entry starts.
PrevAddr(n) == IF n > 0 THEN pmpReadAddrReg(n - 1) ELSE 0

\* Arithmetic of a CSR wraps.
Word(v) == v % 2 ^ XLen

\* The mask a ^ (a + 1) has the bits of an address up to its lowest zero:
\* adding one to the mask gives this, and clearing the mask's bits rounds down to
\* a multiple of it.
NapotSize ==
  [a \in 0 .. 2 ^ XLen - 1 |->
     2 ^ (Min({k \in 0 .. XLen : (a \div 2 ^ k) % 2 = 0}) + 1)]

\* [lo, hi), in words.  NA4 covers four words, not one.
pmpAddrRange(n) ==
  LET a    == pmpReadAddrReg(n)
      size == NapotSize[a]
      lo   == a - (a % size)
  IN CASE pmpcfg_n[n].A = "OFF"   -> [lo |-> 0, hi |-> 0]
       [] pmpcfg_n[n].A = "TOR"   -> [lo |-> PrevAddr(n), hi |-> a]
       [] pmpcfg_n[n].A = "NA4"   -> [lo |-> a, hi |-> Word(a + 4)]
       [] pmpcfg_n[n].A = "NAPOT" -> [lo |-> lo, hi |-> Word(lo + Word(size))]

pmpCheckRWX(ent, acc) ==
  CASE acc = "Read"      -> ent.R
    [] acc = "Write"     -> ent.W
    [] acc = "ReadWrite" -> ent.R /\ ent.W
    [] acc = "Execute"   -> ent.X

pmpCheckPerms(ent, acc, priv) ==
  (priv = "Machine" /\ ~pmpLocked(ent)) \/ pmpCheckRWX(ent, acc)

\* Mutant: an access that starts in the range counts as a match.
pmpMatchAddr_Start(addr, width, rng) ==
  IF rng.lo * 4 <= addr /\ addr < rng.hi * 4 THEN "Match" ELSE "NoMatch"

\* How the bytes from addr on meet a range.
pmpMatchAddr(addr, width, rng) ==
  LET lo == rng.lo * 4
      hi == rng.hi * 4
  IN IF hi <= lo \/ addr + width <= lo \/ hi <= addr THEN "NoMatch"
     ELSE IF lo <= addr /\ addr + width <= hi THEN "Match"
     ELSE "PartialMatch"

\* The first entry that is not missed decides; with none, machine mode passes.
pmpCheck(addr, width, acc, priv) ==
  LET meets(n)  == pmpMatchAddr(addr, width, pmpAddrRange(n))
      decisive  == {n \in Entries : meets(n) # "NoMatch"}
  IN IF decisive = {} THEN priv = "Machine"
     ELSE LET n == Min(decisive)
          IN meets(n) = "Match" /\ pmpCheckPerms(pmpcfg_n[n], acc, priv)

\* phys_access_check: without entries nothing is checked.
phys_access_check(addr, width, acc, priv) ==
  Count = 0 \/ pmpCheck(addr, width, acc, priv)

----------------------------------------------------------------------------
(***************************************************************************)
(* The architecture's rule.                                                *)
(***************************************************************************)

\* The trailing ones of an address.
TrailingOnes ==
  [a \in 0 .. 2 ^ AddrBits - 1 |->
     CHOOSE k \in 0 .. AddrBits : a % 2 ^ (k + 1) = 2 ^ k - 1]

\* The words entry n is about.
Region(n) ==
  LET a == pmpReadAddrReg(n)
      k == TrailingOnes[a] + 1
  IN CASE pmpcfg_n[n].A = "OFF"   -> {}
       [] pmpcfg_n[n].A = "TOR"   -> PrevAddr(n) .. a - 1
       [] pmpcfg_n[n].A = "NA4"   -> {a}
       [] pmpcfg_n[n].A = "NAPOT" -> {w \in 0 .. 2 ^ (AddrBits + 1) :
                                         w \div 2 ^ k = a \div 2 ^ k}

Permits(ent, acc) ==
  /\ acc \in {"Read", "ReadWrite"}  => ent.R
  /\ acc \in {"Write", "ReadWrite"} => ent.W
  /\ acc = "Execute"                => ent.X

\* The lowest-numbered entry about any byte of the access decides, and denies
\* an access that is only partly in its region.
Rule(addr, width, acc, priv) ==
  LET words == addr \div 4 .. (addr + width - 1) \div 4
      about == {n \in Entries : Region(n) \intersect words # {}}
  IN IF about = {} THEN priv = "Machine"
     ELSE LET n == Min(about)
          IN /\ words \subseteq Region(n)
             /\ (priv = "Machine" /\ ~pmpcfg_n[n].L)
                   \/ Permits(pmpcfg_n[n], acc)

\* The accesses the program can make that the entries can tell apart.
Requests == {<<w * 4 + half, width>> : w \in 0 .. 2 ^ AddrBits - 1,
                                       half \in {0, 2}, width \in {2, 4, 8}}

\* Every access is decided as the architecture says, whatever the order in
\* which entries, locks and neighbours were written; NA4 entries apart.
CheckFollowsRule ==
  (\A n \in Entries : pmpcfg_n[n].A # "NA4") =>
     \A r \in Requests, acc \in {"ReadWrite", "Execute"},
        priv \in {"User", "Machine"} :
        pmpCheck(r[1], r[2], acc, priv) = Rule(r[1], r[2], acc, priv)

\* What a locked entry covers stays the same until reset, whatever is written around
\* it, but for its lower bound, which moves within a grain: the mode of the entry
\* below decides which bits of it count, and that mode is not locked.
LockedRegion ==
  [][Reset \/ \A n \in Entries : pmpLocked(pmpcfg_n[n]) =>
       LET granule == 2 ^ Lesser(grain, XLen)
       IN  /\ pmpAddrRange(n).hi' = pmpAddrRange(n).hi
           /\ pmpAddrRange(n).lo' \div granule = pmpAddrRange(n).lo \div granule]_vars

\* A locked entry meets the access, and all before it are locked too.
LockedFor(addr, width) ==
  \E n \in Entries :
    /\ \A m \in 0 .. n : pmpLocked(pmpcfg_n[m])
    /\ pmpMatchAddr(addr, width, pmpAddrRange(n)) # "NoMatch"

\* What locked entries decide stays decided until reset, in every mode of privilege,
\* whatever is written to the entries behind them and with every grain: of the
\* entries that meet an access the first one counts, also when it covers it in part.
LockedDecisions ==
  [][Reset \/ \A r \in Requests : LockedFor(r[1], r[2]) =>
       \A acc \in {"Read", "Write", "ReadWrite", "Execute"}, priv \in {"User", "Machine"} :
         pmpCheck(r[1], r[2], acc, priv)' = pmpCheck(r[1], r[2], acc, priv)]_vars

\* A four-byte entry covers four bytes.
Na4CoversOneWord ==
  \A n \in Entries : pmpcfg_n[n].A = "NA4" =>
     pmpAddrRange(n).hi - pmpAddrRange(n).lo = 1
=============================================================================
