---------------------------- MODULE TimerProofs ----------------------------
(***************************************************************************)
(* The counter of axi_irq_prj1 with its driver, for any width of the       *)
(* registers and any start values: what a read returns has expired, and a  *)
(* closed device is released.                                              *)
(***************************************************************************)
EXTENDS IrqTimer, TLAPS

-----------------------------------------------------------------------------
(* The counter's arithmetic *)

LEMMA Numbers ==
  /\ Half \in Nat \ {0} /\ Top \in Nat \ {0} /\ 2 * Top = Half * Half
  /\ 0 \in Counter /\ Top \in Counter /\ 0 \in 0..Half - 1
<1>1. Half \in Nat \ {0} /\ Top \in Int /\ 2 * Top = Half * Half
  BY WidthAssumption
<1>2. Half * Half > 0
  BY <1>1
<1>3. Top > 0
  BY ONLY <1>1, <1>2
<1> QED
  BY ONLY <1>1, <1>3 DEF Counter

\* A counter is its two halves, and two halves make a counter.
LEMMA Halves ==
  ASSUME NEW n \in Counter
  PROVE  /\ n % Half \in 0..Half - 1 /\ n \div Half \in 0..Half - 1
         /\ (n % Half) + (n \div Half) * Half = n
<1> DEFINE h == Half
<1>1. h \in Nat \ {0} /\ n \in Nat /\ n < h * h
  BY Numbers DEF Counter
<1> HIDE DEF h
<1>2. n % h \in 0..h - 1 /\ n \div h \in Nat /\ n = h * (n \div h) + (n % h)
  BY ONLY <1>1
<1>3. n \div h < h
  <2> DEFINE q == n \div h
             r == n % h
  <2>1. q \in Nat /\ r \in 0..h - 1 /\ n = h * q + r
    BY <1>2
  <2> HIDE DEF q, r
  <2>2. ASSUME q >= h PROVE FALSE
    <3>1. h * q >= h * h
      BY ONLY <1>1, <2>1, <2>2
    <3> QED
      BY ONLY <1>1, <2>1, <3>1
  <2>3. q < h
    BY ONLY <1>1, <2>1, <2>2
  <2> QED
    BY <2>3 DEF q
<1>4. h * (n \div h) = (n \div h) * h
  BY ONLY <1>1, <1>2
<1> QED
  BY ONLY <1>1, <1>2, <1>3, <1>4 DEF h

LEMMA Joined ==
  ASSUME NEW low \in 0..Half - 1, NEW high \in 0..Half - 1
  PROVE  low + high * Half \in Counter /\ high * Half + low \in Counter
<1> DEFINE h == Half
<1>1. h \in Nat \ {0} /\ low \in 0..h - 1 /\ high \in 0..h - 1
  BY Numbers
<1>2. 2 * Top = h * h /\ Top \in Nat
  BY Numbers
<1> HIDE DEF h
<1>3. high * h <= (h - 1) * h /\ high * h >= 0 /\ high * h \in Int
  BY ONLY <1>1
<1>4. (h - 1) * h = h * h - h
  BY ONLY <1>1
<1>5. h * h \in Int
  BY ONLY <1>1
<1>6. low + high * h \in 0..h * h - 1 /\ high * h + low \in 0..h * h - 1
  BY ONLY <1>1, <1>3, <1>4, <1>5
<1> QED
  BY ONLY <1>2, <1>6 DEF Counter, h

\* The clock keeps a counter that has not reached its lowest value in range,
\* and one that has run through zero above the top bit.
LEMMA Clocked ==
  ASSUME int_counter \in Counter, int_counter # Top
  PROVE  Decremented \in Counter /\ (int_counter >= Top => Decremented >= Top)
<1> DEFINE top == Top
           c == int_counter
<1>1. top \in Nat \ {0} /\ c \in 0..2 * top - 1 /\ c # top
  BY Numbers DEF Counter
<1> HIDE DEF top, c
<1>2. CASE c > 0
  <2>1. (c - 1) % (2 * top) = c - 1
    BY ONLY <1>1, <1>2
  <2> QED
    BY ONLY <1>1, <1>2, <2>1 DEF Decremented, Counter, top, c
<1>3. CASE c = 0
  <2>1. (c - 1) % (2 * top) = 2 * top - 1
    BY ONLY <1>1, <1>3
  <2> QED
    BY ONLY <1>1, <1>3, <2>1 DEF Decremented, Counter, top, c
<1> QED
  BY ONLY <1>1, <1>2, <1>3

-----------------------------------------------------------------------------
(* Types, for any number of processes *)

\* What is subtracted is there, and half a counter has been read.
TInv ==
  /\ TypeOK
  /\ irq_set => handlers > 0
  /\ \A t \in Threads : pc[t] = "get_high" => val[t] \in 0..Half - 1

LEMMA TInit == Init => TInv
<1> SUFFICES ASSUME Init PROVE TInv
  OBVIOUS
<1>1. int_counter \in Counter /\ slv_reg0 \in 0..Half - 1 /\ slv_reg1 \in 0..Half - 1
  BY Numbers DEF Init, RegInit
<1>2. ctrl \in SUBSET Bits /\ handlers \in 0..MAX_HANDLERS
  BY HandlersAssumption DEF Init, RegInit
<1>3. pc \in [Threads -> Labels] /\ \A t \in Threads : pc[t] = "closed"
  BY DEF Init, Labels
<1>4. tmp \in [Threads -> [read : BOOLEAN, bits : SUBSET Bits]]
  BY DEF Init, NotRead
<1>5. arg \in [Threads -> Counter] /\ val \in [Threads -> Counter]
  BY Numbers DEF Init
<1> QED
  BY <1>1, <1>2, <1>3, <1>4, <1>5 DEF Init, TInv, TypeOK

LEMMA UpdateLabels ==
  /\ DOMAIN Update \subseteq Labels /\ UserStates \subseteq Labels
  /\ DOMAIN Update = {"clear", "load", "unload", "enable", "disable"}
  /\ \A op \in DOMAIN Update : Update[op] \in Labels \ {"get_high"}
  /\ \A op \in DOMAIN Update : \A bits \in SUBSET Bits : Updated(op, bits) \in SUBSET Bits
BY DEF Labels, UserStates, Update, Updated, Bits

\* The counter stays in range when a register was written.
LEMMA LoadType ==
  ASSUME TypeOK, Loaded, slv_reg0' \in 0..Half - 1, slv_reg1' \in 0..Half - 1
  PROVE  int_counter' \in Counter
BY Joined DEF TypeOK, Loaded, LoadedOver

LEMMA TNext ==
  ASSUME TInv, Next
  PROVE  TInv'
<1>t. TypeOK
  BY DEF TInv
<1>1. CASE Tick
  BY <1>1, <1>t, Clocked
  DEF TInv, TypeOK, Tick, Count, Counting, isrVars, irqVars, procVars
<1>2. CASE IsrEnter
  BY <1>2, <1>t DEF IsrEnter, TInv, TypeOK, regVars, irqVars, procVars
<1>3. CASE IsrRead
  BY <1>3, <1>t DEF IsrRead, TInv, TypeOK, regVars, irqVars, procVars
<1>4. CASE IsrWrite
  <2>1. int_counter' \in Counter
    BY <1>4, <1>t, LoadType DEF IsrWrite, TypeOK
  <2> QED
    BY <1>4, <1>t, <2>1 DEF IsrWrite, TInv, TypeOK, irqVars, procVars
<1>5. CASE IsrWake
  <2>1. pc' \in [Threads -> Labels]
    BY <1>5, <1>t DEF IsrWake, Woken, TypeOK, Labels
  <2>2. \A t \in Threads : pc'[t] = "get_high" => pc[t] = "get_high"
    BY <1>5, <1>t DEF IsrWake, Woken
  <2> QED
    BY <1>5, <1>t, <2>1, <2>2 DEF IsrWake, TInv, TypeOK, regVars, irqVars
<1>6. ASSUME NEW t \in Threads, UpdateRead(t) PROVE TInv'
  BY <1>6, <1>t, UpdateLabels
  DEF TInv, TypeOK, Labels, UserStates, regVars, isrVars, irqVars, procVars, UpdateRead, Update
<1>7. ASSUME NEW t \in Threads, UpdateWrite(t) PROVE TInv'
  <2>1. ctrl' \in SUBSET Bits /\ Update[pc[t]] \in Labels \ {"get_high"}
    BY <1>7, <1>t, UpdateLabels DEF UpdateWrite, TypeOK
  <2>2. int_counter' \in Counter
    BY <1>7, <1>t, LoadType DEF UpdateWrite, TypeOK
  <2> QED
    BY <1>7, <1>t, <2>1, <2>2
    DEF UpdateWrite, Goto, NotRead, TInv, TypeOK, isrVars, irqVars
<1>8. ASSUME NEW t \in Threads, SetLow(t) PROVE TInv'
  <2>1. slv_reg0' \in 0..Half - 1
    BY <1>8, <1>t, Halves DEF SetLow, TypeOK
  <2>2. int_counter' \in Counter
    BY <1>8, <1>t, <2>1, LoadType DEF SetLow, TypeOK
  <2> QED
    BY <1>8, <1>t, <2>1, <2>2
    DEF SetLow, Goto, TInv, TypeOK, Labels, isrVars, irqVars
<1>9. ASSUME NEW t \in Threads, SetHigh(t) PROVE TInv'
  <2>1. slv_reg1' \in 0..Half - 1
    BY <1>9, <1>t, Halves DEF SetHigh, TypeOK
  <2>2. int_counter' \in Counter
    BY <1>9, <1>t, <2>1, LoadType DEF SetHigh, TypeOK
  <2> QED
    BY <1>9, <1>t, <2>1, <2>2, UpdateLabels
    DEF SetHigh, Goto, TInv, TypeOK, isrVars, irqVars
<1>10. ASSUME NEW t \in Threads, Check(t) PROVE TInv'
  BY <1>10, <1>t, UpdateLabels
  DEF TInv, TypeOK, Labels, UserStates, regVars, isrVars, irqVars, procVars, Check, Goto
<1>11. ASSUME NEW t \in Threads, GetLow(t) PROVE TInv'
  <2>1. int_counter % Half \in 0..Half - 1
    BY <1>t, Halves DEF TypeOK
  <2>2. int_counter % Half \in Counter
    <3> DEFINE low == int_counter % Half
    <3>1. low \in 0..Half - 1 /\ 0 \in 0..Half - 1 /\ Half \in Nat
      BY <2>1, Numbers
    <3> HIDE DEF low
    <3>2. low + 0 * Half \in Counter
      BY <3>1, Joined
    <3>3. low + 0 * Half = low
      BY ONLY <3>1
    <3> QED
      BY <3>2, <3>3 DEF low
  <2> QED
    BY <1>11, <1>t, <2>1, <2>2
    DEF GetLow, Goto, TInv, TypeOK, Labels, regVars, isrVars, irqVars
<1>12. ASSUME NEW t \in Threads, GetHigh(t) PROVE TInv'
  <2>1. val[t] \in 0..Half - 1 /\ int_counter \div Half \in 0..Half - 1
    BY <1>12, <1>t, Halves DEF GetHigh, TInv, TypeOK
  <2>2. val[t] + (int_counter \div Half) * Half \in Counter
    BY <2>1, Joined
  <2> QED
    BY <1>12, <1>t, <2>2
    DEF GetHigh, Goto, TInv, TypeOK, Labels, UserStates, regVars, isrVars, irqVars
<1>13. ASSUME NEW t \in Threads, FreeIrq(t) PROVE TInv'
  <2>1. handlers' \in 0..MAX_HANDLERS
    BY <1>13, <1>t, HandlersAssumption DEF FreeIrq, Unregistered, TInv, TypeOK
  <2> QED
    BY <1>13, <1>t, <2>1, Numbers
    DEF FreeIrq, Goto, TInv, TypeOK, Labels, regVars, isrVars
<1>14. ASSUME NEW t \in Threads, Open(t) PROVE TInv'
  <2>1. handlers' \in 0..MAX_HANDLERS /\ (irq_set' => handlers' > 0) /\ irq_set' \in BOOLEAN
    <3>1. CASE handlers < MAX_HANDLERS /\ irq_set' = TRUE /\ handlers' = handlers + 1
      BY <1>t, <3>1, HandlersAssumption DEF TypeOK
    <3>2. CASE irq_set' = FALSE /\ handlers' = handlers
      BY <1>t, <3>2 DEF TypeOK
    <3> QED
      BY <1>14, <3>1, <3>2 DEF Open
  <2> QED
    BY <1>14, <1>t, <2>1
    DEF Open, Goto, TInv, TypeOK, Labels, UserStates, regVars, isrVars
<1>15. ASSUME NEW t \in Threads, Read(t) PROVE TInv'
  BY <1>15, <1>t, UpdateLabels
  DEF TInv, TypeOK, Labels, UserStates, regVars, isrVars, irqVars, procVars, Read, Goto
<1>16. ASSUME NEW t \in Threads, ReadSignal(t) PROVE TInv'
  BY <1>16, <1>t, UpdateLabels
  DEF TInv, TypeOK, Labels, UserStates, regVars, isrVars, irqVars, procVars, ReadSignal, Goto
<1>17. ASSUME NEW t \in Threads, Close(t) PROVE TInv'
  BY <1>17, <1>t, UpdateLabels
  DEF TInv, TypeOK, Labels, UserStates, regVars, isrVars, irqVars, procVars, Close, Goto, UserStates
<1>18. ASSUME NEW t \in Threads, NEW v \in VALUES, Write(t, v) PROVE TInv'
  <2>1. v \in Counter
    BY ValuesAssumption
  <2> QED
    BY <1>18, <1>t, <2>1, UpdateLabels
    DEF Write, Goto, TInv, TypeOK, regVars, isrVars, irqVars
<1> QED
  BY <1>1, <1>2, <1>3, <1>4, <1>5, <1>6, <1>7, <1>8, <1>9, <1>10, <1>11,
     <1>12, <1>13, <1>14, <1>15, <1>16, <1>17, <1>18
  DEF Next, Handler, InCall, Call

LEMMA TypesStay == Spec => []TInv
<1>1. TInv /\ [Next]_vars => TInv'
  <2> SUFFICES ASSUME TInv, [Next]_vars PROVE TInv'
    OBVIOUS
  <2>1. CASE UNCHANGED vars
    BY <2>1 DEF vars, regVars, isrVars, irqVars, procVars, TInv, TypeOK
  <2> QED
    BY <2>1, TNext
<1> QED
  BY TInit, <1>1, PTL DEF Spec

\* Registers, control bits and labels keep their types for any width of the
\* registers, any processes and any order of their calls.
THEOREM TypeCorrect == Spec => []TypeOK
<1>1. TInv => TypeOK
  BY DEF TInv
<1> QED
  BY TypesStay, <1>1, PTL

-----------------------------------------------------------------------------
(* One process: release *)

On == "irq_enable" \in ctrl

\* The flag says whether the handler is registered, it is while the handler
\* runs, and the counter has been stopped before it is given back.
RelInv(u) ==
  /\ handlers = IF irq_set THEN 1 ELSE 0
  /\ irq_set => pc[u] # "closed"
  /\ isr # "idle" => irq_set
  /\ pc[u] \in {"free_irq", "closed"} => ~On

LEMMA RelNext ==
  ASSUME NEW u, Threads = {u}, TInv, RelInv(u), Next
  PROVE  RelInv(u)'
<1>t. /\ pc \in [Threads -> Labels] /\ irq_set \in BOOLEAN /\ handlers \in Nat
      /\ MAX_HANDLERS \in Nat /\ u \in Threads /\ \A t \in Threads : t = u
  BY HandlersAssumption DEF TInv, TypeOK
<1>1. CASE Tick
  BY <1>1, <1>t DEF Tick, Count, RelInv, On, isrVars, irqVars, procVars
<1>2. CASE IsrEnter
  BY <1>2, <1>t
  DEF RelInv, On, UserStates, regVars, isrVars, irqVars, procVars, IsrEnter
<1>3. CASE IsrRead
  BY <1>3, <1>t
  DEF RelInv, On, UserStates, regVars, isrVars, irqVars, procVars, IsrRead
<1>4. CASE IsrWrite
  BY <1>4, <1>t DEF IsrWrite, RelInv, On, irqVars, procVars
<1>5. CASE IsrWake
  <2>1. pc'[u] # pc[u] => pc[u] = "sleep" /\ pc'[u] = "check"
    BY <1>5, <1>t DEF IsrWake, Woken
  <2> QED
    BY <1>5, <1>t, <2>1 DEF IsrWake, RelInv, On, regVars, irqVars
<1>6. ASSUME NEW t \in Threads, UpdateRead(t) PROVE RelInv(u)'
  BY <1>6, <1>t DEF UpdateRead, RelInv, On, regVars, isrVars, irqVars
<1>7. ASSUME NEW t \in Threads, UpdateWrite(t) PROVE RelInv(u)'
  <2>1. pc'[u] = Update[pc[u]] /\ pc[u] \in DOMAIN Update /\ t = u
    BY <1>7, <1>t DEF UpdateWrite, Goto
  <2>2. pc'[u] # "closed" /\ (pc'[u] = "free_irq" => pc[u] = "disable")
    BY <2>1 DEF Update
  <2>3. pc[u] = "disable" => "irq_enable" \notin ctrl'
    BY <1>7, <2>1 DEF UpdateWrite, Updated
  <2> QED
    BY <1>7, <1>t, <2>2, <2>3 DEF UpdateWrite, RelInv, On, isrVars, irqVars
<1>8. ASSUME NEW t \in Threads, SetLow(t) PROVE RelInv(u)'
  BY <1>8, <1>t DEF SetLow, Goto, RelInv, On, isrVars, irqVars
<1>9. ASSUME NEW t \in Threads, SetHigh(t) PROVE RelInv(u)'
  BY <1>9, <1>t DEF SetHigh, Goto, RelInv, On, isrVars, irqVars
<1>10. ASSUME NEW t \in Threads, Check(t) PROVE RelInv(u)'
  BY <1>10, <1>t
  DEF RelInv, On, UserStates, regVars, isrVars, irqVars, procVars, Check, Goto
<1>11. ASSUME NEW t \in Threads, GetLow(t) PROVE RelInv(u)'
  BY <1>11, <1>t
  DEF RelInv, On, UserStates, regVars, isrVars, irqVars, procVars, GetLow, Goto
<1>12. ASSUME NEW t \in Threads, GetHigh(t) PROVE RelInv(u)'
  BY <1>12, <1>t
  DEF RelInv, On, UserStates, regVars, isrVars, irqVars, procVars, GetHigh, Goto
<1>13. ASSUME NEW t \in Threads, FreeIrq(t) PROVE RelInv(u)'
  BY <1>13, <1>t
  DEF RelInv, On, UserStates, regVars, isrVars, irqVars, procVars, FreeIrq, Goto, Unregistered
<1>14. ASSUME NEW t \in Threads, Open(t) PROVE RelInv(u)'
  BY <1>14, <1>t
  DEF RelInv, On, UserStates, regVars, isrVars, irqVars, procVars, Open, Goto
<1>15. ASSUME NEW t \in Threads, Read(t) PROVE RelInv(u)'
  BY <1>15, <1>t
  DEF RelInv, On, UserStates, regVars, isrVars, irqVars, procVars, Read, Goto
<1>16. ASSUME NEW t \in Threads, ReadSignal(t) PROVE RelInv(u)'
  BY <1>16, <1>t
  DEF RelInv, On, UserStates, regVars, isrVars, irqVars, procVars, ReadSignal, Goto
<1>17. ASSUME NEW t \in Threads, Close(t) PROVE RelInv(u)'
  BY <1>17, <1>t
  DEF RelInv, On, UserStates, regVars, isrVars, irqVars, procVars, Close, Goto, UserStates
<1>18. ASSUME NEW t \in Threads, NEW v \in VALUES, Write(t, v) PROVE RelInv(u)'
  BY <1>18, <1>t
  DEF RelInv, On, UserStates, regVars, isrVars, irqVars, procVars, Write, Goto
<1> QED
  BY <1>1, <1>2, <1>3, <1>4, <1>5, <1>6, <1>7, <1>8, <1>9, <1>10, <1>11,
     <1>12, <1>13, <1>14, <1>15, <1>16, <1>17, <1>18
  DEF Next, Handler, InCall, Call

\* With one process, for any order of its calls and a kill between any two of
\* them, a closed device has no handler registered and its counter is stopped
\* (tst1_release).
THEOREM ReleaseSound == (\E u : Threads = {u}) /\ Spec => []Released
<1> SUFFICES ASSUME NEW u, Threads = {u} PROVE Spec => []Released
  OBVIOUS
<1>1. Init => RelInv(u)
  BY DEF Init, RegInit, RelInv, On
<1>2. TInv /\ RelInv(u) /\ [Next]_vars => RelInv(u)'
  <2> SUFFICES ASSUME TInv, RelInv(u), [Next]_vars PROVE RelInv(u)'
    OBVIOUS
  <2>1. CASE UNCHANGED vars
    BY <2>1 DEF vars, regVars, isrVars, irqVars, procVars, RelInv, On
  <2> QED
    BY <2>1, RelNext
<1>3. RelInv(u) => Released
  BY DEF RelInv, On, Released
<1>4. Spec => []TInv
  BY TypesStay
<1> QED
  BY <1>1, <1>2, <1>3, <1>4, PTL DEF Spec

-----------------------------------------------------------------------------
(* One process that reads what it has started: the answer has expired *)

Running == {"armed", "check", "sleep"}

\* Who has enabled the interrupt, what a control register that was read in
\* part of an update may hold, and where the counter is by then.
ExpInv(u) ==
  /\ On => pc[u] \in Running \cup {"disable"}
  /\ "load_enable" \in ctrl => pc[u] = "unload"
  /\ tmp[u].read => /\ pc[u] \in DOMAIN Update
                    /\ pc[u] = "disable" => "load_enable" \notin tmp[u].bits
                    /\ pc[u] # "disable" => tmp[u].bits = ctrl
  /\ isr \in {"read", "write"} => /\ pc[u] \in Running => On
                                  /\ pc[u] \in Running \cup {"disable", "free_irq"}
                                  /\ int_counter >= Top
  /\ isr = "write" => "load_enable" \notin isr_tmp
  /\ isr # "idle" => pc[u] # "closed"
  /\ pc[u] \in Running => On \/ int_counter >= Top
  /\ pc[u] \in {"get_low", "get_high"} => int_counter >= Top
  /\ pc[u] = "get_high" => val[u] = int_counter % Half
  /\ pc[u] = "got" => val[u] >= Top

LEMMA ExpNext ==
  ASSUME NEW u, Threads = {u}, Rearm = FALSE, TInv, RelInv(u), ExpInv(u), Next
  PROVE  ExpInv(u)'
<1>t. /\ pc \in [Threads -> Labels] /\ u \in Threads /\ \A t \in Threads : t = u
      /\ tmp \in [Threads -> [read : BOOLEAN, bits : SUBSET Bits]]
      /\ val \in [Threads -> Counter] /\ int_counter \in Counter
      /\ isr \in {"idle", "read", "write", "wake"} /\ irq_set \in BOOLEAN
  BY DEF TInv, TypeOK
<1>i. int_counter \in Int /\ Top \in Int
  BY <1>t, Numbers DEF Counter
<1>l. DOMAIN Update = {"clear", "load", "unload", "enable", "disable"}
  BY DEF Update
<1>1. CASE Tick
  <2>1. int_counter >= Top => int_counter' >= Top
    BY <1>1, <1>t, Clocked DEF Tick, Count, Counting
  <2>2. On /\ UNCHANGED <<ctrl, isr, isr_tmp, pc, tmp, val>>
    BY <1>1 DEF Tick, Count, Counting, On, isrVars, procVars
  <2>3. pc[u] \notin {"get_low", "get_high"}
    BY <2>2 DEF ExpInv, Running
  <2> QED
    BY <2>1, <2>2, <2>3 DEF ExpInv, On
<1>2. CASE IsrEnter
  <2>1. isr' = "read" => On /\ int_counter >= Top
    BY <1>2 DEF IsrEnter, Request, On
  <2>2. isr' \in {"read", "idle"} /\ isr = "idle" /\ UNCHANGED <<ctrl, int_counter, isr_tmp, pc, tmp, val>>
    BY <1>2 DEF IsrEnter, regVars, procVars
  <2> QED
    BY <2>1, <2>2, <1>l DEF ExpInv, On, Running
<1>3. CASE IsrRead
  BY <1>3, <1>t, <1>i, <1>l
  DEF ExpInv, On, Running, UserStates, regVars, isrVars, irqVars, procVars, IsrRead
<1>4. CASE IsrWrite
  <2>1. int_counter >= Top /\ pc[u] \in Running \cup {"disable", "free_irq"}
        /\ "load_enable" \notin isr_tmp
    BY <1>4 DEF IsrWrite, ExpInv
  <2>2. ctrl' = isr_tmp \ {"irq_enable"} /\ int_counter' = int_counter /\ isr' = "wake"
        /\ UNCHANGED <<isr_tmp, pc, tmp, val>>
    BY <1>4, <2>1 DEF IsrWrite, Loaded, LoadedOver, procVars
  <2>3. tmp[u].read => pc[u] = "disable" /\ "load_enable" \notin tmp[u].bits
    BY <2>1, <1>l DEF ExpInv, Running
  <2> QED
    BY <2>1, <2>2, <2>3 DEF ExpInv, On, Running
<1>5. CASE IsrWake
  BY <1>5, <1>t, <1>i, <1>l
  DEF ExpInv, On, Running, UserStates, regVars, isrVars, irqVars, procVars, IsrWake, Woken
<1>6. ASSUME NEW t \in Threads, UpdateRead(t) PROVE ExpInv(u)'
  BY <1>6, <1>t, <1>i, <1>l
  DEF ExpInv, On, Running, UserStates, regVars, isrVars, irqVars, procVars, UpdateRead, Update
<1>7. ASSUME NEW t \in Threads, UpdateWrite(t) PROVE ExpInv(u)'
  BY <1>7, <1>t, <1>i, <1>l
  DEF ExpInv, On, Running, UserStates, regVars, isrVars, irqVars, procVars, UpdateWrite, Goto, Update, Updated, Loaded, LoadedOver, NotRead
<1>8. ASSUME NEW t \in Threads, SetLow(t) PROVE ExpInv(u)'
  <2>1. pc[u] = "set_low" /\ pc'[u] = "set_high" /\ int_counter' = int_counter
        /\ UNCHANGED <<ctrl, isr, isr_tmp, tmp>>
    BY <1>8, <1>t DEF SetLow, Goto, Loaded, LoadedOver, ExpInv, isrVars
  <2> QED
    BY <2>1, <1>l DEF ExpInv, On, Running
<1>9. ASSUME NEW t \in Threads, SetHigh(t) PROVE ExpInv(u)'
  <2>1. pc[u] = "set_high" /\ pc'[u] = "load" /\ int_counter' = int_counter
        /\ UNCHANGED <<ctrl, isr, isr_tmp, tmp>>
    BY <1>9, <1>t DEF SetHigh, Goto, Loaded, LoadedOver, ExpInv, isrVars
  <2> QED
    BY <2>1, <1>l DEF ExpInv, On, Running
<1>10. ASSUME NEW t \in Threads, Check(t) PROVE ExpInv(u)'
  BY <1>10, <1>t, <1>i, <1>l
  DEF ExpInv, On, Running, UserStates, regVars, isrVars, irqVars, procVars, Check, Goto
<1>11. ASSUME NEW t \in Threads, GetLow(t) PROVE ExpInv(u)'
  BY <1>11, <1>t, <1>i, <1>l
  DEF ExpInv, On, Running, UserStates, regVars, isrVars, irqVars, procVars, GetLow, Goto
<1>12. ASSUME NEW t \in Threads, GetHigh(t) PROVE ExpInv(u)'
  <2>1. val'[u] = int_counter /\ int_counter >= Top
    BY <1>12, <1>t, <1>i, Halves DEF GetHigh, ExpInv
  <2>2. pc[u] = "get_high" /\ pc'[u] = "got" /\ UNCHANGED <<ctrl, int_counter, isr, isr_tmp, tmp>>
    BY <1>12, <1>t DEF GetHigh, Goto, regVars, isrVars
  <2> QED
    BY <2>1, <2>2, <1>l DEF ExpInv, On, Running
<1>13. ASSUME NEW t \in Threads, FreeIrq(t) PROVE ExpInv(u)'
  <2>1. isr = "idle" /\ pc[u] = "free_irq" /\ pc'[u] = "closed"
        /\ UNCHANGED <<ctrl, int_counter, isr, isr_tmp, tmp>>
    BY <1>13, <1>t DEF FreeIrq, Goto, RelInv, regVars, isrVars
  <2> QED
    BY <2>1, <1>l DEF ExpInv, On, Running
<1>14. ASSUME NEW t \in Threads, Open(t) PROVE ExpInv(u)'
  BY <1>14, <1>t, <1>i, <1>l
  DEF ExpInv, On, Running, UserStates, regVars, isrVars, irqVars, procVars, Open, Goto
<1>15. ASSUME NEW t \in Threads, Read(t) PROVE ExpInv(u)'
  BY <1>15, <1>t, <1>i, <1>l
  DEF ExpInv, On, Running, UserStates, regVars, isrVars, irqVars, procVars, Read, Goto
<1>16. ASSUME NEW t \in Threads, ReadSignal(t) PROVE ExpInv(u)'
  BY <1>16, <1>t, <1>i, <1>l
  DEF ExpInv, On, Running, UserStates, regVars, isrVars, irqVars, procVars, ReadSignal, Goto
<1>17. ASSUME NEW t \in Threads, Close(t) PROVE ExpInv(u)'
  <2>1. pc[u] \in {"opened", "armed", "got"} /\ pc'[u] = "disable"
        /\ UNCHANGED <<ctrl, int_counter, isr, isr_tmp, tmp>>
    BY <1>17, <1>t DEF Close, Goto, UserStates, regVars, isrVars
  <2> QED
    BY <2>1, <1>l DEF ExpInv, On, Running
<1>18. ASSUME NEW t \in Threads, NEW v \in VALUES, Write(t, v) PROVE ExpInv(u)'
  <2>1. pc[u] \in {"opened", "got"} /\ pc'[u] = "clear"
        /\ UNCHANGED <<ctrl, int_counter, isr, isr_tmp, tmp>>
    BY <1>18, <1>t DEF Write, Goto, regVars, isrVars
  <2> QED
    BY <2>1, <1>l DEF ExpInv, On, Running
<1> QED
  BY <1>1, <1>2, <1>3, <1>4, <1>5, <1>6, <1>7, <1>8, <1>9, <1>10, <1>11,
     <1>12, <1>13, <1>14, <1>15, <1>16, <1>17, <1>18
  DEF Next, Handler, InCall, Call

\* What a process reads after a write is a counter that has run through zero,
\* and its two halves belong together, for any start values, any width of the
\* registers and although another device may share the line (axi_irq1.c:75).
THEOREM ExpirySound == (\E u : Threads = {u}) /\ Rearm = FALSE /\ Spec => []ReadExpired
<1> SUFFICES ASSUME NEW u, Threads = {u}, Rearm = FALSE PROVE Spec => []ReadExpired
  OBVIOUS
<1>1. Init => RelInv(u) /\ ExpInv(u)
  BY DEF Init, RegInit, RelInv, ExpInv, On, Running, NotRead
<1>2. TInv /\ RelInv(u) /\ ExpInv(u) /\ [Next]_vars => RelInv(u)' /\ ExpInv(u)'
  <2> SUFFICES ASSUME TInv, RelInv(u), ExpInv(u), [Next]_vars PROVE RelInv(u)' /\ ExpInv(u)'
    OBVIOUS
  <2>1. CASE UNCHANGED vars
    BY <2>1 DEF vars, regVars, isrVars, irqVars, procVars, RelInv, ExpInv, On
  <2> QED
    BY <2>1, RelNext, ExpNext
<1>3. ExpInv(u) => ReadExpired
  BY DEF ExpInv, ReadExpired
<1>4. Spec => []TInv
  BY TypesStay
<1> QED
  BY <1>1, <1>2, <1>3, <1>4, PTL DEF Spec
=============================================================================
