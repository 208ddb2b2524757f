---------------------------- MODULE DriversProofs ----------------------------
(***************************************************************************)
(* The attributes of multi-gpio, for every width of a long and of the      *)
(* groups, every number stored and any number of processes; and the        *)
(* drivers side by side, each of which keeps what was proved of it alone.  *)
(***************************************************************************)
EXTENDS MCDrivers, TimerProofs, PlatformProofs

-----------------------------------------------------------------------------
(* Binary digits *)

\* A quotient with a remainder in range is the one that \div and % give.
LEMMA Remainder ==
  ASSUME NEW v \in Int, NEW w \in Nat \ {0}, NEW a \in Int, NEW r \in 0..w - 1, v = w * a + r
  PROVE  v % w = r
<1> DEFINE q == v \div w
           m == v % w
<1>1. q \in Int /\ m \in 0..w - 1 /\ v = w * q + m
  OBVIOUS
<1> HIDE DEF q, m
<1>2. w * (a - q) = m - r
  BY ONLY <1>1, w \in Nat \ {0}, a \in Int, r \in 0..w - 1, v = w * a + r
<1>3. ASSUME a - q >= 1 PROVE FALSE
  <2>1. w * (a - q) >= w
    BY ONLY <1>1, <1>3, w \in Nat \ {0}, a \in Int
  <2> QED
    BY ONLY <1>1, <1>2, <2>1, w \in Nat \ {0}, r \in 0..w - 1
<1>4. ASSUME q - a >= 1 PROVE FALSE
  <2>1. w * (q - a) >= w /\ w * (q - a) = r - m
    BY ONLY <1>1, <1>2, <1>4, w \in Nat \ {0}, a \in Int, r \in 0..w - 1
  <2> QED
    BY ONLY <1>1, <2>1, w \in Nat \ {0}, r \in 0..w - 1
<1>5. a = q
  BY ONLY <1>1, <1>3, <1>4, a \in Int
<1>6. m = r
  BY ONLY <1>1, <1>2, <1>5, w \in Nat \ {0}, r \in 0..w - 1
<1> QED
  BY <1>6 DEF m

\* The digit above the lowest ones, whose weight is p.
LEMMA NextDigit ==
  ASSUME NEW v \in Int, NEW p \in Nat \ {0}
  PROVE  /\ (v \div p) % 2 \in {0, 1} /\ v % p \in 0..p - 1
         /\ v % (2 * p) = (v % p) + ((v \div p) % 2) * p
<1> DEFINE q == v \div p
           r == v % p
           a == q \div 2
           d == q % 2
<1>1. q \in Int /\ r \in 0..p - 1 /\ v = p * q + r
  OBVIOUS
<1>2. a \in Int /\ d \in {0, 1} /\ q = 2 * a + d
  BY <1>1
<1> HIDE DEF q, r, a, d
<1>3. v = (2 * p) * a + (r + d * p)
  BY ONLY <1>1, <1>2, p \in Nat \ {0}
<1>4. 2 * p \in Nat \ {0} /\ r + d * p \in 0..2 * p - 1
  BY ONLY <1>1, <1>2, p \in Nat \ {0}
<1>5. v % (2 * p) = r + d * p
  BY <1>2, <1>3, <1>4, Remainder
<1> QED
  BY <1>1, <1>2, <1>5 DEF d, q, r

-----------------------------------------------------------------------------
(* What a show has collected *)

\* The number that the lowest i digits of v make, the last one of a long being
\* its sign.
Lowest(v, i) ==
  IF i = LONG_BITS /\ v % 2^i >= 2^(i - 1) THEN (v % 2^i) - 2^i ELSE v % 2^i

LEMMA Powers ==
  /\ LONG_BITS \in Nat \ {0} /\ 2^0 = 1
  /\ \A i \in 0..LONG_BITS : 2^i \in Nat \ {0}
  /\ \A i \in 0..LONG_BITS - 1 : 2^(i + 1) = 2 * 2^i
  /\ LONG_BITS - 1 \in 0..LONG_BITS /\ 2^LONG_BITS = 2 * 2^(LONG_BITS - 1)
  /\ 2^(LONG_BITS - 1) \in Nat \ {0}
BY LongAssumption

LEMMA KeptIsLowest ==
  ASSUME NEW g \in Groups, NEW v \in Int
  PROVE  Kept(g, v) = Lowest(v, Width[g])
BY GroupAssumption DEF Kept, Lowest

LEMMA LowestNone ==
  ASSUME NEW v \in Int
  PROVE  Lowest(v, 0) = 0
<1>1. Lowest(v, 0) = v % 1
  BY Powers DEF Lowest
<1> QED
  BY <1>1

\* One more line is one more digit.
LEMMA LowestNext ==
  ASSUME NEW v \in Int, NEW i \in 0..LONG_BITS - 1
  PROVE  /\ Digit(v, i) \in {0, 1}
         /\ Lowest(v, i + 1) = Lowest(v, i) + Digit(v, i) * Weight(i)
<1> DEFINE p == 2^i
           d == (v \div p) % 2
           r == v % p
           s == v % (2 * p)
<1>1. p \in Nat \ {0} /\ 2^(i + 1) = 2 * p /\ i # LONG_BITS /\ i \in Int
  BY Powers
<1>2. Digit(v, i) = d
  BY DEF Digit
<1>3. d \in {0, 1} /\ r \in 0..p - 1 /\ s = r + d * p
  BY <1>1, NextDigit
<1>4. Lowest(v, i) = r
  BY <1>1 DEF Lowest
<1>5. Lowest(v, i + 1) = IF i = LONG_BITS - 1 /\ s >= p THEN s - 2 * p ELSE s
  <2>1. i + 1 = LONG_BITS <=> i = LONG_BITS - 1
    BY Powers, <1>1
  <2>2. i + 1 - 1 = i
    BY <1>1
  <2> QED
    BY <1>1, <2>1, <2>2 DEF Lowest
<1>6. Weight(i) = IF i = LONG_BITS - 1 THEN -p ELSE p
  BY DEF Weight
<1> HIDE DEF p, d, r, s
<1>7. CASE i = LONG_BITS - 1
  BY ONLY <1>1, <1>3, <1>7, <1>2, <1>4, <1>5, <1>6
<1>8. CASE i # LONG_BITS - 1
  BY ONLY <1>1, <1>3, <1>8, <1>2, <1>4, <1>5, <1>6
<1> QED
  BY <1>7, <1>8

\* What i lines can make, whatever they are: the type of the number.
Within(i) == IF i = LONG_BITS THEN Long ELSE 0..2^i - 1

LEMMA WithinLong ==
  /\ 0 \in Within(0) /\ Within(0) = {0}
  /\ \A i \in 0..LONG_BITS : Within(i) \subseteq Long
<1>1. 0 # LONG_BITS
  BY Powers
<1>2. Within(0) = 0..0
  BY <1>1, Powers DEF Within
<1>3. ASSUME NEW i \in 0..LONG_BITS PROVE Within(i) \subseteq Long
  <2>1. CASE i = LONG_BITS
    BY <2>1 DEF Within
  <2>2. CASE i # LONG_BITS
    <3>1. 2^i \in Nat /\ 2^(LONG_BITS - 1) \in Nat /\ 2^i <= 2^(LONG_BITS - 1)
      BY <2>2, LongAssumption
    <3>2. \A p, h \in Nat : p <= h => 0..p - 1 \subseteq -h..h - 1
      OBVIOUS
    <3> QED
      BY <2>2, <3>1, <3>2 DEF Within, Long
  <2> QED
    BY <2>1, <2>2
<1> QED
  BY <1>2, <1>3

\* It is again a long.
LEMMA LowestLong ==
  ASSUME NEW v \in Int, NEW i \in 1..LONG_BITS
  PROVE  Lowest(v, i) \in Long
<1> DEFINE p == 2^(i - 1)
           r == v % (2 * p)
<1>1. i - 1 \in 0..LONG_BITS - 1 /\ (i - 1) + 1 = i /\ i \in 0..LONG_BITS
  BY Powers
<1>2. p \in Nat \ {0} /\ 2^i = 2 * p
  <2>1. p \in Nat \ {0}
    BY <1>1, Powers
  <2>2. 2^((i - 1) + 1) = 2 * p
    BY <1>1, Powers
  <2> QED
    BY <1>1, <2>1, <2>2
<1>3. r \in 0..2 * p - 1
  <2>1. 2 * p \in Nat \ {0}
    BY <1>2
  <2> QED
    BY <2>1
<1>4. Lowest(v, i) = IF i = LONG_BITS /\ r >= p THEN r - 2 * p ELSE r
  BY <1>2 DEF Lowest
<1>5. CASE i = LONG_BITS
  <2>1. Long = -p..p - 1
    BY <1>5 DEF Long
  <2> HIDE DEF p, r
  <2> QED
    BY ONLY <1>2, <1>3, <1>4, <1>5, <2>1
<1>6. CASE i # LONG_BITS
  <2>1. Lowest(v, i) \in Within(i)
    BY <1>2, <1>3, <1>4, <1>6 DEF Within
  <2> QED
    BY <1>1, <2>1, WithinLong
<1> QED
  BY <1>5, <1>6

LEMMA WithinNext ==
  ASSUME NEW i \in 0..LONG_BITS - 1, NEW n \in Within(i), NEW d \in {0, 1}
  PROVE  n + d * Weight(i) \in Within(i + 1)
<1> DEFINE p == 2^i
<1>1. p \in Nat \ {0} /\ 2^(i + 1) = 2 * p /\ i # LONG_BITS /\ i \in Int
  BY Powers
<1>2. n \in 0..p - 1
  BY <1>1 DEF Within
<1>3. i + 1 = LONG_BITS <=> i = LONG_BITS - 1
  BY Powers, <1>1
<1>4. Weight(i) = IF i = LONG_BITS - 1 THEN -p ELSE p
  BY DEF Weight
<1>5. Within(i + 1) = IF i = LONG_BITS - 1 THEN -p..p - 1 ELSE 0..2 * p - 1
  BY <1>1, <1>3 DEF Within, Long
<1> HIDE DEF p
<1> QED
  BY ONLY <1>1, <1>2, <1>4, <1>5, d \in {0, 1}

-----------------------------------------------------------------------------
(* The inductive invariant *)

\* A call stays within its group, and a show has collected what its lines can
\* make.
CallsInv ==
  /\ line \in [Groups -> UNION {[0..w - 1 -> {0, 1}] : w \in 1..LONG_BITS}]
  /\ \A g \in Groups : line[g] \in [0..Width[g] - 1 -> {0, 1}]
  /\ call \in [Users -> [what : {"idle", "store", "show"}, group : Groups, i : Nat]]
  /\ number \in [Users -> Long] /\ alone \in [Users -> BOOLEAN]
  /\ stored \in [Groups -> SUBSET Long]
  /\ \A u \in Users :
       /\ call[u].i \in 0..Width[call[u].group]
       /\ call[u] = Idle => number[u] = 0
       /\ call[u].what = "show" => number[u] \in Within(call[u].i)

\* The first k lines of g are the lowest digits of v.
Holds(g, v, k) == \A j \in 0..k - 1 : line[g][j] = Digit(v, j)

\* A store that is alone has set the lines it has passed.
StoringInv ==
  \A u \in Users, g \in Outputs :
    Storing(u, g) /\ alone[u] =>
      /\ \A v \in Users \ {u} : ~Storing(v, g)
      /\ Holds(g, number[u], call[u].i)

\* Between stores the lines hold the number stored last, if it is known.
SettledInv ==
  \A g \in Outputs :
    NobodyStores(g) =>
      \/ stored[g] = Long
      \/ \E v \in Long : stored[g] = {Kept(g, v)} /\ Holds(g, v, Width[g])

\* A show that is alone has collected the digits that the lines hold.
ShowingInv ==
  \A u \in Users, g \in Outputs :
    call[u].what = "show" /\ call[u].group = g /\ alone[u] =>
      /\ NobodyStores(g)
      /\ \A v \in Long :
           Holds(g, v, Width[g]) => number[u] = Lowest(v, call[u].i)

GroupInv == CallsInv /\ StoringInv /\ SettledInv /\ ShowingInv

LEMMA GroupFirst == GroupInit => GroupInv
<1> SUFFICES ASSUME GroupInit PROVE GroupInv
  OBVIOUS
<1>1. 0 \in Long /\ Idle \in [what : {"idle", "store", "show"}, group : Groups, i : Nat]
  BY WithinLong, Powers DEF Idle, Groups
<1>2. \A g \in Groups : Width[g] \in 1..LONG_BITS /\ 0 \in 0..Width[g]
  BY GroupAssumption, Powers
<1>3. line \in [Groups -> UNION {[0..w - 1 -> {0, 1}] : w \in 1..LONG_BITS}]
      /\ \A g \in Groups : line[g] \in [0..Width[g] - 1 -> {0, 1}]
  BY <1>2 DEF GroupInit
<1>4. \A u \in Users : call[u] = Idle /\ call[u].what = "idle" /\ call[u].i = 0
                       /\ call[u].group \in Groups /\ number[u] = 0
  BY DEF GroupInit, Idle, Groups
<1>5. CallsInv
  BY <1>1, <1>2, <1>3, <1>4 DEF GroupInit, CallsInv
<1>6. StoringInv /\ ShowingInv
  BY <1>4 DEF StoringInv, ShowingInv, Storing
<1>7. SettledInv
  BY DEF SettledInv, GroupInit, Outputs, Groups
<1> QED
  BY <1>5, <1>6, <1>7 DEF GroupInv

-----------------------------------------------------------------------------
(* Each action keeps the invariant *)

\* What a step does to the calls, one by one.
LEMMA StartStoreStays ==
  ASSUME GroupInv, NEW u \in Users, NEW g \in Groups, NEW n \in Long, StartStore(u, g, n)
  PROVE  GroupInv'
<1> DEFINE c == [what |-> "store", group |-> g, i |-> 0]
<1>1. CallsInv /\ StoringInv /\ SettledInv /\ ShowingInv
  BY DEF GroupInv
<1>2. /\ call[u] = Idle /\ call' = [call EXCEPT ![u] = c]
      /\ number' = [number EXCEPT ![u] = n]
      /\ alone' = [v \in Users |->
           IF v = u THEN NobodyStores(g) ELSE alone[v] /\ call[v].group # g]
      /\ line' = line /\ stored' = stored
  BY DEF StartStore, Enter
<1>3. c \in [what : {"idle", "store", "show"}, group : Groups, i : Nat] /\ c # Idle
      /\ c.what = "store" /\ c.group = g /\ c.i = 0
  BY DEF Idle
<1> HIDE DEF c
<1>4. /\ call'[u] = c /\ number'[u] = n
      /\ \A v \in Users \ {u} : call'[v] = call[v] /\ number'[v] = number[v]
      /\ \A v \in Users : alone'[v] = IF v = u THEN NobodyStores(g) ELSE alone[v] /\ call[v].group # g
  BY <1>1, <1>2 DEF CallsInv
<1>5. CallsInv'
  <2>1. 0 \in 0..Width[g]
    BY GroupAssumption, Powers
  <2>2. alone' \in [Users -> BOOLEAN]
    BY <1>1, <1>2 DEF NobodyStores, CallsInv
  <2>3. /\ call' \in [Users -> [what : {"idle", "store", "show"}, group : Groups, i : Nat]]
        /\ number' \in [Users -> Long]
    BY <1>1, <1>2, <1>3 DEF CallsInv
  <2> QED
    BY <1>1, <1>2, <1>3, <1>4, <2>1, <2>2, <2>3 DEF CallsInv
<1>6. StoringInv'
  <2> SUFFICES ASSUME NEW w \in Users, NEW h \in Outputs, Storing(w, h)', alone'[w]
               PROVE  /\ \A v \in Users \ {w} : ~Storing(v, h)'
                      /\ Holds(h, number[w], call[w].i)'
    BY DEF StoringInv
  <2>1. CASE w = u
    BY <1>2, <1>3, <1>4, <2>1 DEF Storing, NobodyStores, Holds
  <2>2. CASE w # u
    <3>1. Storing(w, h) /\ alone[w] /\ call[w].group # g /\ h # g
      BY <1>4, <2>2 DEF Storing
    <3> QED
      BY <1>1, <1>2, <1>3, <1>4, <2>2, <3>1 DEF Storing, StoringInv, Holds
  <2> QED
    BY <2>1, <2>2
<1>7. SettledInv'
  <2> SUFFICES ASSUME NEW h \in Outputs, NobodyStores(h)'
               PROVE  \/ stored'[h] = Long
                      \/ \E v \in Long : stored'[h] = {Kept(h, v)} /\ Holds(h, v, Width[h])'
    BY DEF SettledInv
  <2>1. NobodyStores(h)
    BY <1>2, <1>3, <1>4 DEF NobodyStores, Storing, Idle
  <2> QED
    BY <1>1, <1>2, <2>1 DEF SettledInv, Holds
<1>8. ShowingInv'
  <2> SUFFICES ASSUME NEW w \in Users, NEW h \in Outputs,
                      call'[w].what = "show", call'[w].group = h, alone'[w]
               PROVE  /\ NobodyStores(h)'
                      /\ \A v \in Long : Holds(h, v, Width[h])' => number'[w] = Lowest(v, call'[w].i)
    BY DEF ShowingInv
  <2>1. w # u /\ call[w].what = "show" /\ call[w].group = h /\ alone[w] /\ h # g
    BY <1>3, <1>4
  <2>2. NobodyStores(h)'
    BY <1>1, <1>3, <1>4, <2>1 DEF ShowingInv, NobodyStores, Storing
  <2> QED
    BY <1>1, <1>2, <1>4, <2>1, <2>2 DEF ShowingInv, Holds
<1> QED
  BY <1>5, <1>6, <1>7, <1>8 DEF GroupInv

LEMMA StartShowStays ==
  ASSUME GroupInv, NEW u \in Users, NEW g \in Groups, StartShow(u, g)
  PROVE  GroupInv'
<1> DEFINE c == [what |-> "show", group |-> g, i |-> 0]
<1>1. CallsInv /\ StoringInv /\ SettledInv /\ ShowingInv
  BY DEF GroupInv
<1>2. /\ call[u] = Idle /\ call' = [call EXCEPT ![u] = c]
      /\ alone' = [alone EXCEPT ![u] = NobodyStores(g)]
      /\ line' = line /\ stored' = stored /\ number' = number
  BY DEF StartShow, Enter
<1>3. c \in [what : {"idle", "store", "show"}, group : Groups, i : Nat] /\ c # Idle
      /\ c.what = "show" /\ c.group = g /\ c.i = 0
  BY DEF Idle
<1> HIDE DEF c
<1>4. /\ call'[u] = c /\ number[u] = 0 /\ number[u] \in Within(0)
      /\ \A v \in Users \ {u} : call'[v] = call[v] /\ alone'[v] = alone[v]
      /\ alone'[u] = NobodyStores(g)
  BY <1>1, <1>2, WithinLong DEF CallsInv
<1>5. CallsInv'
  <2>1. 0 \in 0..Width[g]
    BY GroupAssumption, Powers
  <2>2. alone' \in [Users -> BOOLEAN]
    BY <1>1, <1>2 DEF NobodyStores, CallsInv
  <2>3. call' \in [Users -> [what : {"idle", "store", "show"}, group : Groups, i : Nat]]
    BY <1>1, <1>2, <1>3 DEF CallsInv
  <2> QED
    BY <1>1, <1>2, <1>3, <1>4, <2>1, <2>2, <2>3 DEF CallsInv
<1>6. \A v \in Users, h \in Groups : Storing(v, h)' <=> Storing(v, h)
  BY <1>2, <1>3, <1>4 DEF Storing, Idle
<1>7. \A h \in Groups : NobodyStores(h)' <=> NobodyStores(h)
  BY <1>6 DEF NobodyStores
<1>8. StoringInv' /\ SettledInv'
  <2>1. Outputs \subseteq Groups
    BY DEF Outputs, Groups
  <2>2. StoringInv'
    <3> SUFFICES ASSUME NEW w \in Users, NEW h \in Outputs, Storing(w, h), alone'[w]
                 PROVE  /\ \A v \in Users \ {w} : ~Storing(v, h)
                        /\ Holds(h, number[w], call[w].i)'
      BY <1>6, <2>1 DEF StoringInv
    <3>1. w # u
      BY <1>2 DEF Storing, Idle
    <3> QED
      BY <1>1, <1>2, <1>4, <3>1 DEF StoringInv, Holds
  <2>3. SettledInv'
    BY <1>1, <1>2, <1>7, <2>1 DEF SettledInv, Holds
  <2> QED
    BY <2>2, <2>3
<1>9. ShowingInv'
  <2> SUFFICES ASSUME NEW w \in Users, NEW h \in Outputs,
                      call'[w].what = "show", call'[w].group = h, alone'[w]
               PROVE  /\ NobodyStores(h)
                      /\ \A v \in Long : Holds(h, v, Width[h]) => number[w] = Lowest(v, call'[w].i)
    BY <1>2, <1>7 DEF ShowingInv, Holds, Outputs, Groups
  <2>1. CASE w = u
    <3>1. \A v \in Long : Lowest(v, 0) = 0
      BY LowestNone DEF Long
    <3> QED
      BY <1>3, <1>4, <2>1, <3>1
  <2>2. CASE w # u
    BY <1>1, <1>4, <2>2 DEF ShowingInv
  <2> QED
    BY <2>1, <2>2
<1> QED
  BY <1>5, <1>8, <1>9 DEF GroupInv

\* A call that goes on to the next line is the same call.
LEMMA Advanced ==
  ASSUME CallsInv, NEW u \in Users, call[u].i < Width[call[u].group], Advance(u)
  PROVE  /\ call' \in [Users -> [what : {"idle", "store", "show"}, group : Groups, i : Nat]]
         /\ \A v \in Users : /\ call'[v].what = call[v].what /\ call'[v].group = call[v].group
                             /\ call'[v].i \in 0..Width[call[v].group]
         /\ call'[u].i = call[u].i + 1
         /\ \A v \in Users \ {u} : call'[v] = call[v]
         /\ call'[u] # Idle
         /\ call[u].group \in Groups /\ call[u].i \in 0..Width[call[u].group] - 1
         /\ call[u].i \in 0..LONG_BITS - 1
         /\ \A v \in Users, g \in Groups : Storing(v, g)' <=> Storing(v, g)
<1> DEFINE c == [call[u] EXCEPT !.i = @ + 1]
<1>1. call' = [call EXCEPT ![u] = c] /\ call[u] \in [what : {"idle", "store", "show"}, group : Groups, i : Nat]
  BY DEF Advance, CallsInv
<1>2. /\ c \in [what : {"idle", "store", "show"}, group : Groups, i : Nat]
      /\ c.what = call[u].what /\ c.group = call[u].group /\ c.i = call[u].i + 1
  BY <1>1
<1>3. Width[call[u].group] \in 1..LONG_BITS /\ call[u].i \in 0..Width[call[u].group]
  BY <1>1, GroupAssumption DEF CallsInv
<1>4. /\ call[u].i \in 0..Width[call[u].group] - 1 /\ call[u].i + 1 \in 0..Width[call[u].group]
      /\ call[u].i \in 0..LONG_BITS - 1 /\ call[u].i + 1 # 0
  BY <1>3, Powers
<1>5. c # Idle
  BY <1>2, <1>4 DEF Idle
<1> HIDE DEF c
<1>6. /\ call' \in [Users -> [what : {"idle", "store", "show"}, group : Groups, i : Nat]]
      /\ call'[u] = c /\ \A v \in Users \ {u} : call'[v] = call[v]
  BY <1>1, <1>2 DEF CallsInv
<1>7. \A v \in Users : /\ call'[v].what = call[v].what /\ call'[v].group = call[v].group
                       /\ call'[v].i \in 0..Width[call[v].group]
  BY <1>2, <1>4, <1>6 DEF CallsInv
<1> QED
  BY <1>1, <1>2, <1>4, <1>5, <1>6, <1>7 DEF Storing

LEMMA StoreLineStays ==
  ASSUME GroupInv, NEW u \in Users, StoreLine(u)
  PROVE  GroupInv'
<1> DEFINE g == call[u].group
           i == call[u].i
           d == Digit(number[u], i)
<1>1. CallsInv /\ StoringInv /\ SettledInv /\ ShowingInv
  BY DEF GroupInv
<1>2. /\ call[u].what = "store" /\ i < Width[g] /\ Advance(u)
      /\ number' = number /\ alone' = alone /\ stored' = stored
      /\ line' = IF g \in Outputs THEN [line EXCEPT ![g] = [line[g] EXCEPT ![i] = d]] ELSE line
  BY <1>1 DEF StoreLine, AtLine, CallsInv
<1>3. /\ call' \in [Users -> [what : {"idle", "store", "show"}, group : Groups, i : Nat]]
      /\ \A v \in Users : /\ call'[v].what = call[v].what /\ call'[v].group = call[v].group
                          /\ call'[v].i \in 0..Width[call[v].group]
      /\ call'[u].i = i + 1 /\ call'[u] # Idle
      /\ \A v \in Users \ {u} : call'[v] = call[v]
      /\ g \in Groups /\ i \in 0..Width[g] - 1 /\ i \in 0..LONG_BITS - 1
      /\ \A v \in Users, h \in Groups : Storing(v, h)' <=> Storing(v, h)
  BY <1>1, <1>2, Advanced
<1>4. Storing(u, g)
  BY <1>2 DEF Storing
<1>5. d \in {0, 1} /\ number[u] \in Int
  BY <1>1, <1>3, LowestNext DEF CallsInv, Long
<1> HIDE DEF g, i, d
<1>6. /\ \A h \in Groups \ {g} : line'[h] = line[h]
      /\ g \in Outputs => /\ line'[g][i] = d
                          /\ \A j \in 0..Width[g] - 1 : j # i => line'[g][j] = line[g][j]
      /\ \A h \in Groups : line'[h] \in [0..Width[h] - 1 -> {0, 1}]
      /\ line' \in [Groups -> UNION {[0..w - 1 -> {0, 1}] : w \in 1..LONG_BITS}]
  <2> DEFINE new == [line[g] EXCEPT ![i] = d]
  <2>1. /\ new \in [0..Width[g] - 1 -> {0, 1}] /\ new[i] = d
        /\ \A j \in 0..Width[g] - 1 : j # i => new[j] = line[g][j]
    BY <1>1, <1>3, <1>5 DEF CallsInv
  <2> HIDE DEF new
  <2>2. new \in UNION {[0..w - 1 -> {0, 1}] : w \in 1..LONG_BITS}
    BY <1>3, <2>1, GroupAssumption
  <2>3. line' = IF g \in Outputs THEN [line EXCEPT ![g] = new] ELSE line
    BY <1>2 DEF new
  <2>4. CASE g \in Outputs
    <3>1. line' = [line EXCEPT ![g] = new]
      BY <2>3, <2>4
    <3>2. line'[g] = new /\ \A h \in Groups \ {g} : line'[h] = line[h]
      BY <1>1, <1>3, <3>1 DEF CallsInv
    <3>3. line' \in [Groups -> UNION {[0..w - 1 -> {0, 1}] : w \in 1..LONG_BITS}]
      BY <1>1, <2>2, <3>1 DEF CallsInv
    <3> QED
      BY <1>1, <2>1, <3>2, <3>3 DEF CallsInv
  <2>5. CASE g \notin Outputs
    BY <1>1, <2>3, <2>5 DEF CallsInv
  <2> QED
    BY <2>4, <2>5
<1>7. CallsInv'
  BY <1>1, <1>2, <1>3, <1>6 DEF CallsInv
<1>8. Outputs \subseteq Groups /\ \A h \in Groups : NobodyStores(h)' <=> NobodyStores(h)
  BY <1>3 DEF NobodyStores, Outputs, Groups
<1>9. ~NobodyStores(g)
  BY <1>4 DEF NobodyStores
<1>10. StoringInv'
  <2> SUFFICES ASSUME NEW w \in Users, NEW h \in Outputs, Storing(w, h), alone[w]
               PROVE  /\ \A v \in Users \ {w} : ~Storing(v, h)
                      /\ Holds(h, number[w], call[w].i)'
    BY <1>2, <1>3, <1>8 DEF StoringInv
  <2>1. /\ \A v \in Users \ {w} : ~Storing(v, h)
        /\ Holds(h, number[w], call[w].i)
    BY <1>1 DEF StoringInv
  <2>2. CASE w = u
    <3>1. h = g
      BY <2>2 DEF Storing, g
    <3>2. \A j \in 0..i - 1 : line'[g][j] = Digit(number[u], j)
      <4>1. \A j \in 0..i - 1 : j \in 0..Width[g] - 1 /\ j # i
        BY <1>3, GroupAssumption
      <4>2. \A j \in 0..i - 1 : line[g][j] = Digit(number[u], j)
        BY <2>1, <2>2, <3>1 DEF Holds, i
      <4> QED
        BY <1>6, <3>1, <4>1, <4>2
    <3>3. line'[g][i] = Digit(number[u], i)
      BY <1>6, <3>1 DEF d
    <3>4. \A j \in 0..(i + 1) - 1 : j \in 0..i - 1 \/ j = i
      BY <1>3
    <3> QED
      BY <1>2, <1>3, <2>1, <2>2, <3>1, <3>2, <3>3, <3>4 DEF Holds
  <2>3. CASE w # u
    <3>1. h # g
      BY <1>4, <2>1, <2>3
    <3> QED
      BY <1>2, <1>3, <1>6, <1>8, <2>1, <2>3, <3>1 DEF Holds
  <2> QED
    BY <2>2, <2>3
<1>11. SettledInv'
  <2> SUFFICES ASSUME NEW h \in Outputs, NobodyStores(h)
               PROVE  \/ stored[h] = Long
                      \/ \E v \in Long : stored[h] = {Kept(h, v)} /\ Holds(h, v, Width[h])'
    BY <1>2, <1>8 DEF SettledInv
  <2>1. h # g
    BY <1>9
  <2> QED
    BY <1>1, <1>6, <1>8, <2>1 DEF SettledInv, Holds
<1>12. ShowingInv'
  <2> SUFFICES ASSUME NEW w \in Users, NEW h \in Outputs,
                      call[w].what = "show", call[w].group = h, alone[w]
               PROVE  /\ NobodyStores(h)
                      /\ \A v \in Long : Holds(h, v, Width[h])' => number[w] = Lowest(v, call'[w].i)
    BY <1>2, <1>3, <1>8 DEF ShowingInv
  <2>1. NobodyStores(h) /\ h # g /\ w # u
    BY <1>1, <1>2, <1>9 DEF ShowingInv
  <2>2. call'[w] = call[w] /\ line'[h] = line[h]
    BY <1>3, <1>6, <1>8, <2>1
  <2>3. \A v \in Long : Holds(h, v, Width[h])' => Holds(h, v, Width[h])
    BY <2>2 DEF Holds
  <2>4. \A v \in Long : Holds(h, v, Width[h]) => number[w] = Lowest(v, call[w].i)
    BY <1>1 DEF ShowingInv
  <2> QED
    BY <2>1, <2>2, <2>3, <2>4
<1> QED
  BY <1>7, <1>10, <1>11, <1>12 DEF GroupInv

\* What an ended call leaves of the invariant about the others.
LEMMA LeaveStays ==
  ASSUME GroupInv, NEW u \in Users, Leave(u), line' = line,
         stored' \in [Groups -> SUBSET Long], SettledInv',
         \A g \in Groups : NobodyStores(g) => NobodyStores(g)'
  PROVE  GroupInv'
<1>1. CallsInv /\ StoringInv /\ SettledInv /\ ShowingInv
  BY DEF GroupInv
<1>2. /\ call' = [call EXCEPT ![u] = Idle] /\ number' = [number EXCEPT ![u] = 0]
      /\ alone' = [alone EXCEPT ![u] = TRUE]
  BY DEF Leave
<1>3. /\ Idle \in [what : {"idle", "store", "show"}, group : Groups, i : Nat]
      /\ Idle.what = "idle" /\ Idle.group \in Groups /\ Idle.i = 0 /\ 0 \in Long
  BY WithinLong, Powers DEF Idle, Groups
<1>4. /\ call'[u] = Idle /\ number'[u] = 0
      /\ \A v \in Users \ {u} :
           call'[v] = call[v] /\ number'[v] = number[v] /\ alone'[v] = alone[v]
  BY <1>1, <1>2 DEF CallsInv
<1>5. CallsInv'
  <2>1. 0 \in 0..Width[Idle.group]
    BY <1>3, GroupAssumption, Powers
  <2>2. /\ call' \in [Users -> [what : {"idle", "store", "show"}, group : Groups, i : Nat]]
        /\ number' \in [Users -> Long] /\ alone' \in [Users -> BOOLEAN]
    BY <1>1, <1>2, <1>3 DEF CallsInv
  <2>3. ASSUME NEW v \in Users
        PROVE  /\ call'[v].i \in 0..Width[call'[v].group]
               /\ call'[v] = Idle => number'[v] = 0
               /\ call'[v].what = "show" => number'[v] \in Within(call'[v].i)
    <3>1. CASE v = u
      BY <1>3, <1>4, <2>1, <3>1
    <3>2. CASE v # u
      BY <1>1, <1>4, <3>2 DEF CallsInv
    <3> QED
      BY <3>1, <3>2
  <2>4. /\ line' \in [Groups -> UNION {[0..w - 1 -> {0, 1}] : w \in 1..LONG_BITS}]
        /\ \A g \in Groups : line'[g] \in [0..Width[g] - 1 -> {0, 1}]
    BY <1>1 DEF CallsInv
  <2> QED
    BY <2>2, <2>3, <2>4 DEF CallsInv
<1>6. StoringInv'
  BY <1>1, <1>3, <1>4 DEF StoringInv, Storing, Holds
<1>7. ShowingInv'
  <2> SUFFICES ASSUME NEW w \in Users, NEW h \in Outputs,
                      call'[w].what = "show", call'[w].group = h, alone'[w]
               PROVE  /\ NobodyStores(h)'
                      /\ \A v \in Long : Holds(h, v, Width[h])' => number'[w] = Lowest(v, call'[w].i)
    BY DEF ShowingInv
  <2>1. w # u /\ call'[w] = call[w] /\ alone[w] /\ number'[w] = number[w] /\ h \in Groups
    BY <1>3, <1>4 DEF Outputs, Groups
  <2>2. NobodyStores(h) /\ \A v \in Long : Holds(h, v, Width[h]) => number[w] = Lowest(v, call[w].i)
    BY <1>1, <2>1 DEF ShowingInv
  <2> QED
    BY <2>1, <2>2 DEF Holds
<1> QED
  BY <1>5, <1>6, <1>7 DEF GroupInv

\* The last of the stores that ends settles the group.
LEMMA EndStoreStays ==
  ASSUME GroupInv, NEW u \in Users, EndStore(u)
  PROVE  GroupInv'
<1> DEFINE g == call[u].group
           new == IF alone[u] THEN {Kept(g, number[u])} ELSE Long
<1>1. CallsInv /\ StoringInv /\ SettledInv /\ ShowingInv
  BY DEF GroupInv
<1>2. /\ call[u].what = "store" /\ call[u].i = Width[g] /\ Leave(u) /\ line' = line
      /\ stored' = [stored EXCEPT ![g] = new]
  BY DEF EndStore, Finished
<1>3. g \in Groups /\ number[u] \in Long /\ number[u] \in Int /\ Storing(u, g)
  BY <1>1, <1>2 DEF CallsInv, Storing, Long
<1>4. new \subseteq Long
  <2>1. Lowest(number[u], Width[g]) \in Long
    BY <1>3, GroupAssumption, LowestLong
  <2> QED
    BY <1>3, <2>1, KeptIsLowest
<1>5. new = Long \/ (alone[u] /\ new = {Kept(g, number[u])})
  OBVIOUS
<1> HIDE DEF g, new
<1>6. /\ stored' \in [Groups -> SUBSET Long] /\ stored'[g] = new
      /\ \A h \in Groups \ {g} : stored'[h] = stored[h]
  BY <1>1, <1>2, <1>3, <1>4 DEF CallsInv
<1>7. call'[u] = Idle /\ \A v \in Users \ {u} : call'[v] = call[v]
  BY <1>1, <1>2 DEF Leave, CallsInv
<1>8. \A v \in Users, h \in Groups : Storing(v, h)' <=> Storing(v, h) /\ v # u
  BY <1>7 DEF Storing, Idle
<1>9. \A h \in Groups : h # g => (NobodyStores(h)' <=> NobodyStores(h))
  BY <1>8 DEF NobodyStores, Storing, g
<1>10. SettledInv'
  <2> SUFFICES ASSUME NEW h \in Outputs, NobodyStores(h)'
               PROVE  \/ stored'[h] = Long
                      \/ \E v \in Long : stored'[h] = {Kept(h, v)} /\ Holds(h, v, Width[h])
    BY <1>2 DEF SettledInv, Holds
  <2>1. h \in Groups
    BY DEF Outputs, Groups
  <2>2. CASE h # g
    BY <1>1, <1>6, <1>9, <2>1, <2>2 DEF SettledInv
  <2>3. CASE h = g
    <3>1. alone[u] => Holds(g, number[u], Width[g])
      BY <1>1, <1>2, <1>3, <2>3 DEF StoringInv, g
    <3> QED
      BY <1>3, <1>5, <1>6, <2>3, <3>1
  <2> QED
    BY <2>2, <2>3
<1>11. \A h \in Groups : NobodyStores(h) => NobodyStores(h)'
  BY <1>8 DEF NobodyStores
<1> QED
  BY <1>2, <1>6, <1>10, <1>11, LeaveStays

LEMMA EndShowStays ==
  ASSUME GroupInv, NEW u \in Users, EndShow(u)
  PROVE  GroupInv'
<1>1. CallsInv /\ SettledInv /\ call[u].what = "show" /\ Leave(u) /\ line' = line /\ stored' = stored
  BY DEF GroupInv, EndShow, Finished, AtLine
<1>2. call'[u] = Idle /\ \A v \in Users \ {u} : call'[v] = call[v]
  BY <1>1 DEF Leave, CallsInv
<1>3. \A h \in Groups : NobodyStores(h)' <=> NobodyStores(h)
  BY <1>1, <1>2 DEF NobodyStores, Storing, Idle
<1>4. SettledInv'
  BY <1>1, <1>3 DEF SettledInv, Holds, Outputs, Groups
<1> QED
  BY <1>1, <1>3, <1>4, LeaveStays DEF CallsInv

LEMMA ShowLineStays ==
  ASSUME GroupInv, NEW u \in Users, ShowLine(u)
  PROVE  GroupInv'
<1> DEFINE g == call[u].group
           i == call[u].i
           n == number[u] + line[g][i] * Weight(i)
<1>1. CallsInv /\ StoringInv /\ SettledInv /\ ShowingInv
  BY DEF GroupInv
<1>2. /\ call[u].what = "show" /\ i < Width[g] /\ Advance(u)
      /\ number' = [number EXCEPT ![u] = n]
      /\ line' = line /\ alone' = alone /\ stored' = stored
  BY <1>1 DEF ShowLine, AtLine, CallsInv
<1>3. /\ call' \in [Users -> [what : {"idle", "store", "show"}, group : Groups, i : Nat]]
      /\ \A v \in Users : /\ call'[v].what = call[v].what /\ call'[v].group = call[v].group
                          /\ call'[v].i \in 0..Width[call[v].group]
      /\ call'[u].i = i + 1 /\ call'[u] # Idle
      /\ \A v \in Users \ {u} : call'[v] = call[v]
      /\ g \in Groups /\ i \in 0..Width[g] - 1 /\ i \in 0..LONG_BITS - 1
      /\ \A v \in Users, h \in Groups : Storing(v, h)' <=> Storing(v, h)
  BY <1>1, <1>2, Advanced
<1>4. number[u] \in Within(i) /\ line[g][i] \in {0, 1}
  BY <1>1, <1>2, <1>3 DEF CallsInv
<1>5. n \in Within(i + 1) /\ n \in Long
  <2>1. n \in Within(i + 1)
    BY <1>3, <1>4, WithinNext
  <2>2. i + 1 \in 0..LONG_BITS
    BY <1>3, Powers
  <2> QED
    BY <2>1, <2>2, WithinLong
<1>6. \A v \in Long : Holds(g, v, Width[g]) /\ number[u] = Lowest(v, i) => n = Lowest(v, i + 1)
  <2> SUFFICES ASSUME NEW v \in Long, Holds(g, v, Width[g]), number[u] = Lowest(v, i)
               PROVE  n = Lowest(v, i + 1)
    OBVIOUS
  <2>1. line[g][i] = Digit(v, i) /\ v \in Int
    BY <1>3 DEF Holds, Long
  <2> QED
    BY <1>3, <2>1, LowestNext
<1> HIDE DEF g, i, n
<1>7. number'[u] = n /\ \A v \in Users \ {u} : number'[v] = number[v]
  BY <1>1, <1>2 DEF CallsInv
<1>8. CallsInv'
  <2>1. number' \in [Users -> Long]
    BY <1>1, <1>2, <1>5 DEF CallsInv
  <2> QED
    BY <1>1, <1>2, <1>3, <1>5, <1>7, <2>1 DEF CallsInv
<1>9. Outputs \subseteq Groups /\ \A h \in Groups : NobodyStores(h)' <=> NobodyStores(h)
  BY <1>3 DEF NobodyStores, Outputs, Groups
<1>10. StoringInv'
  <2> SUFFICES ASSUME NEW w \in Users, NEW h \in Outputs, Storing(w, h), alone[w]
               PROVE  /\ \A v \in Users \ {w} : ~Storing(v, h)
                      /\ Holds(h, number'[w], call'[w].i)
    BY <1>2, <1>3, <1>9 DEF StoringInv, Holds
  <2>1. w # u
    BY <1>2 DEF Storing
  <2> QED
    BY <1>1, <1>3, <1>7, <2>1 DEF StoringInv
<1>11. SettledInv'
  BY <1>1, <1>2, <1>9 DEF SettledInv, Holds
<1>12. ShowingInv'
  <2> SUFFICES ASSUME NEW w \in Users, NEW h \in Outputs,
                      call[w].what = "show", call[w].group = h, alone[w]
               PROVE  /\ NobodyStores(h)
                      /\ \A v \in Long : Holds(h, v, Width[h]) => number'[w] = Lowest(v, call'[w].i)
    BY <1>2, <1>3, <1>9 DEF ShowingInv, Holds
  <2>1. /\ NobodyStores(h)
        /\ \A v \in Long : Holds(h, v, Width[h]) => number[w] = Lowest(v, call[w].i)
    BY <1>1 DEF ShowingInv
  <2>2. CASE w = u
    <3>1. h = g /\ call[w].i = i
      BY <2>2 DEF g, i
    <3> QED
      BY <1>3, <1>6, <1>7, <2>1, <2>2, <3>1
  <2>3. CASE w # u
    BY <1>3, <1>7, <2>1, <2>3
  <2> QED
    BY <2>2, <2>3
<1> QED
  BY <1>8, <1>10, <1>11, <1>12 DEF GroupInv

LEMMA DriveStays ==
  ASSUME GroupInv, NEW i \in DOMAIN line["din"], Drive(i)
  PROVE  GroupInv'
<1>1. CallsInv /\ StoringInv /\ SettledInv /\ ShowingInv
  BY DEF GroupInv
<1> DEFINE new == [line["din"] EXCEPT ![i] = 1 - @]
<1>2. line' = [line EXCEPT !["din"] = new] /\ UNCHANGED <<call, number, alone, stored>>
  BY <1>1 DEF Drive, CallsInv, Groups
<1>3. "din" \in Groups /\ "din" \notin Outputs /\ Width["din"] \in 1..LONG_BITS
      /\ Outputs \subseteq Groups
  BY GroupAssumption DEF Groups, Outputs
<1>4. new \in [0..Width["din"] - 1 -> {0, 1}]
  <2>1. line["din"] \in [0..Width["din"] - 1 -> {0, 1}]
    BY <1>1, <1>3 DEF CallsInv
  <2>2. line["din"][i] \in {0, 1}
    BY <2>1
  <2>3. 1 - line["din"][i] \in {0, 1}
    BY <2>2
  <2> QED
    BY <2>1, <2>3
<1> HIDE DEF new
<1>5. new \in UNION {[0..w - 1 -> {0, 1}] : w \in 1..LONG_BITS}
  BY <1>3, <1>4
<1>6. /\ line'["din"] = new /\ \A g \in Groups \ {"din"} : line'[g] = line[g]
      /\ line' \in [Groups -> UNION {[0..w - 1 -> {0, 1}] : w \in 1..LONG_BITS}]
  BY <1>1, <1>2, <1>3, <1>5 DEF CallsInv
<1>7. CallsInv'
  BY <1>1, <1>2, <1>4, <1>6 DEF CallsInv
<1>8. /\ \A g \in Outputs : line'[g] = line[g]
      /\ \A g \in Groups : NobodyStores(g)' <=> NobodyStores(g)
  BY <1>2, <1>3, <1>6 DEF NobodyStores, Storing
<1>9. StoringInv'
  BY <1>1, <1>2, <1>8 DEF StoringInv, Storing, Holds
<1>10. SettledInv'
  BY <1>1, <1>2, <1>3, <1>8 DEF SettledInv, Holds
<1>11. ShowingInv'
  BY <1>1, <1>2, <1>3, <1>8 DEF ShowingInv, Holds
<1> QED
  BY <1>7, <1>9, <1>10, <1>11 DEF GroupInv

LEMMA GroupStays == GroupInv /\ [GroupNext(Long)]_groupVars => GroupInv'
<1> SUFFICES ASSUME GroupInv, [GroupNext(Long)]_groupVars PROVE GroupInv'
  OBVIOUS
<1>1. CASE UNCHANGED groupVars
  <2>1. line' = line /\ call' = call /\ number' = number /\ alone' = alone /\ stored' = stored
    BY <1>1 DEF groupVars
  <2>2. CallsInv'
    BY <2>1 DEF GroupInv, CallsInv
  <2>3. StoringInv'
    BY <2>1 DEF GroupInv, StoringInv, Storing, Holds
  <2>4. SettledInv'
    BY <2>1 DEF GroupInv, SettledInv, NobodyStores, Storing, Holds
  <2>5. ShowingInv'
    BY <2>1 DEF GroupInv, ShowingInv, NobodyStores, Storing, Holds
  <2> QED
    BY <2>2, <2>3, <2>4, <2>5 DEF GroupInv
<1> QED
  BY <1>1, StartShowStays, StartStoreStays, StoreLineStays, EndStoreStays, ShowLineStays,
     EndShowStays, DriveStays
  DEF GroupNext

LEMMA AlwaysGroups == GroupSpec => []GroupInv
BY GroupFirst, GroupStays, PTL DEF GroupSpec

\* The attributes keep their types, in any number of processes and for groups
\* of any width: above all, what gpio_show collects stays within a long.
THEOREM AlwaysGroupTypes == GroupSpec => []GroupTypeOK
<1>1. GroupInv => GroupTypeOK
  BY DEF GroupInv, CallsInv, GroupTypeOK
<1> QED
  BY AlwaysGroups, <1>1, PTL

\* gpio_show returns what gpio_store stored last, when no store meets it: for
\* every width of a long and of the groups, and every number.
THEOREM AlwaysShown == GroupSpec => []StoredIsShown
<1>1. GroupInv => StoredIsShown
  <2> SUFFICES ASSUME GroupInv, NEW u \in Users, call[u].what = "show", alone[u],
                      call[u].i = Width[call[u].group], call[u].group \in Outputs
               PROVE  number[u] \in stored[call[u].group]
    BY DEF StoredIsShown, Finished
  <2> DEFINE g == call[u].group
  <2>1. g \in Groups /\ number[u] \in Long
    BY DEF GroupInv, CallsInv
  <2>2. /\ NobodyStores(g)
        /\ \A v \in Long : Holds(g, v, Width[g]) => number[u] = Lowest(v, Width[g])
    BY DEF GroupInv, ShowingInv
  <2>3. \/ stored[g] = Long
        \/ \E v \in Long : stored[g] = {Kept(g, v)} /\ Holds(g, v, Width[g])
    BY <2>2 DEF GroupInv, SettledInv
  <2>4. \A v \in Long : Kept(g, v) = Lowest(v, Width[g])
    BY <2>1, KeptIsLowest DEF Long
  <2> QED
    BY <2>1, <2>2, <2>3, <2>4
<1> QED
  BY AlwaysGroups, <1>1, PTL

-----------------------------------------------------------------------------
(* The drivers side by side *)

\* A store of a long is a store of the numbers that a run offers.
LEMMA Offered ==
  ASSUME MCNumbers \subseteq Long, GroupNext(MCNumbers)
  PROVE  GroupNext(Long)
BY DEF GroupNext

\* Every step is one of one driver, and the others stand still.
LEMMA OneDriver ==
  ASSUME MCNumbers \subseteq Long, [DriversNext]_driversVars
  PROVE  [Next]_vars /\ [PlatformNext]_platformVars /\ [GroupNext(Long)]_groupVars
<1>1. CASE use = "timer" /\ Next /\ UNCHANGED <<platformVars, groupVars>>
  BY <1>1
<1>2. CASE use = "modules" /\ PlatformNext /\ UNCHANGED <<vars, groupVars>>
  BY <1>2
<1>3. CASE use = "attributes" /\ GroupNext(MCNumbers) /\ UNCHANGED <<vars, platformVars>>
  BY <1>3, Offered
<1>4. CASE UNCHANGED driversVars
  BY <1>4 DEF driversVars
<1> QED
  BY <1>1, <1>2, <1>3, <1>4 DEF DriversNext

\* The drivers side by side are the timer's driver, the modules' life and the
\* attributes of multi-gpio, each as if it were alone: what is proved of one of
\* them holds on a board with all.
THEOREM SideBySide ==
  MCNumbers \subseteq Long /\ DriversSpec => Spec /\ PlatformSpec /\ GroupSpec
<1> SUFFICES ASSUME MCNumbers \subseteq Long PROVE DriversSpec => Spec /\ PlatformSpec /\ GroupSpec
  OBVIOUS
<1>1. DriversInit => Init /\ PlatformInit /\ GroupInit
  BY DEF DriversInit
<1>2. [DriversNext]_driversVars
        => [Next]_vars /\ [PlatformNext]_platformVars /\ [GroupNext(Long)]_groupVars
  BY OneDriver
<1> QED
  BY <1>1, <1>2, PTL DEF DriversSpec, Spec, PlatformSpec, GroupSpec

\* Counter, modules and attributes keep their types side by side: what a probe
\* leaves behind is held, and what gpio_show collects stays within a long.
THEOREM DriversTypes == MCNumbers \subseteq Long /\ DriversSpec => []DriversTypeOK
<1>1. TypeOK /\ PlatformTypeOK /\ GroupTypeOK => DriversTypeOK
  BY DEF DriversTypeOK
<1> QED
  BY <1>1, SideBySide, TypeCorrect, AlwaysPlatformTypes, AlwaysGroupTypes, PTL

\* What the runs check of each driver.
DriversSafe == ReadExpired /\ Released /\ GivenBack /\ NothingDangles /\ LinesHeld /\ StoredIsShown

\* With one process at the timer and ksgpio never unbound, all that was proved of
\* the drivers one by one holds side by side: a read's counter has expired, a
\* closed timer has neither handler nor interrupt, a driver without device has
\* given back all but what the way back of a refused probe left, no call follows
\* a pointer to what was given back, the lines of axi4s2dmov are taken, and a
\* show returns what was stored.
THEOREM AlwaysDriversSafe ==
  MCNumbers \subseteq Long /\ (\E u : Threads = {u}) /\ Rearm = FALSE /\ "ksgpio" \notin Rebound
    /\ DriversSpec => []DriversSafe
<1> SUFFICES ASSUME MCNumbers \subseteq Long, NEW u, Threads = {u}, Rearm = FALSE,
                    "ksgpio" \notin Rebound
             PROVE  DriversSpec => []DriversSafe
  OBVIOUS
<1>1. Spec => []ReadExpired
  BY ExpirySound
<1>2. Spec => []Released
  BY ReleaseSound
<1>3. PlatformSpec => []LinesHeld
  BY AlwaysLinesHeld
<1>4. DriversSpec => Spec /\ PlatformSpec /\ GroupSpec
  BY SideBySide
<1>5. ReadExpired /\ Released /\ GivenBack /\ NothingDangles /\ LinesHeld /\ StoredIsShown
        => DriversSafe
  BY DEF DriversSafe
<1> QED
  BY <1>1, <1>2, <1>3, <1>4, <1>5, AlwaysGivenBack, AlwaysNothingDangles, AlwaysShown, PTL
=============================================================================
