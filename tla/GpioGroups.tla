----------------------------- MODULE GpioGroups -----------------------------
(***************************************************************************)
(* The attributes of multi-gpio: each is a group of gpio lines that a      *)
(* process stores to, or shows, as one number.  Line after line is set or  *)
(* read, and nothing keeps two processes apart.                            *)
(***************************************************************************)
EXTENDS Integers

CONSTANTS
  Users,       \* processes with an attribute open
  LONG_BITS,   \* width of a long
  Width        \* lines of each group

Groups == {"dout1", "dout2", "din"}

ASSUME LongAssumption ==
  /\ LONG_BITS \in Nat \ {0}
  /\ 2^0 = 1   \* arithmetic, for the provers
  /\ \A i \in 0..LONG_BITS : 2^i \in Nat \ {0}
  /\ \A i \in 0..LONG_BITS - 1 : 2^(i + 1) = 2 * 2^i /\ 2^i <= 2^(LONG_BITS - 1)
ASSUME GroupAssumption == Width \in [Groups -> 1..LONG_BITS]

Long == -2^(LONG_BITS - 1)..2^(LONG_BITS - 1) - 1

Outputs == {"dout1", "dout2"}

VARIABLES
  line,     \* the state of every line
  call,     \* what each process is doing, and at which line of its group
  number,   \* the number it stores, or has collected so far
  alone,    \* history: nobody (else) has stored to the group during the call
  stored    \* history: the numbers a show of the group may return

groupVars == <<line, call, number, alone, stored>>

Idle == [what |-> "idle", group |-> "din", i |-> 0]
Storing(u, g) == call[u].what = "store" /\ call[u].group = g

\* The binary digit of a number, in two's complement: val & mask.
FaultyDigit(val, i) == val % 2
Digit(val, i) == (val \div 2^i) % 2
\* The number with that digit alone; the last one of a long is its sign.
Weight(i) == IF i = LONG_BITS - 1 THEN -2^i ELSE 2^i

\* What a group can keep of a number: its lowest digits.
Kept(g, val) ==
  LET low == val % 2^Width[g] IN
  IF Width[g] = LONG_BITS /\ low >= 2^(LONG_BITS - 1) THEN low - 2^LONG_BITS ELSE low

GroupInit ==
  /\ line = [g \in Groups |-> [i \in 0..Width[g] - 1 |-> 0]]
  /\ call = [u \in Users |-> Idle]
  /\ number = [u \in Users |-> 0] /\ alone = [u \in Users |-> TRUE]
  /\ stored = [g \in Groups |-> Long]

-----------------------------------------------------------------------------
Enter(u, what, g) == call' = [call EXCEPT ![u] = [what |-> what, group |-> g, i |-> 0]]
AtLine(u, what) == call[u].what = what /\ call[u].i < Width[call[u].group]
Finished(u, what) == call[u].what = what /\ call[u].i = Width[call[u].group]
Advance(u) == call' = [call EXCEPT ![u].i = @ + 1]
Leave(u) == /\ call' = [call EXCEPT ![u] = Idle] /\ number' = [number EXCEPT ![u] = 0]
            /\ alone' = [alone EXCEPT ![u] = TRUE]

NobodyStores(g) == \A u \in Users : ~Storing(u, g)

\* gpio_store, once the text has been read as a number.
StartStore(u, g, val) ==
  /\ call[u] = Idle /\ Enter(u, "store", g)
  /\ number' = [number EXCEPT ![u] = val]
  /\ alone' = [v \in Users |->
       IF v = u THEN NobodyStores(g) ELSE alone[v] /\ call[v].group # g]
  /\ UNCHANGED <<line, stored>>

\* Setting a line of an input has no effect.
StoreLine(u) ==
  /\ AtLine(u, "store") /\ Advance(u)
  /\ LET g == call[u].group  i == call[u].i IN
     line' = IF g \in Outputs THEN [line EXCEPT ![g][i] = Digit(number[u], i)] ELSE line
  /\ UNCHANGED <<number, alone, stored>>

EndStore(u) ==
  /\ Finished(u, "store") /\ Leave(u)
  /\ LET g == call[u].group IN
     stored' = [stored EXCEPT ![g] = IF alone[u] THEN {Kept(g, number[u])} ELSE Long]
  /\ UNCHANGED line

\* gpio_show
StartShow(u, g) ==
  /\ call[u] = Idle /\ Enter(u, "show", g)
  /\ alone' = [alone EXCEPT ![u] = NobodyStores(g)]
  /\ UNCHANGED <<line, number, stored>>

ShowLine(u) ==
  /\ AtLine(u, "show") /\ Advance(u)
  /\ LET c == call[u] IN
     number' = [number EXCEPT ![u] = @ + line[c.group][c.i] * Weight(c.i)]
  /\ UNCHANGED <<line, alone, stored>>

\* The number is printed; or gpiod_get_value has failed, which ends the call.
EndShow(u) == (Finished(u, "show") \/ AtLine(u, "show")) /\ Leave(u) /\ UNCHANGED <<line, stored>>

\* The inputs, driven from outside.
Drive(i) ==
  /\ line' = [line EXCEPT !["din"][i] = 1 - @]
  /\ UNCHANGED <<call, number, alone, stored>>

GroupNext(numbers) ==
  \/ \E u \in Users, g \in Groups :
       StartShow(u, g) \/ \E val \in numbers : StartStore(u, g, val)
  \/ \E u \in Users : StoreLine(u) \/ EndStore(u) \/ ShowLine(u) \/ EndShow(u)
  \/ \E i \in DOMAIN line["din"] : Drive(i)

GroupSpec == GroupInit /\ [][GroupNext(Long)]_groupVars

-----------------------------------------------------------------------------
(* Properties *)

GroupTypeOK ==
  /\ line \in [Groups -> UNION {[0..w - 1 -> {0, 1}] : w \in 1..LONG_BITS}]
  /\ \A u \in Users :
       /\ call[u].what \in {"idle", "store", "show"} /\ call[u].group \in Groups
       /\ call[u].i \in 0..Width[call[u].group]
  /\ number \in [Users -> Long] /\ alone \in [Users -> BOOLEAN]

\* A show that meets no store of its group returns the number stored last,
\* cut to the lines of the group: whatever happens to the other groups
\* meanwhile, and with the sign when the group is as wide as a long.  After
\* two stores at the same time nothing is promised.
StoredIsShown ==
  \A u \in Users :
    Finished(u, "show") /\ alone[u] /\ call[u].group \in Outputs
      => number[u] \in stored[call[u].group]
=============================================================================
