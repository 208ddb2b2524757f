---------------------------- MODULE PlatformProofs ----------------------------
(***************************************************************************)
(* What the kernel drivers give back and where their pointers lead, for    *)
(* every board and every choice of drivers that are unbound.               *)
(***************************************************************************)
EXTENDS PlatformDriver, Integers, SequenceTheorems, TLAPS

-----------------------------------------------------------------------------
(* The order of the steps *)

Names == Character \cup Lines \cup Buffers
           \cup {"registers", "channel", "start", "reset", "control", "irq", "files", "claim"}

Before(d, k) == {Steps(d)[i] : i \in 1..k - 1}

All(d) == {Steps(d)[i] : i \in 1..Len(Steps(d))}

\* The character device is made in one order, after the steps in first.
InCharacter(s, done, first) ==
  \/ s = "class" /\ done = first
  \/ s = "region" /\ done = first \cup {"class"}
  \/ s = "cdev" /\ done = first \cup {"class", "region"}
  \/ s = "live" /\ done = first \cup {"class", "region", "cdev"}
  \/ s = "node" /\ done = first \cup {"class", "region", "cdev", "live"}

InLines(s, done) ==
  \/ s = "dout1" /\ done = {}
  \/ s = "dout2" /\ done = {"dout1"}
  \/ s = "din" /\ done = {"dout1", "dout2"}

\* Step s of the probe of d comes when the steps in done have been done.
Due(d, s, done) ==
  \/ /\ d = "axil2ipb"
     /\ \/ s = "registers" /\ done = {}
        \/ InCharacter(s, done, {"registers"})
        \/ s = "claim" /\ done = {"registers"} \cup Character
  \/ /\ d = "axi_irq1"
     /\ \/ s = "irq" /\ done = {}
        \/ s = "registers" /\ done = {"irq"}
        \/ InCharacter(s, done, {"irq", "registers"})
        \/ s = "claim" /\ done = {"irq", "registers"} \cup Character
  \/ /\ d = "axi4s2dmov"
     /\ \/ s = "control" /\ done = {}
        \/ s = "registers" /\ done = {"control"}
        \/ s = "irq" /\ done = {"control", "registers"}
        \/ InCharacter(s, done, {"control", "registers", "irq"})
        \/ s = "claim" /\ done = {"control", "registers", "irq"} \cup Character
        \/ s = "buffer0" /\ done = {"control", "registers", "irq", "claim"} \cup Character
        \/ s = "buffer1"
           /\ done = {"control", "registers", "irq", "claim", "buffer0"} \cup Character
  \/ /\ d = "axi4s2dma"
     /\ \/ s = "channel" /\ done = {}
        \/ InCharacter(s, done, {"channel"})
  \/ /\ d = "ksgpio"
     /\ \/ s = "start" /\ done = {}
        \/ s = "reset" /\ done = {"start"}
        \/ s = "claim" /\ done = {"start", "reset"}
  \/ /\ d = "multi-gpio"
     /\ \/ InLines(s, done)
        \/ InCharacter(s, done, Lines)
        \/ s = "files" /\ done = Lines \cup Character
        \/ s = "claim" /\ done = {"files"} \cup Lines \cup Character
  \/ /\ d = "multi-gpio-v1"
     /\ \/ InLines(s, done)
        \/ InCharacter(s, done, Lines)
        \/ s = "claim" /\ done = Lines \cup Character

Complete(d) ==
  CASE d = "axil2ipb" -> {"registers", "claim"} \cup Character
    [] d = "axi_irq1" -> {"irq", "registers", "claim"} \cup Character
    [] d = "axi4s2dmov" -> {"control", "registers", "irq", "claim"} \cup Character \cup Buffers
    [] d = "axi4s2dma" -> {"channel"} \cup Character
    [] d = "ksgpio" -> {"start", "reset", "claim"}
    [] d = "multi-gpio" -> {"files", "claim"} \cup Lines \cup Character
    [] d = "multi-gpio-v1" -> {"claim"} \cup Lines \cup Character

Ordered(d) ==
  /\ Steps(d) \in Seq(Names)
  /\ \A k \in 1..Len(Steps(d)) : Due(d, Steps(d)[k], Before(d, k))
  /\ All(d) = Complete(d)

LEMMA BridgeOrder == Ordered("axil2ipb")
<1> DEFINE t == Steps("axil2ipb")
<1>1. /\ t \in Seq(Names) /\ Len(t) = 7
      /\ t[1] = "registers" /\ t[2] = "class" /\ t[3] = "region" /\ t[4] = "cdev"
      /\ t[5] = "live" /\ t[6] = "node" /\ t[7] = "claim"
  BY DEF Steps, BridgeSteps, NodeSteps, Names, Character, Lines, Buffers
<1> HIDE DEF t
<1>2. ASSUME NEW k \in 1..7 PROVE Due("axil2ipb", t[k], {t[i] : i \in 1..k - 1})
  <2>1. CASE k = 1
    <3>1. {t[i] : i \in 1..k - 1} = {}
      BY <1>1, <2>1
    <3> QED
      BY <1>1, <2>1, <3>1 DEF Due, InCharacter, InLines, Lines, Character
  <2>2. CASE k = 2
    <3>1. {t[i] : i \in 1..k - 1} = {"registers"}
      BY <1>1, <2>2
    <3> QED
      BY <1>1, <2>2, <3>1 DEF Due, InCharacter, InLines, Lines, Character
  <2>3. CASE k = 3
    <3>1. {t[i] : i \in 1..k - 1} = {"registers", "class"}
      BY <1>1, <2>3
    <3> QED
      BY <1>1, <2>3, <3>1 DEF Due, InCharacter, InLines, Lines, Character
  <2>4. CASE k = 4
    <3>1. {t[i] : i \in 1..k - 1} = {"registers", "class", "region"}
      BY <1>1, <2>4
    <3> QED
      BY <1>1, <2>4, <3>1 DEF Due, InCharacter, InLines, Lines, Character
  <2>5. CASE k = 5
    <3>1. {t[i] : i \in 1..k - 1} = {"registers", "class", "region", "cdev"}
      BY <1>1, <2>5
    <3> QED
      BY <1>1, <2>5, <3>1 DEF Due, InCharacter, InLines, Lines, Character
  <2>6. CASE k = 6
    <3>1. {t[i] : i \in 1..k - 1} = {"registers", "class", "region", "cdev", "live"}
      BY <1>1, <2>6
    <3> QED
      BY <1>1, <2>6, <3>1 DEF Due, InCharacter, InLines, Lines, Character
  <2>7. CASE k = 7
    <3>1. {t[i] : i \in 1..k - 1} = {"registers", "class", "region", "cdev", "live", "node"}
      BY <1>1, <2>7
    <3> QED
      BY <1>1, <2>7, <3>1 DEF Due, InCharacter, InLines, Lines, Character
  <2> QED
    BY <2>1, <2>2, <2>3, <2>4, <2>5, <2>6, <2>7
<1>3. {t[i] : i \in 1..7} = Complete("axil2ipb")
  BY <1>1 DEF Complete, Character, Lines, Buffers
<1> QED
  BY <1>1, <1>2, <1>3 DEF Ordered, All, Before, t

LEMMA CounterOrder == Ordered("axi_irq1")
<1> DEFINE t == Steps("axi_irq1")
<1>1. /\ t \in Seq(Names) /\ Len(t) = 8
      /\ t[1] = "irq" /\ t[2] = "registers" /\ t[3] = "class" /\ t[4] = "region"
      /\ t[5] = "cdev" /\ t[6] = "live" /\ t[7] = "node" /\ t[8] = "claim"
  BY DEF Steps, CounterSteps, NodeSteps, Names, Character, Lines, Buffers
<1> HIDE DEF t
<1>2. ASSUME NEW k \in 1..8 PROVE Due("axi_irq1", t[k], {t[i] : i \in 1..k - 1})
  <2>1. CASE k = 1
    <3>1. {t[i] : i \in 1..k - 1} = {}
      BY <1>1, <2>1
    <3> QED
      BY <1>1, <2>1, <3>1 DEF Due, InCharacter, InLines, Lines, Character
  <2>2. CASE k = 2
    <3>1. {t[i] : i \in 1..k - 1} = {"irq"}
      BY <1>1, <2>2
    <3> QED
      BY <1>1, <2>2, <3>1 DEF Due, InCharacter, InLines, Lines, Character
  <2>3. CASE k = 3
    <3>1. {t[i] : i \in 1..k - 1} = {"irq", "registers"}
      BY <1>1, <2>3
    <3> QED
      BY <1>1, <2>3, <3>1 DEF Due, InCharacter, InLines, Lines, Character
  <2>4. CASE k = 4
    <3>1. {t[i] : i \in 1..k - 1} = {"irq", "registers", "class"}
      BY <1>1, <2>4
    <3> QED
      BY <1>1, <2>4, <3>1 DEF Due, InCharacter, InLines, Lines, Character
  <2>5. CASE k = 5
    <3>1. {t[i] : i \in 1..k - 1} = {"irq", "registers", "class", "region"}
      BY <1>1, <2>5
    <3> QED
      BY <1>1, <2>5, <3>1 DEF Due, InCharacter, InLines, Lines, Character
  <2>6. CASE k = 6
    <3>1. {t[i] : i \in 1..k - 1} = {"irq", "registers", "class", "region", "cdev"}
      BY <1>1, <2>6
    <3> QED
      BY <1>1, <2>6, <3>1 DEF Due, InCharacter, InLines, Lines, Character
  <2>7. CASE k = 7
    <3>1. {t[i] : i \in 1..k - 1} = {"irq", "registers", "class", "region", "cdev", "live"}
      BY <1>1, <2>7
    <3> QED
      BY <1>1, <2>7, <3>1 DEF Due, InCharacter, InLines, Lines, Character
  <2>8. CASE k = 8
    <3>1. {t[i] : i \in 1..k - 1} = {"irq", "registers", "class", "region", "cdev", "live", "node"}
      BY <1>1, <2>8
    <3> QED
      BY <1>1, <2>8, <3>1 DEF Due, InCharacter, InLines, Lines, Character
  <2> QED
    BY <2>1, <2>2, <2>3, <2>4, <2>5, <2>6, <2>7, <2>8
<1>3. {t[i] : i \in 1..8} = Complete("axi_irq1")
  BY <1>1 DEF Complete, Character, Lines, Buffers
<1> QED
  BY <1>1, <1>2, <1>3 DEF Ordered, All, Before, t

LEMMA MoverOrder == Ordered("axi4s2dmov")
<1> DEFINE t == Steps("axi4s2dmov")
<1>1. /\ t \in Seq(Names) /\ Len(t) = 11
      /\ t[1] = "control" /\ t[2] = "registers" /\ t[3] = "irq" /\ t[4] = "class"
      /\ t[5] = "region" /\ t[6] = "cdev" /\ t[7] = "live" /\ t[8] = "node"
      /\ t[9] = "claim" /\ t[10] = "buffer0" /\ t[11] = "buffer1"
  BY DEF Steps, MoverSteps, Names, Character, Lines, Buffers
<1> HIDE DEF t
<1>2. ASSUME NEW k \in 1..11 PROVE Due("axi4s2dmov", t[k], {t[i] : i \in 1..k - 1})
  <2>1. CASE k = 1
    <3>1. {t[i] : i \in 1..k - 1} = {}
      BY <1>1, <2>1
    <3> QED
      BY <1>1, <2>1, <3>1 DEF Due, InCharacter, InLines, Lines, Character
  <2>2. CASE k = 2
    <3>1. {t[i] : i \in 1..k - 1} = {"control"}
      BY <1>1, <2>2
    <3> QED
      BY <1>1, <2>2, <3>1 DEF Due, InCharacter, InLines, Lines, Character
  <2>3. CASE k = 3
    <3>1. {t[i] : i \in 1..k - 1} = {"control", "registers"}
      BY <1>1, <2>3
    <3> QED
      BY <1>1, <2>3, <3>1 DEF Due, InCharacter, InLines, Lines, Character
  <2>4. CASE k = 4
    <3>1. {t[i] : i \in 1..k - 1} = {"control", "registers", "irq"}
      BY <1>1, <2>4
    <3> QED
      BY <1>1, <2>4, <3>1 DEF Due, InCharacter, InLines, Lines, Character
  <2>5. CASE k = 5
    <3>1. {t[i] : i \in 1..k - 1} = {"control", "registers", "irq", "class"}
      BY <1>1, <2>5
    <3> QED
      BY <1>1, <2>5, <3>1 DEF Due, InCharacter, InLines, Lines, Character
  <2>6. CASE k = 6
    <3>1. {t[i] : i \in 1..k - 1} = {"control", "registers", "irq", "class", "region"}
      BY <1>1, <2>6
    <3> QED
      BY <1>1, <2>6, <3>1 DEF Due, InCharacter, InLines, Lines, Character
  <2>7. CASE k = 7
    <3>1. {t[i] : i \in 1..k - 1} = {"control", "registers", "irq", "class", "region", "cdev"}
      BY <1>1, <2>7
    <3> QED
      BY <1>1, <2>7, <3>1 DEF Due, InCharacter, InLines, Lines, Character
  <2>8. CASE k = 8
    <3>1. {t[i] : i \in 1..k - 1} =
          {"control", "registers", "irq", "class", "region", "cdev", "live"}
      BY <1>1, <2>8
    <3> QED
      BY <1>1, <2>8, <3>1 DEF Due, InCharacter, InLines, Lines, Character
  <2>9. CASE k = 9
    <3>1. {t[i] : i \in 1..k - 1} =
          {"control", "registers", "irq", "class", "region", "cdev", "live", "node"}
      BY <1>1, <2>9
    <3> QED
      BY <1>1, <2>9, <3>1 DEF Due, InCharacter, InLines, Lines, Character
  <2>10. CASE k = 10
    <3>1. {t[i] : i \in 1..k - 1} =
          {"control", "registers", "irq", "class", "region", "cdev", "live", "node", "claim"}
      BY <1>1, <2>10
    <3> QED
      BY <1>1, <2>10, <3>1 DEF Due, InCharacter, InLines, Lines, Character
  <2>11. CASE k = 11
    <3>1. {t[i] : i \in 1..k - 1} =
          {"control", "registers", "irq", "class", "region", "cdev", "live", "node", "claim", "buffer0"}
      BY <1>1, <2>11
    <3> QED
      BY <1>1, <2>11, <3>1 DEF Due, InCharacter, InLines, Lines, Character
  <2> QED
    BY <2>1, <2>2, <2>3, <2>4, <2>5, <2>6, <2>7, <2>8, <2>9, <2>10, <2>11
<1>3. {t[i] : i \in 1..11} = Complete("axi4s2dmov")
  BY <1>1 DEF Complete, Character, Lines, Buffers
<1> QED
  BY <1>1, <1>2, <1>3 DEF Ordered, All, Before, t

LEMMA DmaOrder == Ordered("axi4s2dma")
<1> DEFINE t == Steps("axi4s2dma")
<1>1. /\ t \in Seq(Names) /\ Len(t) = 6
      /\ t[1] = "channel" /\ t[2] = "class" /\ t[3] = "region" /\ t[4] = "cdev"
      /\ t[5] = "live" /\ t[6] = "node"
  BY DEF Steps, DmaSteps, NodeSteps, Names, Character, Lines, Buffers
<1> HIDE DEF t
<1>2. ASSUME NEW k \in 1..6 PROVE Due("axi4s2dma", t[k], {t[i] : i \in 1..k - 1})
  <2>1. CASE k = 1
    <3>1. {t[i] : i \in 1..k - 1} = {}
      BY <1>1, <2>1
    <3> QED
      BY <1>1, <2>1, <3>1 DEF Due, InCharacter, InLines, Lines, Character
  <2>2. CASE k = 2
    <3>1. {t[i] : i \in 1..k - 1} = {"channel"}
      BY <1>1, <2>2
    <3> QED
      BY <1>1, <2>2, <3>1 DEF Due, InCharacter, InLines, Lines, Character
  <2>3. CASE k = 3
    <3>1. {t[i] : i \in 1..k - 1} = {"channel", "class"}
      BY <1>1, <2>3
    <3> QED
      BY <1>1, <2>3, <3>1 DEF Due, InCharacter, InLines, Lines, Character
  <2>4. CASE k = 4
    <3>1. {t[i] : i \in 1..k - 1} = {"channel", "class", "region"}
      BY <1>1, <2>4
    <3> QED
      BY <1>1, <2>4, <3>1 DEF Due, InCharacter, InLines, Lines, Character
  <2>5. CASE k = 5
    <3>1. {t[i] : i \in 1..k - 1} = {"channel", "class", "region", "cdev"}
      BY <1>1, <2>5
    <3> QED
      BY <1>1, <2>5, <3>1 DEF Due, InCharacter, InLines, Lines, Character
  <2>6. CASE k = 6
    <3>1. {t[i] : i \in 1..k - 1} = {"channel", "class", "region", "cdev", "live"}
      BY <1>1, <2>6
    <3> QED
      BY <1>1, <2>6, <3>1 DEF Due, InCharacter, InLines, Lines, Character
  <2> QED
    BY <2>1, <2>2, <2>3, <2>4, <2>5, <2>6
<1>3. {t[i] : i \in 1..6} = Complete("axi4s2dma")
  BY <1>1 DEF Complete, Character, Lines, Buffers
<1> QED
  BY <1>1, <1>2, <1>3 DEF Ordered, All, Before, t

LEMMA ControlOrder == Ordered("ksgpio")
<1> DEFINE t == Steps("ksgpio")
<1>1. /\ t \in Seq(Names) /\ Len(t) = 3
      /\ t[1] = "start" /\ t[2] = "reset" /\ t[3] = "claim"
  BY DEF Steps, ControlSteps, Names, Character, Lines, Buffers
<1> HIDE DEF t
<1>2. ASSUME NEW k \in 1..3 PROVE Due("ksgpio", t[k], {t[i] : i \in 1..k - 1})
  <2>1. CASE k = 1
    <3>1. {t[i] : i \in 1..k - 1} = {}
      BY <1>1, <2>1
    <3> QED
      BY <1>1, <2>1, <3>1 DEF Due, InCharacter, InLines, Lines, Character
  <2>2. CASE k = 2
    <3>1. {t[i] : i \in 1..k - 1} = {"start"}
      BY <1>1, <2>2
    <3> QED
      BY <1>1, <2>2, <3>1 DEF Due, InCharacter, InLines, Lines, Character
  <2>3. CASE k = 3
    <3>1. {t[i] : i \in 1..k - 1} = {"start", "reset"}
      BY <1>1, <2>3
    <3> QED
      BY <1>1, <2>3, <3>1 DEF Due, InCharacter, InLines, Lines, Character
  <2> QED
    BY <2>1, <2>2, <2>3
<1>3. {t[i] : i \in 1..3} = Complete("ksgpio")
  BY <1>1 DEF Complete, Character, Lines, Buffers
<1> QED
  BY <1>1, <1>2, <1>3 DEF Ordered, All, Before, t

LEMMA GroupOrder == Ordered("multi-gpio")
<1> DEFINE t == Steps("multi-gpio")
<1>1. /\ t \in Seq(Names) /\ Len(t) = 10
      /\ t[1] = "dout1" /\ t[2] = "dout2" /\ t[3] = "din" /\ t[4] = "class"
      /\ t[5] = "region" /\ t[6] = "cdev" /\ t[7] = "live" /\ t[8] = "node"
      /\ t[9] = "files" /\ t[10] = "claim"
  BY DEF Steps, GroupSteps, NodeSteps, Names, Character, Lines, Buffers
<1> HIDE DEF t
<1>2. ASSUME NEW k \in 1..10 PROVE Due("multi-gpio", t[k], {t[i] : i \in 1..k - 1})
  <2>1. CASE k = 1
    <3>1. {t[i] : i \in 1..k - 1} = {}
      BY <1>1, <2>1
    <3> QED
      BY <1>1, <2>1, <3>1 DEF Due, InCharacter, InLines, Lines, Character
  <2>2. CASE k = 2
    <3>1. {t[i] : i \in 1..k - 1} = {"dout1"}
      BY <1>1, <2>2
    <3> QED
      BY <1>1, <2>2, <3>1 DEF Due, InCharacter, InLines, Lines, Character
  <2>3. CASE k = 3
    <3>1. {t[i] : i \in 1..k - 1} = {"dout1", "dout2"}
      BY <1>1, <2>3
    <3> QED
      BY <1>1, <2>3, <3>1 DEF Due, InCharacter, InLines, Lines, Character
  <2>4. CASE k = 4
    <3>1. {t[i] : i \in 1..k - 1} = {"dout1", "dout2", "din"}
      BY <1>1, <2>4
    <3> QED
      BY <1>1, <2>4, <3>1 DEF Due, InCharacter, InLines, Lines, Character
  <2>5. CASE k = 5
    <3>1. {t[i] : i \in 1..k - 1} = {"dout1", "dout2", "din", "class"}
      BY <1>1, <2>5
    <3> QED
      BY <1>1, <2>5, <3>1 DEF Due, InCharacter, InLines, Lines, Character
  <2>6. CASE k = 6
    <3>1. {t[i] : i \in 1..k - 1} = {"dout1", "dout2", "din", "class", "region"}
      BY <1>1, <2>6
    <3> QED
      BY <1>1, <2>6, <3>1 DEF Due, InCharacter, InLines, Lines, Character
  <2>7. CASE k = 7
    <3>1. {t[i] : i \in 1..k - 1} = {"dout1", "dout2", "din", "class", "region", "cdev"}
      BY <1>1, <2>7
    <3> QED
      BY <1>1, <2>7, <3>1 DEF Due, InCharacter, InLines, Lines, Character
  <2>8. CASE k = 8
    <3>1. {t[i] : i \in 1..k - 1} = {"dout1", "dout2", "din", "class", "region", "cdev", "live"}
      BY <1>1, <2>8
    <3> QED
      BY <1>1, <2>8, <3>1 DEF Due, InCharacter, InLines, Lines, Character
  <2>9. CASE k = 9
    <3>1. {t[i] : i \in 1..k - 1} =
          {"dout1", "dout2", "din", "class", "region", "cdev", "live", "node"}
      BY <1>1, <2>9
    <3> QED
      BY <1>1, <2>9, <3>1 DEF Due, InCharacter, InLines, Lines, Character
  <2>10. CASE k = 10
    <3>1. {t[i] : i \in 1..k - 1} =
          {"dout1", "dout2", "din", "class", "region", "cdev", "live", "node", "files"}
      BY <1>1, <2>10
    <3> QED
      BY <1>1, <2>10, <3>1 DEF Due, InCharacter, InLines, Lines, Character
  <2> QED
    BY <2>1, <2>2, <2>3, <2>4, <2>5, <2>6, <2>7, <2>8, <2>9, <2>10
<1>3. {t[i] : i \in 1..10} = Complete("multi-gpio")
  BY <1>1 DEF Complete, Character, Lines, Buffers
<1> QED
  BY <1>1, <1>2, <1>3 DEF Ordered, All, Before, t

LEMMA GroupOrderV1 == Ordered("multi-gpio-v1")
<1> DEFINE t == Steps("multi-gpio-v1")
<1>1. /\ t \in Seq(Names) /\ Len(t) = 9
      /\ t[1] = "dout1" /\ t[2] = "dout2" /\ t[3] = "din" /\ t[4] = "class"
      /\ t[5] = "region" /\ t[6] = "cdev" /\ t[7] = "live" /\ t[8] = "node"
      /\ t[9] = "claim"
  BY DEF Steps, GroupStepsV1, NodeSteps, Names, Character, Lines, Buffers
<1> HIDE DEF t
<1>2. ASSUME NEW k \in 1..9 PROVE Due("multi-gpio-v1", t[k], {t[i] : i \in 1..k - 1})
  <2>1. CASE k = 1
    <3>1. {t[i] : i \in 1..k - 1} = {}
      BY <1>1, <2>1
    <3> QED
      BY <1>1, <2>1, <3>1 DEF Due, InCharacter, InLines, Lines, Character
  <2>2. CASE k = 2
    <3>1. {t[i] : i \in 1..k - 1} = {"dout1"}
      BY <1>1, <2>2
    <3> QED
      BY <1>1, <2>2, <3>1 DEF Due, InCharacter, InLines, Lines, Character
  <2>3. CASE k = 3
    <3>1. {t[i] : i \in 1..k - 1} = {"dout1", "dout2"}
      BY <1>1, <2>3
    <3> QED
      BY <1>1, <2>3, <3>1 DEF Due, InCharacter, InLines, Lines, Character
  <2>4. CASE k = 4
    <3>1. {t[i] : i \in 1..k - 1} = {"dout1", "dout2", "din"}
      BY <1>1, <2>4
    <3> QED
      BY <1>1, <2>4, <3>1 DEF Due, InCharacter, InLines, Lines, Character
  <2>5. CASE k = 5
    <3>1. {t[i] : i \in 1..k - 1} = {"dout1", "dout2", "din", "class"}
      BY <1>1, <2>5
    <3> QED
      BY <1>1, <2>5, <3>1 DEF Due, InCharacter, InLines, Lines, Character
  <2>6. CASE k = 6
    <3>1. {t[i] : i \in 1..k - 1} = {"dout1", "dout2", "din", "class", "region"}
      BY <1>1, <2>6
    <3> QED
      BY <1>1, <2>6, <3>1 DEF Due, InCharacter, InLines, Lines, Character
  <2>7. CASE k = 7
    <3>1. {t[i] : i \in 1..k - 1} = {"dout1", "dout2", "din", "class", "region", "cdev"}
      BY <1>1, <2>7
    <3> QED
      BY <1>1, <2>7, <3>1 DEF Due, InCharacter, InLines, Lines, Character
  <2>8. CASE k = 8
    <3>1. {t[i] : i \in 1..k - 1} = {"dout1", "dout2", "din", "class", "region", "cdev", "live"}
      BY <1>1, <2>8
    <3> QED
      BY <1>1, <2>8, <3>1 DEF Due, InCharacter, InLines, Lines, Character
  <2>9. CASE k = 9
    <3>1. {t[i] : i \in 1..k - 1} =
          {"dout1", "dout2", "din", "class", "region", "cdev", "live", "node"}
      BY <1>1, <2>9
    <3> QED
      BY <1>1, <2>9, <3>1 DEF Due, InCharacter, InLines, Lines, Character
  <2> QED
    BY <2>1, <2>2, <2>3, <2>4, <2>5, <2>6, <2>7, <2>8, <2>9
<1>3. {t[i] : i \in 1..9} = Complete("multi-gpio-v1")
  BY <1>1 DEF Complete, Character, Lines, Buffers
<1> QED
  BY <1>1, <1>2, <1>3 DEF Ordered, All, Before, t

LEMMA Order == \A d \in Drivers : Ordered(d)
BY BridgeOrder, CounterOrder, MoverOrder, DmaOrder, ControlOrder, GroupOrder, GroupOrderV1
DEF Drivers

-----------------------------------------------------------------------------
(* What a probe has done and has still to do *)

Position(d) == Len(Steps(d)) - Len(todo[d])
Done(d) == Before(d, Position(d) + 1)
Taken(d) == {s \in Done(d) : Takes(s)}

\* What is still to be done is the rest of the steps.
Suffix(d) ==
  /\ todo[d] \in Seq(Names)
  /\ Position(d) \in 0..Len(Steps(d))
  /\ \A i \in 1..Len(todo[d]) : todo[d][i] = Steps(d)[Position(d) + i]

LEMMA SuffixDue ==
  ASSUME NEW d \in Drivers, Suffix(d)
  PROVE  /\ todo[d] = <<>> => Done(d) = Complete(d)
         /\ todo[d] # <<>> => Due(d, Head(todo[d]), Done(d))
         /\ \A s \in NextStep(d) : s = Head(todo[d]) /\ todo[d] # <<>> /\ Due(d, s, Done(d))
<1> DEFINE t == todo[d]
           n == Len(Steps(d))
<1>1. /\ Steps(d) \in Seq(Names) /\ n \in Nat
      /\ \A k \in 1..n : Due(d, Steps(d)[k], Before(d, k))
      /\ All(d) = Complete(d)
  BY Order DEF Ordered
<1> DEFINE p == Position(d)
<1>2. /\ t \in Seq(Names) /\ Len(t) \in Nat /\ p \in 0..n /\ p = n - Len(t)
      /\ \A i \in 1..Len(t) : t[i] = Steps(d)[p + i]
  <2>1. t \in Seq(Names) /\ p \in 0..n /\ \A i \in 1..Len(t) : t[i] = Steps(d)[p + i]
    BY DEF Suffix
  <2>2. Len(t) \in Nat
    BY <2>1, LenProperties
  <2> QED
    BY <2>1, <2>2 DEF Position
<1> HIDE DEF t, n, p
<1>3. CASE t = <<>>
  <2>1. Len(t) = 0
    BY <1>3
  <2>2. p = n
    BY <1>1, <1>2, <2>1
  <2>3. 1..(n + 1) - 1 = 1..n
    BY <1>1
  <2>4. Done(d) = All(d)
    BY <2>2, <2>3, Zenon DEF Done, Before, All, n, p
  <2> QED
    BY <1>1, <1>3, <2>4 DEF NextStep, t
<1>4. CASE t # <<>>
  <2>1. Len(t) > 0
    BY <1>2, <1>4, EmptySeq
  <2>2. Head(t) = t[1] /\ t[1] = Steps(d)[p + 1] /\ p + 1 \in 1..n
    BY <1>1, <1>2, <2>1
  <2>3. Due(d, Head(t), Done(d))
    BY <1>1, <2>2 DEF Done, p
  <2> QED
    BY <1>4, <2>3 DEF NextStep, t
<1> QED
  BY <1>3, <1>4

\* One more step is done.
LEMMA SuffixNext ==
  ASSUME NEW d \in Drivers, Suffix(d), todo[d] # <<>>, todo'[d] = Tail(todo[d])
  PROVE  Suffix(d)' /\ Done(d)' = Done(d) \cup {Head(todo[d])}
<1> DEFINE t == todo[d]
           n == Len(Steps(d))
           p == Position(d)
<1>1. /\ Steps(d) \in Seq(Names) /\ n \in Nat
  BY Order DEF Ordered
<1>2. /\ t \in Seq(Names) /\ Len(t) \in Nat /\ p \in 0..n /\ p = n - Len(t)
      /\ \A i \in 1..Len(t) : t[i] = Steps(d)[p + i]
  <2>1. t \in Seq(Names) /\ p \in 0..n /\ \A i \in 1..Len(t) : t[i] = Steps(d)[p + i]
    BY DEF Suffix
  <2>2. Len(t) \in Nat
    BY <2>1, LenProperties
  <2> QED
    BY <2>1, <2>2 DEF Position
<1>a. t # <<>> /\ todo'[d] = Tail(t) /\ Position(d)' = n - Len(todo'[d])
  BY DEF Position
<1> HIDE DEF t, n, p
<1>3. Len(t) > 0
  BY <1>2, <1>a, EmptySeq
<1>4. /\ Tail(t) \in Seq(Names) /\ Len(Tail(t)) = Len(t) - 1 /\ Head(t) = t[1]
      /\ \A i \in 1..Len(Tail(t)) : Tail(t)[i] = t[i + 1]
  BY <1>2, <1>3
<1>5. Position(d)' = p + 1 /\ Position(d)' \in 0..n
  BY <1>1, <1>2, <1>3, <1>4, <1>a
<1>6. \A i \in 1..Len(Tail(t)) : Tail(t)[i] = Steps(d)[p + 1 + i]
  <2> SUFFICES ASSUME NEW i \in 1..Len(Tail(t)) PROVE Tail(t)[i] = Steps(d)[p + 1 + i]
    OBVIOUS
  <2>1. i + 1 \in 1..Len(t) /\ p + (i + 1) = p + 1 + i
    BY <1>2, <1>3, <1>4
  <2> QED
    BY <1>2, <1>4, <2>1
<1>7. Suffix(d)'
  BY <1>4, <1>5, <1>6, <1>a DEF Suffix, n
<1>8. Head(t) = Steps(d)[p + 1]
  BY <1>2, <1>3, <1>4
<1>9. Before(d, p + 1 + 1) = Before(d, p + 1) \cup {Steps(d)[p + 1]}
  <2>1. 1..(p + 1 + 1) - 1 = (1..(p + 1) - 1) \cup {p + 1}
    BY <1>2
  <2>2. Before(d, p + 1 + 1) = {Steps(d)[i] : i \in (1..(p + 1) - 1) \cup {p + 1}}
    BY <2>1, Zenon DEF Before
  <2> QED
    BY <2>2 DEF Before
<1> QED
  <2>1. Done(d)' = Before(d, p + 1 + 1)
    BY <1>5, Zenon DEF Done, Before
  <2>2. Done(d) = Before(d, p + 1)
    BY Zenon DEF Done, p
  <2> QED
    BY <1>7, <1>8, <1>9, <2>1, <2>2 DEF t

LEMMA SuffixStart ==
  ASSUME NEW d \in Drivers, todo'[d] = Steps(d)
  PROVE  Suffix(d)' /\ Done(d)' = {}
<1>1. Steps(d) \in Seq(Names) /\ Len(Steps(d)) \in Nat
  BY Order DEF Ordered
<1>2. Position(d)' = 0
  BY <1>1 DEF Position
<1>3. Suffix(d)'
  BY <1>1, <1>2 DEF Suffix
<1>4. 1..(0 + 1) - 1 = {}
  OBVIOUS
<1>5. Done(d)' = {}
  BY <1>2, <1>4 DEF Done, Before
<1> QED
  BY <1>3, <1>5


-----------------------------------------------------------------------------
(* The inductive invariant *)

\* What a refused probe may leave behind: the second half of GivenBack.
Allowed(d) ==
  IF d = "axi4s2dma" THEN {"channel", "class", "region", "cdev"}
  ELSE IF d \in {"axil2ipb", "axi_irq1", "axi4s2dmov"} THEN {"class", "region", "cdev"}
  ELSE {"stray"}

Strays(d) == IF d \in GpioDrivers THEN {"stray"} ELSE {}

\* Nobody but multi-gpio gives back a number that is not its own.
Functions ==
  /\ installed \in Boards /\ installed \subseteq Drivers
  /\ phase \in [installed -> {"out", "probing", "waiting", "bound", "stuck"}]
  /\ todo \in [installed -> Seq(Names)]
  /\ pointers \in [installed -> SUBSET Names]
  /\ held \in [installed -> SUBSET (Resources \cup {"stray"})]
  /\ leaked \in [installed -> SUBSET (Resources \cup {"stray"})]
  /\ opened \in [installed -> BOOLEAN]
  /\ mapped \in [installed -> SUBSET (Buffers \cup {"window", "hole"})]
  /\ unowned \subseteq installed \cap GpioDrivers

\* A probe has its pointers set, and holds what it took.
ProbingInv(d) ==
  /\ Suffix(d)
  /\ Done(d) \subseteq pointers[d]
  /\ held[d] \subseteq leaked[d] \cup Taken(d) \cup Strays(d)
  /\ Taken(d) \ {"node"} \subseteq held[d]
  /\ d \in Serving /\ "claim" \in pointers[d] => "claim" \in Done(d)

\* Without a device there is nothing but what a refused probe left.
IdleInv(d) ==
  /\ held[d] \subseteq leaked[d] \cup Strays(d)
  /\ d \in Serving => "claim" \notin pointers[d]

\* The pointers of a bound driver lead remove to what it holds.
BoundInv(d) ==
  /\ held[d] \ (Removed(d) \cup Managed(d)) \subseteq leaked[d] \cup Strays(d)
  /\ d \in Serving => "region" \in held[d]

\* What a call follows is held.
PointersInv(d) == d \in Serving => pointers[d] \cap Followed \subseteq held[d]

LifeInv(d) ==
  /\ leaked[d] \subseteq Allowed(d)
  /\ phase[d] = "probing" => ProbingInv(d)
  /\ phase[d] \in {"out", "waiting"} => IdleInv(d)
  /\ phase[d] = "bound" => BoundInv(d)
  /\ phase[d] = "stuck" => d \in GpioDrivers
  /\ PointersInv(d)

PlatformInv == Functions /\ \A d \in installed : LifeInv(d)

\* ksgpio says that it is ready from the end of its probe on.
ReadyInv ==
  "ksgpio" \in installed =>
    /\ phase["ksgpio"] \in {"out", "waiting"} => "claim" \notin pointers["ksgpio"]
    /\ phase["ksgpio"] = "probing" /\ "claim" \in pointers["ksgpio"] =>
         "claim" \in Done("ksgpio")
    /\ phase["ksgpio"] = "bound" => {"start", "reset"} \subseteq held["ksgpio"]

\* axi4s2dmov keeps it loaded.
CheckedInv ==
  "axi4s2dmov" \in installed /\ "control" \in pointers["axi4s2dmov"] =>
    phase["axi4s2dmov"] # "out" /\ "claim" \in pointers["ksgpio"]

-----------------------------------------------------------------------------
(* What the order of the steps says of the ways back *)

\* A step that fails, and is reported, leaves what it may leave.
LEMMA RefusedLeaves ==
  ASSUME NEW d \in Drivers, NEW s, NEW D, Due(d, s, D), D \subseteq pointers[d],
         MayBeRefused(d, s), ~ReportedAsSuccess(d, s)
  PROVE  /\ {x \in D : Takes(x)} \ (WayBack(d, s) \cup Managed(d)) \subseteq Allowed(d)
         /\ d \in Serving => "claim" \notin D /\ "region" \notin WayBack(d, s)
         /\ d = "ksgpio" => "region" \notin WayBack(d, s)
<1>1. CASE d \in {"axil2ipb", "axi_irq1", "axi4s2dmov"}
  <2>1. D \subseteq {"control", "irq", "registers", "class", "region", "cdev"}
    BY <1>1 DEF Due, InCharacter, InLines, MayBeRefused, ReportedAsSuccess, Character, Buffers
  <2>2. WayBack(d, s) = {"registers"}
    BY <1>1 DEF WayBack, RegistersBack
  <2>3. Allowed(d) = {"class", "region", "cdev"}
    BY <1>1 DEF Allowed
  <2> QED
    BY <2>1, <2>2, <2>3 DEF Takes, Buffers
<1>2. CASE d = "axi4s2dma"
  <2>1. D \subseteq {"channel", "class", "region", "cdev"}
    BY <1>2 DEF Due, InCharacter, InLines, MayBeRefused, ReportedAsSuccess, Character
  <2> QED
    BY <1>2, <2>1 DEF Allowed, WayBack, NothingBack
<1>3. CASE d = "ksgpio"
  <2>1. D \subseteq {"start", "reset"}
    BY <1>3 DEF Due, MayBeRefused
  <2> QED
    BY <1>3, <2>1 DEF Managed, Lines, Serving, WayBack, NothingBack
<1>4. CASE d \in {"multi-gpio", "multi-gpio-v1"}
  <2>1. d \notin Serving /\ d # "ksgpio" /\ WayBack(d, s) = GroupBack(d, s)
    BY <1>4 DEF Serving, WayBack
  <2>2. CASE s \in Lines
    <3>1. D \subseteq Lines
      BY <1>4, <2>2 DEF Due, InCharacter, InLines, Lines, Character
    <3> QED
      BY <2>1, <3>1 DEF Managed
  <2>3. CASE s \notin Lines
    <3>1. WayBack(d, s) = CharacterDevice(d)
      BY <2>1, <2>3 DEF GroupBack
    <3>2. /\ \A x \in D : x \in Lines \cup Character \cup {"files"}
          /\ "class" \in D => "class" \in CharacterDevice(d)
          /\ "region" \in CharacterDevice(d)
          /\ "cdev" \in D => "cdev" \in CharacterDevice(d) /\ "live" \in CharacterDevice(d)
          /\ "node" \in D => "class" \in D /\ "region" \in D
          /\ "live" \in D => "cdev" \in D
          /\ "class" \in D /\ "region" \in D => "node" \in CharacterDevice(d)
      <4>1. /\ \A x \in D : x \in Lines \cup Character \cup {"files"}
            /\ "node" \in D => "class" \in D /\ "region" \in D
            /\ "live" \in D => "cdev" \in D
        BY <1>4, <2>3 DEF Due, InCharacter, InLines, Lines, Character
      <4>2. "region" \in CharacterDevice(d)
        BY DEF CharacterDevice, Character
      <4>3. "class" \in D => "class" \in CharacterDevice(d)
        BY DEF CharacterDevice, Character
      <4>4. "cdev" \in D => "cdev" \in CharacterDevice(d) /\ "live" \in CharacterDevice(d)
        BY DEF CharacterDevice, Character
      <4>5. "class" \in D /\ "region" \in D => "node" \in CharacterDevice(d)
        BY <1>4 DEF CharacterDevice, Character
      <4> QED
        BY <4>1, <4>2, <4>3, <4>4, <4>5
    <3>3. Lines \subseteq Managed(d) /\ ~Takes("files")
      BY DEF Managed, Takes
    <3> QED
      BY <2>1, <3>1, <3>2, <3>3 DEF Character
  <2> QED
    BY <2>2, <2>3
<1> QED
  BY <1>1, <1>2, <1>3, <1>4 DEF Drivers

\* A step that fails unreported leaves what remove can find.
LEMMA IncompleteLeaves ==
  ASSUME NEW d \in Drivers, NEW s, NEW D, Due(d, s, D), D \subseteq pointers[d],
         ReportedAsSuccess(d, s), pointers'[d] = pointers[d] \ WayBack(d, s)
  PROVE  /\ {x \in D : Takes(x)} \ (WayBack(d, s) \cup Removed(d)') = {}
         /\ d \in {"axil2ipb", "axi_irq1", "axi4s2dmov", "axi4s2dma"}
         /\ "region" \in D /\ "region" \notin WayBack(d, s)
<1>1. CASE s = "cdev"
  <2>1. CASE d \in {"axil2ipb", "axi_irq1", "axi4s2dmov"}
    <3>1. /\ D \subseteq {"control", "irq", "registers", "class", "region"}
          /\ {"class", "region"} \subseteq D
      BY <1>1, <2>1 DEF Due, InCharacter, Character
    <3>2. WayBack(d, s) = {"registers"}
      BY <2>1 DEF WayBack, RegistersBack
    <3>3. "class" \in pointers'[d]
      BY <3>1, <3>2
    <3>4. {"class", "region"} \subseteq CharacterDevice(d)'
      BY <3>3 DEF CharacterDevice, Character
    <3>5. CharacterDevice(d)' \subseteq Removed(d)'
      BY <2>1 DEF Removed, BridgeRemoved, MoverRemoved
    <3> QED
      BY <2>1, <3>1, <3>2, <3>4, <3>5 DEF Takes, Buffers
  <2>2. CASE d = "axi4s2dma"
    <3>1. D \subseteq {"channel", "class", "region"} /\ {"class", "region"} \subseteq D
      BY <1>1, <2>2 DEF Due, InCharacter, Character
    <3>2. WayBack(d, s) = {}
      BY <2>2 DEF WayBack, NothingBack
    <3>3. "class" \in pointers'[d]
      BY <3>1, <3>2
    <3>4. {"class", "region"} \subseteq CharacterDevice(d)'
      BY <3>3 DEF CharacterDevice, Character
    <3>5. CharacterDevice(d)' \cup {"channel"} \subseteq Removed(d)'
      BY <2>2 DEF Removed, DmaRemoved
    <3> QED
      BY <2>2, <3>1, <3>2, <3>4, <3>5
  <2>3. d \notin {"ksgpio", "multi-gpio", "multi-gpio-v1"}
    BY <1>1 DEF Due, InCharacter, ReportedAsSuccess
  <2> QED
    BY <2>1, <2>2, <2>3 DEF Drivers
<1>2. CASE s # "cdev"
  <2>1. s \in Buffers
    BY <1>2 DEF ReportedAsSuccess
  <2>2. /\ d = "axi4s2dmov"
        /\ D \subseteq {"control", "irq", "registers", "claim", "buffer0"} \cup Character
        /\ {"class", "cdev", "region"} \subseteq D
    BY <2>1 DEF Due, InCharacter, InLines, Character, Buffers
  <2>3. WayBack(d, s) = {"registers"}
    BY <2>2 DEF WayBack, RegistersBack
  <2>4. {"class", "cdev", "region"} \subseteq pointers'[d]
    BY <2>2, <2>3
  <2>5. Character \subseteq CharacterDevice(d)'
    BY <2>2, <2>4 DEF CharacterDevice, Character
  <2>6. CharacterDevice(d)' \cup (Buffers \cap pointers'[d]) = Removed(d)' \ {"registers"}
    <3>1. Removed(d)' = CharacterDevice(d)' \cup {"registers"} \cup (Buffers \cap pointers'[d])
      BY <2>2 DEF Removed, MoverRemoved
    <3>2. "registers" \notin CharacterDevice(d)' /\ "registers" \notin Buffers
      BY DEF CharacterDevice, Character, Buffers
    <3> QED
      BY <3>1, <3>2
  <2>7. "buffer0" \in D => "buffer0" \in Buffers \cap pointers'[d]
    BY <2>3 DEF Buffers
  <2> QED
    BY <2>1, <2>2, <2>3, <2>5, <2>6, <2>7 DEF Takes
<1> QED
  BY <1>1, <1>2

\* At the end of a probe remove can find everything.
LEMMA CompleteRemoved ==
  ASSUME NEW d \in Drivers, Complete(d) \subseteq pointers[d]
  PROVE  {x \in Complete(d) : Takes(x)} \subseteq Removed(d) \cup Managed(d)
<1>1. {"class", "cdev", "region"} \subseteq Complete(d) => Character \subseteq CharacterDevice(d)
  BY DEF CharacterDevice, Character
<1>2. CASE d \in {"axil2ipb", "axi_irq1"}
  BY <1>1, <1>2 DEF Complete, Removed, BridgeRemoved, Character, Takes
<1>3. CASE d = "axi4s2dmov"
  <2>1. {"class", "cdev", "region"} \cup Buffers \subseteq Complete(d)
    BY <1>3 DEF Complete, Character
  <2>2. Character \cup {"registers"} \cup Buffers \subseteq Removed(d)
    BY <1>1, <1>3, <2>1 DEF Removed, MoverRemoved
  <2> QED
    BY <1>3, <2>2 DEF Complete, Takes
<1>4. CASE d = "axi4s2dma"
  BY <1>1, <1>4 DEF Complete, Removed, DmaRemoved, Character
<1>5. CASE d = "ksgpio"
  BY <1>5 DEF Complete, Managed, Takes
<1>6. CASE d \in {"multi-gpio", "multi-gpio-v1"}
  <2>1. {"class", "cdev", "region", "claim"} \subseteq Complete(d)
    BY <1>6 DEF Complete, Character
  <2>2. Character \subseteq Removed(d)
    BY <1>1, <1>6, <2>1 DEF Removed, GroupRemoved
  <2>3. Lines \subseteq Managed(d)
    BY DEF Managed
  <2> QED
    BY <1>6, <2>2, <2>3 DEF Complete, Takes
<1> QED
  BY <1>2, <1>3, <1>4, <1>5, <1>6 DEF Drivers

\* What a call follows is taken for certain, and the kernel takes back by itself
\* only what the way back resets.
LEMMA FollowedFacts ==
  ASSUME NEW d \in Serving
  PROVE  /\ d \notin GpioDrivers /\ d # "ksgpio" /\ "region" \notin Followed
         /\ \A r \in Followed : Takes(r) /\ r # "node"
         /\ d # "axi4s2dma" => \A s : Managed(d) \cap Followed \subseteq WayBack(d, s)
<1>1. d \in {"axil2ipb", "axi_irq1", "axi4s2dmov", "axi4s2dma"}
  BY DEF Serving
<1>2. d # "axi4s2dma" => \A s : WayBack(d, s) = {"registers"}
  BY <1>1 DEF WayBack, RegistersBack
<1>3. Managed(d) \cap Followed \subseteq {"registers"}
  BY DEF Managed, Followed, Lines, Buffers
<1>4. "region" \notin Followed /\ \A r \in Followed : Takes(r) /\ r # "node"
  BY DEF Followed, Buffers, Takes
<1> QED
  BY <1>1, <1>2, <1>3, <1>4 DEF GpioDrivers

-----------------------------------------------------------------------------
(* One driver's steps leave the others alone *)

Same(e) ==
  /\ phase'[e] = phase[e] /\ todo'[e] = todo[e] /\ pointers'[e] = pointers[e]
  /\ held'[e] = held[e] /\ leaked'[e] = leaked[e]
  /\ opened'[e] = opened[e] /\ mapped'[e] = mapped[e]

LEMMA SameDone ==
  ASSUME NEW e, todo'[e] = todo[e]
  PROVE  Position(e)' = Position(e) /\ Done(e)' = Done(e) /\ Taken(e)' = Taken(e)
         /\ Suffix(e)' = Suffix(e)
<1>1. Position(e)' = Position(e)
  BY DEF Position
<1>2. Done(e)' = Done(e)
  BY <1>1 DEF Done, Before
<1>3. Taken(e)' = Taken(e)
  BY <1>2 DEF Taken
<1>4. Suffix(e)' = Suffix(e)
  BY <1>1 DEF Suffix
<1> QED
  BY <1>1, <1>2, <1>3, <1>4

LEMMA SameRemoved ==
  ASSUME NEW e, pointers'[e] = pointers[e]
  PROVE  Removed(e)' = Removed(e) /\ CharacterDevice(e)' = CharacterDevice(e)
<1>1. CharacterDevice(e)' = CharacterDevice(e)
  BY DEF CharacterDevice
<1> QED
  BY <1>1 DEF Removed, BridgeRemoved, MoverRemoved, DmaRemoved, ControlRemoved, GroupRemoved

LEMMA SameLife ==
  ASSUME NEW e, Same(e), LifeInv(e)
  PROVE  LifeInv(e)'
<1>1. Done(e)' = Done(e) /\ Taken(e)' = Taken(e) /\ Suffix(e)' = Suffix(e)
  BY SameDone DEF Same
<1>2. Removed(e)' = Removed(e)
  BY SameRemoved DEF Same
<1>3. ProbingInv(e) => ProbingInv(e)'
  BY <1>1 DEF ProbingInv, Same
<1>4. IdleInv(e) => IdleInv(e)'
  BY DEF IdleInv, Same
<1>5. BoundInv(e) => BoundInv(e)'
  BY <1>2 DEF BoundInv, Same
<1>6. PointersInv(e)'
  BY DEF LifeInv, PointersInv, Same
<1> QED
  BY <1>3, <1>4, <1>5, <1>6 DEF LifeInv, Same

-----------------------------------------------------------------------------
(* Each action keeps the invariant of its driver *)

\* Only the state of d changes.
Only(d) == installed' = installed /\ Functions' /\ \A e \in installed \ {d} : Same(e)

LEMMA StartLife ==
  ASSUME PlatformInv, NEW d \in installed, phase[d] \in {"out", "waiting"},
         UNCHANGED <<installed, pointers, held, leaked, opened, mapped, unowned>>,
         phase' = [phase EXCEPT ![d] = "probing"], todo' = [todo EXCEPT ![d] = Steps(d)]
  PROVE  Only(d) /\ LifeInv(d)'
<1>1. Functions /\ d \in Drivers /\ LifeInv(d) /\ IdleInv(d)
  BY DEF PlatformInv, Functions, LifeInv
<1>2. Steps(d) \in Seq(Names)
  BY <1>1, Order DEF Ordered
<1>3. Only(d)
  <2>1. phase' \in [installed -> {"out", "probing", "waiting", "bound", "stuck"}]
    BY <1>1 DEF Functions
  <2>2. todo' \in [installed -> Seq(Names)]
    BY <1>1, <1>2 DEF Functions
  <2>3. Functions'
    BY <1>1, <2>1, <2>2 DEF Functions
  <2>4. \A e \in installed \ {d} : Same(e)
    BY <1>1 DEF Functions, Same
  <2> QED
    BY <2>3, <2>4 DEF Only
<1>4. phase'[d] = "probing" /\ todo'[d] = Steps(d)
  BY <1>1 DEF Functions
<1>5. Suffix(d)' /\ Done(d)' = {}
  BY <1>1, <1>4, SuffixStart
<1>6. Taken(d)' = {}
  BY <1>5 DEF Taken
<1>7. ProbingInv(d)'
  BY <1>1, <1>5, <1>6 DEF ProbingInv, IdleInv
<1>8. PointersInv(d)'
  BY <1>1 DEF LifeInv, PointersInv
<1> QED
  BY <1>1, <1>3, <1>4, <1>7, <1>8 DEF LifeInv, Allowed

LEMMA LoadLife ==
  ASSUME PlatformInv, NEW d \in installed, Load(d) PROVE Only(d) /\ LifeInv(d)'
BY StartLife DEF Load

LEMMA RetryLife ==
  ASSUME PlatformInv, NEW d \in installed, Retry(d) PROVE Only(d) /\ LifeInv(d)'
BY StartLife DEF Retry

LEMMA TakeLife ==
  ASSUME PlatformInv, NEW d \in installed, Take(d) PROVE Only(d) /\ LifeInv(d)'
<1>1. Functions /\ d \in Drivers /\ LifeInv(d) /\ ProbingInv(d) /\ phase[d] = "probing"
  BY DEF PlatformInv, Functions, LifeInv, Take
<1>2. PICK s \in NextStep(d) :
        /\ \/ \E r \in Outcomes(d, s) :
                held' = [held EXCEPT ![d] = @ \cup (IF Takes(s) THEN {r} ELSE {})]
           \/ s = "node" /\ UNCHANGED held
        /\ pointers' = [pointers EXCEPT ![d] = @ \cup {s}]
  BY DEF Take
<1>3. /\ UNCHANGED <<installed, phase, leaked, opened, mapped, unowned>>
      /\ todo' = [todo EXCEPT ![d] = Tail(@)]
  BY DEF Take
<1>4. s = Head(todo[d]) /\ todo[d] # <<>> /\ Due(d, s, Done(d)) /\ todo[d] \in Seq(Names)
  BY <1>1, SuffixDue DEF ProbingInv, Suffix
<1>5. s \in Names /\ Tail(todo[d]) \in Seq(Names)
  BY <1>4
<1> DEFINE Gives(new) ==
        /\ held' = [held EXCEPT ![d] = @ \cup new]
        /\ Takes(s) /\ s # "node" => new = {s}
        /\ new \subseteq {x \in {s} : Takes(x)} \cup Strays(d)
<1>6. \E new \in SUBSET (Resources \cup {"stray"}) : Gives(new)
  <2>1. CASE s = "node" /\ UNCHANGED held
    <3>1. held' = [held EXCEPT ![d] = @ \cup {}]
      BY <1>1, <2>1 DEF Functions
    <3>2. Gives({})
      BY <2>1, <3>1
    <3> HIDE DEF Gives
    <3> QED
      BY <3>2
  <2>2. ASSUME NEW r \in Outcomes(d, s),
               held' = [held EXCEPT ![d] = @ \cup (IF Takes(s) THEN {r} ELSE {})]
        PROVE  \E new \in SUBSET (Resources \cup {"stray"}) : Gives(new)
    <3>1. r = s \/ (s = "node" /\ r = "stray" /\ Strays(d) = {"stray"})
      BY <2>2 DEF Outcomes, Strays, GpioDrivers
    <3>2. Takes(s) => s \in Resources
      BY <1>5 DEF Takes, Names, Resources
    <3> DEFINE got == IF Takes(s) THEN {r} ELSE {}
    <3>3. /\ got \in SUBSET (Resources \cup {"stray"})
          /\ Takes(s) /\ s # "node" => got = {s}
          /\ got \subseteq {x \in {s} : Takes(x)} \cup Strays(d)
      BY <3>1, <3>2
    <3>4. held' = [held EXCEPT ![d] = @ \cup got]
      BY <2>2
    <3> QED
      BY <3>3, <3>4
  <2> QED
    BY <1>2, <2>1, <2>2
<1>7. PICK new \in SUBSET (Resources \cup {"stray"}) : Gives(new)
  BY <1>6
<1>8. Only(d)
  <2>1. todo' \in [installed -> Seq(Names)]
    BY <1>1, <1>3, <1>5 DEF Functions
  <2>2. pointers' \in [installed -> SUBSET Names]
    BY <1>1, <1>2, <1>5 DEF Functions
  <2>3. held' \in [installed -> SUBSET (Resources \cup {"stray"})]
    BY <1>1, <1>7 DEF Functions
  <2>4. Functions'
    BY <1>1, <1>3, <2>1, <2>2, <2>3 DEF Functions
  <2>5. \A e \in installed \ {d} : Same(e)
    BY <1>1, <1>2, <1>3, <1>7 DEF Functions, Same
  <2> QED
    BY <1>3, <2>4, <2>5 DEF Only
<1>9. /\ phase'[d] = "probing" /\ todo'[d] = Tail(todo[d])
      /\ pointers'[d] = pointers[d] \cup {s} /\ held'[d] = held[d] \cup new
  BY <1>1, <1>2, <1>3, <1>7 DEF Functions
<1>10. Suffix(d)' /\ Done(d)' = Done(d) \cup {s}
  BY <1>1, <1>4, <1>9, SuffixNext DEF ProbingInv
<1>11. Taken(d)' = Taken(d) \cup {x \in {s} : Takes(x)}
  BY <1>10 DEF Taken
<1>12. ProbingInv(d)'
  BY <1>1, <1>3, <1>7, <1>9, <1>10, <1>11 DEF ProbingInv
<1>13. PointersInv(d)'
  BY <1>1, <1>7, <1>9, FollowedFacts DEF LifeInv, PointersInv
<1> QED
  BY <1>1, <1>3, <1>8, <1>9, <1>12, <1>13 DEF LifeInv, Allowed

LEMMA BindLife ==
  ASSUME PlatformInv, NEW d \in installed, Bind(d) PROVE Only(d) /\ LifeInv(d)'
<1>1. Functions /\ d \in Drivers /\ LifeInv(d) /\ ProbingInv(d) /\ phase[d] = "probing"
  BY DEF PlatformInv, Functions, LifeInv, Bind
<1>2. /\ UNCHANGED <<installed, todo, pointers, held, leaked, opened, mapped, unowned>>
      /\ phase' = [phase EXCEPT ![d] = "bound"]
  BY DEF Bind
<1>3. phase'[d] = "bound"
  BY <1>1, <1>2 DEF Functions
<1>4. Only(d)
  <2>1. Functions'
    BY <1>1, <1>2 DEF Functions
  <2>2. \A e \in installed \ {d} : Same(e)
    BY <1>1, <1>2 DEF Functions, Same
  <2> QED
    BY <1>2, <2>1, <2>2 DEF Only
<1>5. Done(d) = Complete(d)
  BY <1>1, SuffixDue DEF Bind, ProbingInv
<1>6. Removed(d)' = Removed(d)
  BY <1>2, SameRemoved
<1>7. Taken(d) \subseteq Removed(d) \cup Managed(d)
  BY <1>1, <1>5, CompleteRemoved DEF ProbingInv, Taken
<1>8. d \in Serving => "region" \in held[d]
  <2>1. d \in Serving => "region" \in Complete(d) /\ Takes("region")
    BY DEF Serving, Complete, Character, Takes
  <2> QED
    BY <1>1, <1>5, <2>1 DEF ProbingInv, Taken
<1>9. BoundInv(d)'
  BY <1>1, <1>2, <1>6, <1>7, <1>8 DEF ProbingInv, BoundInv
<1>10. PointersInv(d)'
  BY <1>1, <1>2 DEF LifeInv, PointersInv
<1> QED
  BY <1>1, <1>2, <1>3, <1>4, <1>9, <1>10 DEF LifeInv, Allowed

LEMMA BindIncompleteLife ==
  ASSUME PlatformInv, NEW d \in installed, BindIncomplete(d) PROVE Only(d) /\ LifeInv(d)'
<1>1. PICK s \in NextStep(d) :
        /\ Refused(d, s) /\ ReportedAsSuccess(d, s)
        /\ pointers' = [pointers EXCEPT ![d] = @ \ WayBack(d, s)]
        /\ held' = [held EXCEPT ![d] = @ \ WayBack(d, s)]
        /\ phase' = [phase EXCEPT ![d] = "bound"] /\ todo' = [todo EXCEPT ![d] = <<>>]
        /\ UNCHANGED <<installed, leaked, opened, mapped, unowned>>
  BY DEF BindIncomplete
<1>2. Functions /\ d \in Drivers /\ LifeInv(d) /\ ProbingInv(d) /\ phase[d] = "probing"
  BY <1>1 DEF PlatformInv, Functions, LifeInv, Refused
<1>3. Due(d, s, Done(d))
  BY <1>2, SuffixDue DEF ProbingInv
<1>4. /\ phase'[d] = "bound" /\ leaked'[d] = leaked[d]
      /\ pointers'[d] = pointers[d] \ WayBack(d, s) /\ held'[d] = held[d] \ WayBack(d, s)
      /\ opened'[d] = opened[d] /\ mapped'[d] = mapped[d]
  BY <1>1, <1>2 DEF Functions
<1>5. Only(d)
  <2>1. <<>> \in Seq(Names)
    OBVIOUS
  <2>2. todo' \in [installed -> Seq(Names)]
        /\ phase' \in [installed -> {"out", "probing", "waiting", "bound", "stuck"}]
    BY <1>1, <1>2, <2>1 DEF Functions
  <2>3. /\ pointers' \in [installed -> SUBSET Names]
        /\ held' \in [installed -> SUBSET (Resources \cup {"stray"})]
    BY <1>1, <1>2 DEF Functions
  <2>4. Functions'
    BY <1>1, <1>2, <2>2, <2>3 DEF Functions
  <2>5. \A e \in installed \ {d} : Same(e)
    BY <1>1, <1>2 DEF Functions, Same
  <2> QED
    BY <1>1, <2>4, <2>5 DEF Only
<1>6. /\ Taken(d) \ (WayBack(d, s) \cup Removed(d)') = {}
      /\ d \in {"axil2ipb", "axi_irq1", "axi4s2dmov", "axi4s2dma"}
      /\ "region" \in Done(d) /\ "region" \notin WayBack(d, s)
  BY <1>1, <1>2, <1>3, <1>4, IncompleteLeaves DEF ProbingInv, Taken
<1>7. "region" \in held'[d]
  BY <1>2, <1>4, <1>6 DEF ProbingInv, Taken, Takes
<1>8. BoundInv(d)'
  BY <1>2, <1>4, <1>6, <1>7 DEF BoundInv, ProbingInv
<1>9. PointersInv(d)'
  BY <1>2, <1>4 DEF LifeInv, PointersInv
<1> QED
  BY <1>2, <1>4, <1>5, <1>8, <1>9 DEF LifeInv, Allowed

LEMMA RefuseLife ==
  ASSUME PlatformInv, NEW d \in installed, Refuse(d) PROVE Only(d) /\ LifeInv(d)'
<1> DEFINE kept(s) == held[d] \ (WayBack(d, s) \cup Managed(d))
           left(s) == CASE d = "axi4s2dma" -> {}
                        [] d = "multi-gpio" -> pointers[d] \ (WayBack(d, s) \ {"region"})
                        [] OTHER -> pointers[d] \ ((WayBack(d, s) \cup {s}) \ {"region"})
<1>1. PICK s \in NextStep(d) :
        /\ Refused(d, s) /\ ~ReportedAsSuccess(d, s)
        /\ phase' = [phase EXCEPT ![d] = IF d = "axi4s2dma" THEN "out" ELSE "waiting"]
        /\ \/ todo' = [todo EXCEPT ![d] = <<>>]
           \/ todo' = [todo EXCEPT ![d] = Steps(d)]
        /\ pointers' = [pointers EXCEPT ![d] =
             CASE d = "axi4s2dma" -> {}
               [] d = "multi-gpio" -> @ \ (WayBack(d, s) \ {"region"})
               [] OTHER -> @ \ ((WayBack(d, s) \cup {s}) \ {"region"})]
        /\ held' = [held EXCEPT ![d] = kept(s)] /\ leaked' = [leaked EXCEPT ![d] = kept(s)]
        /\ unowned' = unowned \cup (IF "region" \in WayBack(d, s) THEN LostNumber(d) ELSE {})
        /\ UNCHANGED <<installed, opened, mapped>>
  BY DEF Refuse
<1>2. Functions /\ d \in Drivers /\ LifeInv(d) /\ ProbingInv(d) /\ phase[d] = "probing"
  BY <1>1 DEF PlatformInv, Functions, LifeInv, Refused
<1>3. Due(d, s, Done(d))
  BY <1>2, SuffixDue DEF ProbingInv
<1>4. pointers' = [pointers EXCEPT ![d] = left(s)] /\ left(s) \subseteq pointers[d]
  BY <1>1, <1>2 DEF Functions
<1>5. Steps(d) \in Seq(Names) /\ <<>> \in Seq(Names)
  BY <1>2, Order DEF Ordered
<1> DEFINE idle == IF d = "axi4s2dma" THEN "out" ELSE "waiting"
<1>6. phase' = [phase EXCEPT ![d] = idle] /\ idle \in {"out", "waiting"}
  BY <1>1
<1> HIDE DEF left, kept, idle
<1>7. /\ phase'[d] = idle /\ leaked'[d] = kept(s) /\ held'[d] = kept(s)
      /\ pointers'[d] = left(s)
  BY <1>1, <1>2, <1>4, <1>6 DEF Functions
<1>8. /\ Taken(d) \ (WayBack(d, s) \cup Managed(d)) \subseteq Allowed(d)
      /\ d \in Serving => "claim" \notin Done(d) /\ "region" \notin WayBack(d, s)
      /\ d = "ksgpio" => "region" \notin WayBack(d, s)
  BY <1>1, <1>2, <1>3, RefusedLeaves DEF ProbingInv, Taken, Refused
<1>9. unowned' \subseteq installed \cap GpioDrivers
  <2>1. d \in GpioDrivers \cup {"ksgpio"} \cup Serving
    BY <1>2 DEF Drivers, GpioDrivers, Serving
  <2>2. LostNumber(d) \subseteq {d}
    BY DEF LostNumber
  <2> QED
    BY <1>1, <1>2, <1>8, <2>1, <2>2 DEF Functions
<1>10. Only(d)
  <2>1. todo' \in [installed -> Seq(Names)]
    BY <1>1, <1>2, <1>5 DEF Functions
  <2>2. phase' \in [installed -> {"out", "probing", "waiting", "bound", "stuck"}]
    BY <1>2, <1>6 DEF Functions
  <2>3. pointers' \in [installed -> SUBSET Names]
    BY <1>2, <1>4 DEF Functions
  <2>4. /\ held' \in [installed -> SUBSET (Resources \cup {"stray"})]
        /\ leaked' \in [installed -> SUBSET (Resources \cup {"stray"})]
    BY <1>1, <1>2 DEF Functions, kept
  <2>5. Functions'
    BY <1>1, <1>2, <1>9, <2>1, <2>2, <2>3, <2>4 DEF Functions
  <2>6. \A e \in installed \ {d} : Same(e)
    BY <1>1, <1>2, <1>4, <1>6 DEF Functions, Same
  <2> QED
    BY <1>1, <2>5, <2>6 DEF Only
<1>11. kept(s) \subseteq Allowed(d)
  <2>1. Strays(d) \subseteq Allowed(d)
    BY DEF Strays, Allowed, GpioDrivers
  <2>2. /\ held[d] \subseteq leaked[d] \cup Taken(d) \cup Strays(d)
        /\ leaked[d] \subseteq Allowed(d)
    BY <1>2 DEF LifeInv, ProbingInv
  <2> QED
    BY <1>8, <2>1, <2>2 DEF kept
<1>12. IdleInv(d)'
  BY <1>2, <1>4, <1>7, <1>8 DEF IdleInv, ProbingInv
<1>13. PointersInv(d)'
  <2> SUFFICES ASSUME d \in Serving, NEW r \in left(s) \cap Followed PROVE r \in kept(s)
    BY <1>7 DEF PointersInv
  <2>1. d # "axi4s2dma" /\ r # "region"
    BY FollowedFacts DEF left
  <2>2. r \notin WayBack(d, s) /\ r \in pointers[d]
    BY <2>1, FollowedFacts DEF left, GpioDrivers
  <2>3. r \in held[d] /\ r \notin Managed(d)
    BY <1>2, <2>1, <2>2, FollowedFacts DEF LifeInv, PointersInv
  <2> QED
    BY <2>2, <2>3 DEF kept
<1> QED
  BY <1>6, <1>7, <1>10, <1>11, <1>12, <1>13 DEF LifeInv, Allowed

\* A driver that dies leaves all as it was, but is stuck.
LEMMA DieLife ==
  ASSUME PlatformInv, NEW d \in installed, Die(d) PROVE Only(d) /\ LifeInv(d)'
<1>1. Functions /\ LifeInv(d)
  BY DEF PlatformInv, Functions
<1>2. /\ d \in GpioDrivers /\ phase' = [phase EXCEPT ![d] = "stuck"]
      /\ UNCHANGED <<installed, todo, pointers, held, leaked, opened, mapped, unowned>>
  BY DEF Die, Dies
<1>3. Only(d) /\ phase'[d] = "stuck"
  <2>1. Functions' /\ phase'[d] = "stuck"
    BY <1>1, <1>2 DEF Functions
  <2>2. \A e \in installed \ {d} : Same(e)
    BY <1>1, <1>2 DEF Functions, Same
  <2> QED
    BY <1>2, <2>1, <2>2 DEF Only
<1>4. PointersInv(d)'
  BY <1>1, <1>2 DEF LifeInv, PointersInv
<1> QED
  BY <1>1, <1>2, <1>3, <1>4 DEF LifeInv, Allowed

\* What Unbind and Unload do alike; the drivers that serve calls forget my_pdev,
\* and what calls follow, in both.
Departs(d, idle, gone) ==
  /\ phase[d] \in {"waiting", "bound"}
  /\ IF phase[d] = "bound" THEN Remove(d) ELSE UNCHANGED <<held, unowned>>
  /\ pointers' = [pointers EXCEPT ![d] = @ \ gone]
  /\ d \in Serving => pointers[d] \subseteq gone \cup {"region"}
  /\ phase' = [phase EXCEPT ![d] = idle] /\ todo' = [todo EXCEPT ![d] = <<>>]
  /\ UNCHANGED <<installed, leaked, opened, mapped>>

LEMMA LeaveLife ==
  ASSUME PlatformInv, NEW d \in installed, NEW idle \in {"out", "waiting"}, NEW gone,
         Departs(d, idle, gone)
  PROVE  Only(d) /\ LifeInv(d)'
<1> USE DEF Departs
<1>1. Functions /\ d \in Drivers /\ LifeInv(d) /\ <<>> \in Seq(Names)
  BY DEF PlatformInv, Functions
<1>2. /\ phase'[d] = idle /\ leaked'[d] = leaked[d] /\ pointers'[d] = pointers[d] \ gone
  BY <1>1 DEF Functions
<1>3. /\ held' \in [installed -> SUBSET (Resources \cup {"stray"})]
      /\ \A e \in installed \ {d} : held'[e] = held[e]
      /\ held'[d] = IF phase[d] = "bound" THEN held[d] \ (Removed(d) \cup Managed(d)) ELSE held[d]
  <2>1. CASE phase[d] = "bound"
    <3>1. held' = [held EXCEPT ![d] = @ \ (Removed(d) \cup Managed(d))]
      BY <2>1 DEF Remove
    <3> DEFINE rest == held[d] \ (Removed(d) \cup Managed(d))
    <3>2. held' = [held EXCEPT ![d] = rest] /\ rest \subseteq held[d]
      BY <3>1
    <3> HIDE DEF rest
    <3>3. held[d] \in SUBSET (Resources \cup {"stray"})
      BY <1>1 DEF Functions
    <3>4. /\ held' \in [installed -> SUBSET (Resources \cup {"stray"})]
          /\ \A e \in installed \ {d} : held'[e] = held[e]
          /\ held'[d] = rest
      BY <1>1, <3>2, <3>3 DEF Functions
    <3> QED
      BY <2>1, <3>4 DEF rest
  <2>2. CASE phase[d] # "bound"
    BY <1>1, <2>2 DEF Functions
  <2> QED
    BY <2>1, <2>2
<1>4. unowned' \subseteq installed \cap GpioDrivers
  <2>1. CASE phase[d] = "bound"
    <3>1. unowned' = unowned \cup (IF "region" \in Removed(d) THEN LostNumber(d) ELSE {})
      BY <2>1 DEF Remove
    <3>2. d \in Serving => LostNumber(d) = {}
      BY <1>1, <2>1 DEF LifeInv, BoundInv, LostNumber
    <3>3. d = "ksgpio" => "region" \notin Removed(d)
      BY DEF Removed, ControlRemoved
    <3>4. d \in GpioDrivers \cup {"ksgpio"} \cup Serving /\ LostNumber(d) \subseteq {d}
      BY <1>1 DEF Drivers, GpioDrivers, Serving, LostNumber
    <3> QED
      BY <1>1, <3>1, <3>2, <3>3, <3>4 DEF Functions
  <2>2. CASE phase[d] # "bound"
    BY <1>1, <2>2 DEF Functions
  <2> QED
    BY <2>1, <2>2
<1>5. Only(d)
  <2>1. Functions'
    BY <1>1, <1>3, <1>4 DEF Functions
  <2>2. \A e \in installed \ {d} : Same(e)
    BY <1>1, <1>3 DEF Functions, Same
  <2> QED
    BY <2>1, <2>2 DEF Only
<1>6. held'[d] \subseteq leaked[d] \cup Strays(d)
  BY <1>1, <1>3 DEF LifeInv, IdleInv, BoundInv
<1>7. d \in Serving => pointers'[d] \subseteq {"region"}
  BY <1>2
<1>8. IdleInv(d)'
  BY <1>2, <1>6, <1>7 DEF IdleInv
<1>9. PointersInv(d)'
  BY <1>7, FollowedFacts DEF PointersInv
<1> QED
  BY <1>1, <1>2, <1>5, <1>8, <1>9 DEF LifeInv, Allowed

LEMMA UnbindLife ==
  ASSUME PlatformInv, NEW d \in installed, Unbind(d) PROVE Only(d) /\ LifeInv(d)'
<1>1. d \in Serving => pointers[d] \subseteq Forgotten(d) \cup {"region"}
  BY DEF Forgotten, Serving
<1>2. Departs(d, "waiting", Forgotten(d))
  BY <1>1 DEF Unbind, Departs
<1> QED
  BY <1>2, LeaveLife

LEMMA UnloadLife ==
  ASSUME PlatformInv, NEW d \in installed, Unload(d) PROVE Only(d) /\ LifeInv(d)'
<1>1. pointers' = [pointers EXCEPT ![d] = @ \ pointers[d]]
  BY DEF Unload, PlatformInv, Functions
<1>2. Departs(d, "out", pointers[d])
  BY <1>1 DEF Unload, Departs
<1> QED
  BY <1>2, LeaveLife

\* What a process has open or mapped is no part of the invariant.
LEMMA UseLife ==
  ASSUME PlatformInv, NEW d \in installed,
         NEW o \in BOOLEAN, NEW m \in SUBSET (Buffers \cup {"window", "hole"}),
         opened' = [opened EXCEPT ![d] = o], mapped' = [mapped EXCEPT ![d] = m],
         UNCHANGED <<installed, phase, todo, pointers, held, leaked, unowned>>
  PROVE  Only(d) /\ LifeInv(d)'
<1>1. Functions /\ LifeInv(d)
  BY DEF PlatformInv, Functions
<1>2. Only(d)
  <2>1. Functions'
    BY <1>1 DEF Functions
  <2>2. \A e \in installed \ {d} : Same(e)
    BY <1>1 DEF Functions, Same
  <2> QED
    BY <2>1, <2>2 DEF Only
<1>3. /\ Done(d)' = Done(d) /\ Taken(d)' = Taken(d) /\ Suffix(d)' = Suffix(d)
      /\ Removed(d)' = Removed(d)
  BY SameDone, SameRemoved
<1>4. /\ ProbingInv(d) => ProbingInv(d)'
      /\ BoundInv(d) => BoundInv(d)'
      /\ IdleInv(d) => IdleInv(d)'
      /\ PointersInv(d) => PointersInv(d)'
  BY <1>3 DEF ProbingInv, BoundInv, IdleInv, PointersInv
<1> QED
  BY <1>1, <1>2, <1>4 DEF LifeInv, Allowed

LEMMA OpenLife ==
  ASSUME PlatformInv, NEW d \in installed, OpenNode(d) \/ CloseNode(d)
  PROVE  Only(d) /\ LifeInv(d)'
<1>1. PICK o \in BOOLEAN : opened' = [opened EXCEPT ![d] = o]
  BY DEF OpenNode, CloseNode
<1>2. mapped' = [mapped EXCEPT ![d] = mapped[d]]
      /\ mapped[d] \in SUBSET (Buffers \cup {"window", "hole"})
  BY DEF OpenNode, CloseNode, PlatformInv, Functions
<1>3. UNCHANGED <<installed, phase, todo, pointers, held, leaked, unowned>>
  BY DEF OpenNode, CloseNode
<1> QED
  BY <1>1, <1>2, <1>3, UseLife

LEMMA MapLife ==
  ASSUME PlatformInv, NEW d \in installed, MapMemory(d) \/ UnmapMemory(d)
  PROVE  Only(d) /\ LifeInv(d)'
<1>1. \A m \in Mapping(d) : m \in SUBSET (Buffers \cup {"window", "hole"})
  BY DEF Mapping
<1>2. mapped \in [installed -> SUBSET (Buffers \cup {"window", "hole"})]
  BY DEF PlatformInv, Functions
<1>3. \E m \in SUBSET (Buffers \cup {"window", "hole"}) : mapped' = [mapped EXCEPT ![d] = m]
  <2>1. CASE MapMemory(d)
    <3>1. PICK m \in Mapping(d) : mapped' = [mapped EXCEPT ![d] = @ \cup m]
      BY <2>1 DEF MapMemory
    <3> DEFINE new == mapped[d] \cup m
    <3>2. mapped' = [mapped EXCEPT ![d] = new]
      BY <3>1
    <3>3. new \in SUBSET (Buffers \cup {"window", "hole"})
      BY <1>1, <1>2
    <3> HIDE DEF new
    <3> QED
      BY <3>2, <3>3
  <2>2. CASE UnmapMemory(d)
    BY <2>2 DEF UnmapMemory
  <2> QED
    BY <2>1, <2>2
<1>4. opened' = [opened EXCEPT ![d] = opened[d]] /\ opened[d] \in BOOLEAN
  BY DEF MapMemory, UnmapMemory, PlatformInv, Functions
<1>5. UNCHANGED <<installed, phase, todo, pointers, held, leaked, unowned>>
  BY DEF MapMemory, UnmapMemory
<1> QED
  BY <1>3, <1>4, <1>5, UseLife

-----------------------------------------------------------------------------
(* The invariant of all drivers *)

LEMMA InitPlatform == PlatformInit => PlatformInv
<1> SUFFICES ASSUME PlatformInit PROVE PlatformInv
  OBVIOUS
<1>1. installed \in Boards /\ installed \subseteq Drivers
  BY BoardsAssumption DEF PlatformInit
<1>2. Functions
  <2>1. <<>> \in Seq(Names)
    OBVIOUS
  <2> QED
    BY <1>1, <2>1 DEF PlatformInit, Functions
<1>3. ASSUME NEW d \in installed PROVE LifeInv(d)
  <2>1. /\ phase[d] = "out" /\ pointers[d] = {} /\ held[d] = {} /\ leaked[d] = {}
    BY DEF PlatformInit
  <2> QED
    BY <2>1 DEF LifeInv, IdleInv, PointersInv
<1> QED
  BY <1>2, <1>3 DEF PlatformInv

\* One step, and whose it is.
LEMMA StepOfOne ==
  ASSUME PlatformInv, NEW d \in installed, DriverStep(d)
  PROVE  Only(d) /\ LifeInv(d)'
BY LoadLife, TakeLife, BindLife, BindIncompleteLife, RefuseLife, DieLife, RetryLife, UnbindLife,
   UnloadLife, OpenLife, MapLife DEF DriverStep

\* After a reboot all is as in the beginning.
LEMMA RebootInit ==
  ASSUME PlatformInv, Reboot
  PROVE  /\ PlatformInv' /\ installed' = installed
         /\ \A d \in installed :
              phase'[d] = "out" /\ todo'[d] = <<>> /\ pointers'[d] = {} /\ leaked'[d] = {}
<1>1. Functions'
  <2>1. <<>> \in Seq(Names)
    OBVIOUS
  <2> QED
    BY <2>1 DEF Reboot, PlatformInv, Functions
<1>2. ASSUME NEW d \in installed
      PROVE  /\ phase'[d] = "out" /\ todo'[d] = <<>> /\ pointers'[d] = {}
             /\ held'[d] = {} /\ leaked'[d] = {}
  BY DEF Reboot
<1>3. ASSUME NEW d \in installed PROVE LifeInv(d)'
  BY <1>2 DEF LifeInv, IdleInv, PointersInv
<1>4. installed' = installed
  BY DEF Reboot
<1> QED
  BY <1>1, <1>2, <1>3, <1>4 DEF PlatformInv

LEMMA NextPlatform == PlatformInv /\ [PlatformNext]_platformVars => PlatformInv'
<1> SUFFICES ASSUME PlatformInv, [PlatformNext]_platformVars PROVE PlatformInv'
  OBVIOUS
<1>1. CASE \E d \in installed : DriverStep(d)
  <2>1. PICK d \in installed : Only(d) /\ LifeInv(d)'
    BY <1>1, StepOfOne
  <2>2. ASSUME NEW e \in installed \ {d} PROVE LifeInv(e)'
    BY <2>1, SameLife DEF Only, PlatformInv
  <2> QED
    BY <2>1, <2>2 DEF Only, PlatformInv
<1>2. CASE UNCHANGED platformVars
  <2>1. Functions' /\ installed' = installed
    BY <1>2 DEF platformVars, PlatformInv, Functions
  <2>2. ASSUME NEW e \in installed PROVE LifeInv(e)'
    <3>1. Same(e)
      BY <1>2 DEF platformVars, Same
    <3> QED
      BY <3>1, SameLife DEF PlatformInv
  <2> QED
    BY <2>1, <2>2 DEF PlatformInv
<1> QED
  BY <1>1, <1>2, RebootInit DEF PlatformNext

LEMMA AlwaysPlatform == PlatformSpec => []PlatformInv
BY InitPlatform, NextPlatform, PTL DEF PlatformSpec

\* GivenBack holds of every board: whatever is refused, in whatever order the
\* modules come, go and are bound again, a driver that is out or without its
\* device keeps nothing but what a refused probe leaves (remove, exit and
\* my_dev_cleanup of each driver); and only the gpio drivers ever give back a
\* number that is no longer theirs, as my_dev_cleanup does when a region is
\* refused after an earlier probe.
THEOREM AlwaysGivenBack == PlatformSpec => []GivenBack
<1>1. PlatformInv => GivenBack
  <2> SUFFICES ASSUME PlatformInv PROVE GivenBack
    OBVIOUS
  <2>1. ASSUME NEW d \in installed, phase[d] \in {"out", "waiting"}
        PROVE  held[d] \subseteq leaked[d] \cup {"stray"} /\ leaked[d] \subseteq Allowed(d)
    <3>1. LifeInv(d) /\ IdleInv(d)
      BY <2>1 DEF PlatformInv, LifeInv
    <3> QED
      BY <3>1 DEF LifeInv, IdleInv, Strays
  <2>2. unowned \subseteq GpioDrivers
    BY DEF PlatformInv, Functions
  <2> QED
    BY <2>1, <2>2 DEF GivenBack, Allowed
<1> QED
  BY AlwaysPlatform, <1>1, PTL

\* NothingDangles holds of every board: no refused probe, no unbind (also of an
\* open device) and no unload leaves a call, or the next remove, a pointer to
\* registers, a class, a cdev, a channel or a buffer that was given back.
THEOREM AlwaysNothingDangles == PlatformSpec => []NothingDangles
<1>1. PlatformInv => NothingDangles
  <2> SUFFICES ASSUME PlatformInv, NEW d \in installed \cap Serving
               PROVE  /\ pointers[d] \cap Followed \subseteq held[d]
                      /\ "claim" \in pointers[d] => phase[d] \in {"probing", "bound"}
    BY DEF NothingDangles
  <2>1. LifeInv(d) /\ phase[d] \in {"out", "probing", "waiting", "bound", "stuck"}
    BY DEF PlatformInv, Functions
  <2>2. phase[d] # "stuck"
    BY <2>1, FollowedFacts DEF LifeInv
  <2> QED
    BY <2>1, <2>2 DEF LifeInv, IdleInv, PointersInv
<1> QED
  BY AlwaysPlatform, <1>1, PTL

-----------------------------------------------------------------------------
(* The lines that axi4s2dmov borrows *)

\* A module that another one calls is not unloaded, so ksgpio stays ready for
\* axi4s2dmov; what each action does to the two is all that counts.
LinesInv == PlatformInv /\ ReadyInv /\ CheckedInv

LEMMA LinesSameReady ==
  ASSUME ReadyInv, installed' = installed, "ksgpio" \in installed => Same("ksgpio")
  PROVE  ReadyInv'
<1>1. "ksgpio" \in installed => Done("ksgpio")' = Done("ksgpio")
  BY SameDone DEF Same
<1> QED
  BY <1>1 DEF ReadyInv, Same

LEMMA ControlReady ==
  ASSUME PlatformInv, ReadyInv, "ksgpio" \in installed
  PROVE  /\ "claim" \in pointers["ksgpio"] => {"start", "reset"} \subseteq held["ksgpio"]
         /\ "claim" \in pointers["ksgpio"] /\ phase["ksgpio"] = "probing" => todo["ksgpio"] = <<>>
<1> DEFINE k == "ksgpio"
<1>1. Functions /\ LifeInv(k) /\ k \in Drivers
  BY DEF PlatformInv, Functions
<1>2. ASSUME phase[k] = "probing", "claim" \in Done(k)
      PROVE  todo[k] = <<>> /\ {"start", "reset"} \subseteq held[k]
  <2>1. ProbingInv(k)
    BY <1>1, <1>2 DEF LifeInv
  <2>2. todo[k] = <<>>
    <3>1. ASSUME NEW s, Due(k, s, Done(k)) PROVE FALSE
      BY <1>2, <3>1 DEF Due
    <3> QED
      BY <1>1, <2>1, <3>1, SuffixDue DEF ProbingInv
  <2>3. Done(k) = {"start", "reset", "claim"}
    BY <1>1, <2>1, <2>2, SuffixDue DEF ProbingInv, Complete
  <2> QED
    BY <2>1, <2>2, <2>3 DEF ProbingInv, Taken, Takes
<1>3. phase[k] \in {"out", "probing", "waiting", "bound"}
  BY <1>1 DEF Functions, LifeInv, GpioDrivers
<1> QED
  BY <1>2, <1>3 DEF ReadyInv

\* No action of ksgpio takes back what it said.
LEMMA ReadyStep ==
  ASSUME PlatformInv, ReadyInv, "ksgpio" \in installed, "ksgpio" \notin Rebound,
         DriverStep("ksgpio")
  PROVE  /\ ReadyInv'
         /\ "claim" \in pointers["ksgpio"] /\ ~Unload("ksgpio") => "claim" \in pointers'["ksgpio"]
<1> DEFINE k == "ksgpio"
<1>1. Functions /\ LifeInv(k) /\ k \in Drivers /\ installed' = installed
  BY StepOfOne DEF PlatformInv, Functions, Only
<1>2. /\ phase[k] \in {"out", "waiting"} => "claim" \notin pointers[k]
      /\ phase[k] = "probing" /\ "claim" \in pointers[k] => "claim" \in Done(k)
      /\ phase[k] = "bound" => {"start", "reset"} \subseteq held[k]
  BY DEF ReadyInv
<1>3. "claim" \in pointers[k] => {"start", "reset"} \subseteq held[k]
  BY ControlReady
<1>4. "claim" \in pointers[k] /\ phase[k] = "probing" => todo[k] = <<>>
  BY ControlReady
<1> HIDE DEF k
<1> SUFFICES
      /\ phase'[k] \in {"out", "waiting"} => "claim" \notin pointers'[k]
      /\ phase'[k] = "probing" /\ "claim" \in pointers'[k] => "claim" \in Done(k)'
      /\ phase'[k] = "bound" => {"start", "reset"} \subseteq held'[k]
      /\ "claim" \in pointers[k] /\ ~Unload(k) => "claim" \in pointers'[k]
  BY DEF ReadyInv, k
<1>5. CASE Load(k) \/ Retry(k)
  <2>1. phase'[k] = "probing" /\ "claim" \notin pointers[k] /\ pointers' = pointers
    BY <1>1, <1>2, <1>5 DEF Load, Retry, Functions, k
  <2> QED
    BY <2>1
<1>6. CASE Take(k)
  <2>1. phase' = phase /\ phase[k] = "probing" /\ todo[k] # <<>> /\ todo'[k] = Tail(todo[k])
    BY <1>1, <1>6 DEF Take, NextStep, Functions, k
  <2>2. ProbingInv(k)
    BY <1>1, <2>1 DEF LifeInv
  <2>3. pointers'[k] = pointers[k] \cup {Head(todo[k])}
    BY <1>1, <1>6 DEF Take, NextStep, Functions, k
  <2>4. Done(k)' = Done(k) \cup {Head(todo[k])}
    BY <1>1, <2>1, <2>2, SuffixNext DEF ProbingInv
  <2> QED
    BY <1>2, <2>1, <2>3, <2>4
<1>7. CASE Bind(k)
  <2>1. /\ phase[k] = "probing" /\ todo[k] = <<>> /\ phase'[k] = "bound"
        /\ pointers' = pointers /\ held' = held
    BY <1>1, <1>7 DEF Bind, Functions, k
  <2>2. ProbingInv(k)
    BY <1>1, <2>1 DEF LifeInv
  <2>3. Done(k) = {"start", "reset", "claim"}
    BY <1>1, <2>1, <2>2, SuffixDue DEF ProbingInv, Complete, k
  <2>4. {"start", "reset"} \subseteq held[k]
    BY <2>2, <2>3 DEF ProbingInv, Taken, Takes
  <2> QED
    BY <2>1, <2>4
<1>8. ASSUME BindIncomplete(k) \/ Refuse(k)
      PROVE  /\ Refuse(k) /\ phase'[k] = "waiting" /\ "claim" \notin pointers[k]
             /\ pointers'[k] \subseteq pointers[k]
  <2>1. PICK s \in NextStep(k) : Refused(k, s)
    BY <1>8 DEF BindIncomplete, Refuse
  <2>2. ProbingInv(k) /\ phase[k] = "probing"
    BY <1>1, <2>1 DEF Refused, LifeInv
  <2>3. todo[k] # <<>>
    BY <2>1 DEF NextStep
  <2>4. ASSUME NEW r \in NextStep(k) PROVE ~ReportedAsSuccess(k, r)
    <3>1. Due(k, r, Done(k))
      BY <1>1, <2>2, <2>4, SuffixDue DEF ProbingInv
    <3>2. r \in {"start", "reset", "claim"}
      BY <3>1 DEF Due, k
    <3> QED
      BY <3>2 DEF ReportedAsSuccess, Buffers
  <2>5. Refuse(k)
    BY <1>8, <2>4 DEF BindIncomplete
  <2>6. phase'[k] = "waiting" /\ pointers'[k] \subseteq pointers[k]
    BY <1>1, <2>5 DEF Refuse, Functions, k
  <2> QED
    BY <1>4, <2>2, <2>3, <2>5, <2>6
<1>9. CASE Unbind(k)
  BY <1>9 DEF Unbind, k
<1>10. CASE Unload(k)
  <2>1. phase' = [phase EXCEPT ![k] = "out"] /\ pointers' = [pointers EXCEPT ![k] = {}]
    BY <1>10 DEF Unload
  <2>2. phase'[k] = "out" /\ pointers'[k] = {}
    BY <1>1, <2>1 DEF Functions, k
  <2> QED
    BY <1>10, <2>2
<1>11. CASE OpenNode(k) \/ CloseNode(k) \/ MapMemory(k) \/ UnmapMemory(k)
  <2>1. phase' = phase /\ todo' = todo /\ pointers' = pointers /\ held' = held
    BY <1>11 DEF OpenNode, CloseNode, MapMemory, UnmapMemory
  <2>2. Done(k)' = Done(k)
    BY <2>1, SameDone
  <2> QED
    BY <1>2, <2>1, <2>2
<1>12. ~Die(k)
  BY DEF Die, Dies, GpioDrivers, k
<1> QED
  BY <1>2, <1>5, <1>6, <1>7, <1>8, <1>9, <1>10, <1>11, <1>12 DEF k, DriverStep

\* axi4s2dmov sets the pointer of its check only when ksgpio is ready, and
\* forgets it when it goes.
LEMMA CheckedStep ==
  ASSUME Functions, CheckedInv, "axi4s2dmov" \in installed, NEW d \in installed,
         d = "axi4s2dmov", DriverStep(d)
  PROVE  "control" \in pointers'[d] => phase'[d] # "out" /\ "claim" \in pointers["ksgpio"]
<1>1. "control" \in pointers[d] => phase[d] # "out" /\ "claim" \in pointers["ksgpio"]
  BY DEF CheckedInv
<1>2. CASE Load(d) \/ Bind(d) \/ Retry(d)
  BY <1>1, <1>2 DEF Load, Bind, Retry, Functions
<1>3. CASE Take(d)
  <2>1. PICK s \in NextStep(d) : /\ s = "control" => CheckStatus
                                 /\ pointers' = [pointers EXCEPT ![d] = @ \cup {s}]
    BY <1>3 DEF Take
  <2>2. phase' = phase /\ phase[d] = "probing"
    BY <1>3 DEF Take
  <2>3. pointers'[d] = pointers[d] \cup {s}
    BY <2>1 DEF Functions
  <2> QED
    BY <1>1, <2>1, <2>2, <2>3 DEF CheckStatus
<1>4. CASE BindIncomplete(d)
  <2>1. phase'[d] = "bound" /\ pointers'[d] \subseteq pointers[d]
    BY <1>4 DEF BindIncomplete, Functions
  <2> QED
    BY <1>1, <2>1
<1>5. CASE Refuse(d)
  <2>1. phase'[d] = "waiting" /\ pointers'[d] \subseteq pointers[d]
    BY <1>5 DEF Refuse, Functions
  <2> QED
    BY <1>1, <2>1
<1>6. CASE Unbind(d)
  <2>1. phase'[d] = "waiting" /\ pointers'[d] \subseteq pointers[d]
    BY <1>6 DEF Unbind, Functions
  <2> QED
    BY <1>1, <2>1
<1>7. CASE Unload(d)
  BY <1>7 DEF Unload, Functions
<1>8. CASE OpenNode(d) \/ CloseNode(d) \/ MapMemory(d) \/ UnmapMemory(d)
  BY <1>1, <1>8 DEF OpenNode, CloseNode, MapMemory, UnmapMemory
<1>9. ~Die(d)
  BY DEF Die, Dies, GpioDrivers
<1> QED
  BY <1>2, <1>3, <1>4, <1>5, <1>6, <1>7, <1>8, <1>9 DEF DriverStep

LEMMA InitLines == PlatformInit => LinesInv
<1> SUFFICES ASSUME PlatformInit PROVE ReadyInv /\ CheckedInv
  BY InitPlatform DEF LinesInv
<1>1. \A d \in installed : phase[d] = "out" /\ pointers[d] = {}
  BY DEF PlatformInit
<1> QED
  BY <1>1 DEF ReadyInv, CheckedInv

LEMMA NextLines ==
  ASSUME "ksgpio" \notin Rebound
  PROVE  LinesInv /\ [PlatformNext]_platformVars => LinesInv'
<1> SUFFICES ASSUME LinesInv, [PlatformNext]_platformVars PROVE LinesInv'
  OBVIOUS
<1>1. PlatformInv /\ ReadyInv /\ CheckedInv /\ Functions
  BY DEF LinesInv, PlatformInv
<1>2. PlatformInv'
  BY <1>1, NextPlatform
<1>3. "axi4s2dmov" \in installed => "ksgpio" \in installed
  BY <1>1, BoardsAssumption DEF Functions, Needs
<1>4. CASE \E d \in installed : DriverStep(d)
  <2>1. PICK d \in installed : DriverStep(d)
    BY <1>4
  <2>2. Only(d)
    BY <1>1, <2>1, StepOfOne
  <2>3. ReadyInv'
    <3>1. CASE d = "ksgpio"
      BY <1>1, <2>1, <3>1, ReadyStep
    <3>2. CASE d # "ksgpio"
      BY <1>1, <2>2, <3>2, LinesSameReady DEF Only
    <3> QED
      BY <3>1, <3>2
  <2>4. CheckedInv'
    <3>1. CASE d = "axi4s2dmov"
      <4>1. "control" \in pointers'[d] => phase'[d] # "out" /\ "claim" \in pointers["ksgpio"]
        BY <1>1, <2>1, <3>1, CheckedStep
      <4>2. "ksgpio" \in installed \ {d}
        BY <1>3, <3>1
      <4>3. pointers'["ksgpio"] = pointers["ksgpio"]
        BY <2>2, <4>2 DEF Only, Same
      <4> QED
        BY <3>1, <4>1, <4>3 DEF CheckedInv
    <3>2. CASE d = "ksgpio"
      <4> SUFFICES ASSUME "axi4s2dmov" \in installed, "control" \in pointers'["axi4s2dmov"]
                   PROVE  phase'["axi4s2dmov"] # "out" /\ "claim" \in pointers'["ksgpio"]
        BY <2>2 DEF CheckedInv, Only
      <4>1. phase'["axi4s2dmov"] = phase["axi4s2dmov"]
            /\ pointers'["axi4s2dmov"] = pointers["axi4s2dmov"]
        BY <2>2, <3>2 DEF Only, Same
      <4>2. phase["axi4s2dmov"] # "out" /\ "claim" \in pointers["ksgpio"]
        BY <1>1, <4>1 DEF CheckedInv
      <4>3. ~Unload("ksgpio")
        BY <4>2 DEF Unload, InUse, Called, Needs
      <4> QED
        BY <1>1, <2>1, <3>2, <4>1, <4>2, <4>3, ReadyStep
    <3>3. CASE d \notin {"axi4s2dmov", "ksgpio"}
      <4>1. "axi4s2dmov" \in installed => Same("axi4s2dmov") /\ Same("ksgpio")
        BY <1>3, <2>2, <3>3 DEF Only
      <4> QED
        BY <1>1, <2>2, <4>1 DEF CheckedInv, Same, Only
    <3> QED
      BY <3>1, <3>2, <3>3
  <2> QED
    BY <1>2, <2>3, <2>4 DEF LinesInv
<1>5. CASE UNCHANGED platformVars
  <2>1. ReadyInv'
    BY <1>1, <1>5, LinesSameReady DEF platformVars, Same
  <2>2. CheckedInv'
    BY <1>1, <1>5 DEF CheckedInv, platformVars
  <2> QED
    BY <1>2, <2>1, <2>2 DEF LinesInv
<1>6. CASE Reboot
  <2>1. \A d \in installed' : phase'[d] = "out" /\ pointers'[d] = {}
    BY <1>1, <1>6, RebootInit
  <2> QED
    BY <1>2, <2>1 DEF LinesInv, ReadyInv, CheckedInv
<1> QED
  BY <1>4, <1>5, <1>6 DEF PlatformNext

\* LinesHeld holds of every board on which nobody unbinds ksgpio: from the
\* check in the probe of axi4s2dmov on, the lines that ksgpio_start and
\* ksgpio_reset drive for it are taken.
THEOREM AlwaysLinesHeld == "ksgpio" \notin Rebound /\ PlatformSpec => []LinesHeld
<1> SUFFICES ASSUME "ksgpio" \notin Rebound PROVE PlatformSpec => []LinesHeld
  OBVIOUS
<1>1. LinesInv /\ [PlatformNext]_platformVars => LinesInv'
  BY NextLines
<1>2. LinesInv => LinesHeld
  <2> SUFFICES ASSUME LinesInv, "axi4s2dmov" \in installed, "control" \in pointers["axi4s2dmov"]
               PROVE  {"start", "reset"} \subseteq held["ksgpio"]
    BY DEF LinesHeld
  <2>1. "ksgpio" \in installed
    BY BoardsAssumption DEF LinesInv, PlatformInv, Functions, Needs
  <2> QED
    BY <2>1, ControlReady DEF LinesInv, CheckedInv
<1> QED
  BY <1>1, <1>2, InitLines, PTL DEF PlatformSpec

-----------------------------------------------------------------------------
(* What is left behind stays: types *)

\* The first thing that a refused probe may leave.
First(d) == IF d = "axi4s2dma" THEN "channel" ELSE "class"

\* What a probe has left is still held: it stops every later probe at First,
\* which the kernel does not give twice, so that no remove can reach it.
LeftInv(d) ==
  /\ pointers[d] \subseteq Complete(d)
  /\ leaked[d] \subseteq held[d]
  /\ d \in Serving /\ leaked[d] # {} =>
       /\ First(d) \in leaked[d]
       /\ phase[d] # "bound"
       /\ phase[d] = "probing" => First(d) \notin Done(d)

TypesInv == PlatformInv /\ \A d \in installed : LeftInv(d)

\* A step is one of those that make the probe complete.
LEMMA DueComplete ==
  ASSUME NEW d \in Drivers, NEW s, NEW D, Due(d, s, D)
  PROVE  s \in Complete(d)
BY DEF Due, InCharacter, InLines, Complete, Character, Lines, Buffers, Drivers

\* Nothing that a way back leaves is taken before First, and no way back leads
\* over First.
LEMMA FirstFacts ==
  ASSUME NEW d \in Serving
  PROVE  /\ First(d) \in Complete(d) /\ Takes(First(d)) /\ First(d) # "node"
         /\ \A s : First(d) \notin WayBack(d, s) \cup Managed(d)
         /\ \A s, D : Due(d, s, D) =>
              /\ ReportedAsSuccess(d, s) => First(d) \in D
              /\ \A x \in D : x \in WayBack(d, s) \/ ~Takes(x) \/ First(d) \in D
<1>1. CASE d = "axi4s2dma"
  <2>1. First(d) = "channel"
    BY <1>1 DEF First
  <2>2. First(d) \in Complete(d) /\ Takes(First(d)) /\ First(d) # "node"
    BY <1>1, <2>1 DEF Complete, Takes
  <2>3. \A s : WayBack(d, s) = {}
    BY <1>1 DEF WayBack, NothingBack
  <2>4. First(d) \notin Managed(d)
    BY <1>1, <2>1 DEF Managed, Lines
  <2>5. ASSUME NEW s, NEW D, Due(d, s, D) PROVE (D = {} /\ s = "channel") \/ First(d) \in D
    BY <1>1, <2>1, <2>5 DEF Due, InCharacter
  <2>6. ~ReportedAsSuccess(d, "channel")
    BY DEF ReportedAsSuccess, Buffers
  <2> QED
    BY <2>2, <2>3, <2>4, <2>5, <2>6
<1>2. CASE d # "axi4s2dma"
  <2>1. First(d) = "class" /\ d \in {"axil2ipb", "axi_irq1", "axi4s2dmov"}
    BY <1>2 DEF Serving, First
  <2>2. First(d) \in Complete(d) /\ Takes(First(d)) /\ First(d) # "node"
    BY <2>1 DEF Complete, Takes, Character
  <2>3. \A s : WayBack(d, s) = {"registers"}
    BY <2>1 DEF WayBack, RegistersBack
  <2>4. First(d) \notin Managed(d)
    BY <2>1 DEF Managed, Lines
  <2>5. ASSUME NEW s, NEW D, Due(d, s, D)
        PROVE  \/ D \subseteq {"control", "irq", "registers"} /\ s \notin Buffers \cup {"cdev"}
               \/ First(d) \in D
    BY <2>1, <2>5 DEF Due, InCharacter, Character, Buffers
  <2>6. ~Takes("control") /\ ~Takes("irq")
    BY DEF Takes
  <2>7. \A s : ReportedAsSuccess(d, s) => s \in Buffers \cup {"cdev"}
    BY DEF ReportedAsSuccess
  <2>8. \A s : First(d) \notin WayBack(d, s) \cup Managed(d)
    BY <2>1, <2>3, <2>4
  <2>9. ASSUME NEW s, NEW D, Due(d, s, D), ReportedAsSuccess(d, s) PROVE First(d) \in D
    BY <2>5, <2>7, <2>9
  <2>10. ASSUME NEW s, NEW D, Due(d, s, D), NEW x \in D
         PROVE  x \in WayBack(d, s) \/ ~Takes(x) \/ First(d) \in D
    BY <2>3, <2>5, <2>6, <2>10
  <2> QED
    BY <2>2, <2>8, <2>9, <2>10
<1> QED
  BY <1>1, <1>2

\* A stray node is out of the reach of every way back.
LEMMA StrayStays ==
  ASSUME NEW d PROVE "stray" \notin Removed(d) \cup Managed(d)
<1>1. "stray" \notin CharacterDevice(d) /\ "stray" \notin Managed(d)
  BY DEF CharacterDevice, Character, Managed, Lines
<1> QED
  BY <1>1 DEF Removed, BridgeRemoved, MoverRemoved, DmaRemoved, ControlRemoved, GroupRemoved,
              Buffers, Lines

LEMMA SameLeft ==
  ASSUME NEW e, Same(e), LeftInv(e)
  PROVE  LeftInv(e)'
<1>1. Done(e)' = Done(e)
  BY SameDone DEF Same
<1> QED
  BY <1>1 DEF LeftInv, Same, Complete, First

\* A probe begins with nothing done.
LEMMA StartLeft ==
  ASSUME TypesInv, NEW d \in installed, Load(d) \/ Retry(d)
  PROVE  LeftInv(d)'
<1>1. Functions /\ LeftInv(d) /\ d \in Drivers
  BY DEF TypesInv, PlatformInv, Functions
<1>2. UNCHANGED <<pointers, held, leaked>> /\ todo'[d] = Steps(d) /\ phase'[d] = "probing"
  BY <1>1 DEF Load, Retry, Functions
<1>3. Done(d)' = {}
  BY <1>1, <1>2, SuffixStart
<1> QED
  BY <1>1, <1>2, <1>3 DEF LeftInv, Complete, First

LEMMA TakeLeft ==
  ASSUME TypesInv, NEW d \in installed, Take(d)
  PROVE  LeftInv(d)'
<1>1. Functions /\ LeftInv(d) /\ ProbingInv(d) /\ d \in Drivers /\ phase[d] = "probing"
  BY DEF TypesInv, PlatformInv, Functions, LifeInv, Take
<1>2. PICK s \in NextStep(d) :
        /\ s \notin held[d] /\ pointers' = [pointers EXCEPT ![d] = @ \cup {s}]
        /\ \/ \E r : held' = [held EXCEPT ![d] = @ \cup (IF Takes(s) THEN {r} ELSE {})]
           \/ UNCHANGED held
  BY DEF Take
<1>3. s = Head(todo[d]) /\ todo[d] # <<>> /\ Due(d, s, Done(d))
  BY <1>1, SuffixDue DEF ProbingInv
<1>4. /\ phase' = phase /\ leaked' = leaked /\ todo'[d] = Tail(todo[d])
      /\ pointers'[d] = pointers[d] \cup {s}
  BY <1>1, <1>2 DEF Take, Functions
<1>5. held[d] \subseteq held'[d]
  BY <1>1, <1>2 DEF Functions
<1>6. Done(d)' = Done(d) \cup {s}
  BY <1>1, <1>3, <1>4, SuffixNext DEF ProbingInv
<1>7. s \in Complete(d)
  BY <1>1, <1>3, DueComplete
<1> QED
  BY <1>1, <1>2, <1>4, <1>5, <1>6, <1>7 DEF LeftInv, Complete, First

LEMMA BindLeft ==
  ASSUME TypesInv, NEW d \in installed, Bind(d)
  PROVE  LeftInv(d)'
<1>1. Functions /\ LeftInv(d) /\ ProbingInv(d) /\ d \in Drivers /\ phase[d] = "probing"
  BY DEF TypesInv, PlatformInv, Functions, LifeInv, Bind
<1>2. UNCHANGED <<pointers, held, leaked>>
  BY DEF Bind
<1>3. Done(d) = Complete(d)
  BY <1>1, SuffixDue DEF ProbingInv, Bind
<1>4. d \in Serving => leaked[d] = {}
  BY <1>1, <1>3, FirstFacts DEF LeftInv
<1> QED
  BY <1>1, <1>2, <1>4 DEF LeftInv, Complete, First

LEMMA BindIncompleteLeft ==
  ASSUME TypesInv, NEW d \in installed, BindIncomplete(d)
  PROVE  LeftInv(d)'
<1>1. PICK s \in NextStep(d) :
        /\ Refused(d, s) /\ ReportedAsSuccess(d, s) /\ leaked' = leaked
        /\ pointers' = [pointers EXCEPT ![d] = @ \ WayBack(d, s)]
  BY DEF BindIncomplete
<1>2. Functions /\ LeftInv(d) /\ ProbingInv(d) /\ d \in Drivers /\ phase[d] = "probing"
  BY <1>1 DEF TypesInv, PlatformInv, Functions, LifeInv, Refused
<1>3. Due(d, s, Done(d))
  BY <1>2, SuffixDue DEF ProbingInv
<1>4. pointers'[d] \subseteq pointers[d]
  BY <1>1, <1>2 DEF Functions
<1>5. d \in Serving
  BY <1>1, <1>3 DEF Serving, ReportedAsSuccess, Due, InCharacter, InLines, Drivers, Buffers
<1>6. leaked[d] = {}
  BY <1>1, <1>2, <1>3, <1>5, FirstFacts DEF LeftInv
<1> QED
  BY <1>1, <1>2, <1>4, <1>6 DEF LeftInv, Complete

LEMMA RefuseLeft ==
  ASSUME TypesInv, NEW d \in installed, Refuse(d)
  PROVE  LeftInv(d)'
<1> DEFINE kept(s) == held[d] \ (WayBack(d, s) \cup Managed(d))
<1>1. PICK s \in NextStep(d) :
        /\ Refused(d, s) /\ ~ReportedAsSuccess(d, s)
        /\ held' = [held EXCEPT ![d] = kept(s)] /\ leaked' = [leaked EXCEPT ![d] = kept(s)]
  BY DEF Refuse
<1>2. Functions /\ LeftInv(d) /\ ProbingInv(d) /\ d \in Drivers /\ phase[d] = "probing"
  BY <1>1 DEF TypesInv, PlatformInv, Functions, LifeInv, Refused
<1>3. Due(d, s, Done(d))
  BY <1>2, SuffixDue DEF ProbingInv
<1>4. phase'[d] \in {"out", "waiting"} /\ pointers'[d] \subseteq pointers[d]
  BY <1>2 DEF Refuse, Functions
<1>5. held'[d] = kept(s) /\ leaked'[d] = kept(s)
  BY <1>1, <1>2 DEF Functions
<1>6. ASSUME d \in Serving, kept(s) # {} PROVE First(d) \in kept(s)
  <2>1. First(d) \notin WayBack(d, s) \cup Managed(d)
    BY <1>6, FirstFacts
  <2>2. CASE leaked[d] # {}
    BY <1>2, <1>6, <2>1, <2>2 DEF LeftInv
  <2>3. CASE leaked[d] = {}
    <3>1. Strays(d) = {}
      BY <1>6 DEF Serving, Strays, GpioDrivers
    <3>2. PICK x \in Done(d) : Takes(x) /\ x \notin WayBack(d, s)
      BY <1>2, <1>6, <2>3, <3>1 DEF ProbingInv, Taken
    <3>3. First(d) \in Done(d)
      BY <1>3, <1>6, <3>2, FirstFacts
    <3>4. First(d) \in held[d]
      BY <1>2, <1>6, <3>3, FirstFacts DEF ProbingInv, Taken
    <3> QED
      BY <2>1, <3>4
  <2> QED
    BY <2>2, <2>3
<1> HIDE DEF kept
<1> QED
  BY <1>2, <1>4, <1>5, <1>6 DEF LeftInv, Complete, First

LEMMA DieLeft ==
  ASSUME TypesInv, NEW d \in installed, Die(d)
  PROVE  LeftInv(d)'
<1>1. LeftInv(d) /\ d \notin Serving /\ UNCHANGED <<pointers, held, leaked>>
  BY DEF TypesInv, Die, Dies, GpioDrivers, Serving
<1> QED
  BY <1>1 DEF LeftInv, Complete

LEMMA GoneLeft ==
  ASSUME TypesInv, NEW d \in installed, Unbind(d) \/ Unload(d)
  PROVE  LeftInv(d)'
<1>1. Functions /\ LeftInv(d) /\ LifeInv(d) /\ d \in Drivers
  BY DEF TypesInv, PlatformInv, Functions
<1>2. /\ phase'[d] \in {"out", "waiting"} /\ leaked' = leaked /\ pointers'[d] \subseteq pointers[d]
      /\ IF phase[d] = "bound" THEN Remove(d) ELSE UNCHANGED held
  BY <1>1 DEF Unbind, Unload, Functions
<1>3. leaked[d] \subseteq held'[d]
  <2>1. CASE phase[d] = "bound"
    <3>1. held'[d] = held[d] \ (Removed(d) \cup Managed(d))
      BY <1>1, <1>2, <2>1 DEF Remove, Functions
    <3>2. CASE d \in Serving
      BY <1>1, <2>1, <3>2 DEF LeftInv
    <3>3. CASE d \notin Serving
      <4>1. leaked[d] \subseteq {"stray"}
        BY <1>1, <3>3 DEF Serving, LifeInv, Allowed
      <4> QED
        BY <1>1, <3>1, <4>1, StrayStays DEF LeftInv
    <3> QED
      BY <3>2, <3>3
  <2>2. CASE phase[d] # "bound"
    BY <1>1, <1>2, <2>2 DEF LeftInv
  <2> QED
    BY <2>1, <2>2
<1> QED
  BY <1>1, <1>2, <1>3 DEF LeftInv, Complete, First

LEMMA UseLeft ==
  ASSUME TypesInv, NEW d \in installed,
         OpenNode(d) \/ CloseNode(d) \/ MapMemory(d) \/ UnmapMemory(d)
  PROVE  LeftInv(d)'
<1>1. LeftInv(d) /\ UNCHANGED <<phase, todo, pointers, held, leaked>>
  BY DEF TypesInv, OpenNode, CloseNode, MapMemory, UnmapMemory
<1>2. Done(d)' = Done(d)
  BY <1>1, SameDone
<1> QED
  BY <1>1, <1>2 DEF LeftInv, Complete, First

LEMMA InitTypes == PlatformInit => TypesInv
<1> SUFFICES ASSUME PlatformInit, NEW d \in installed PROVE LeftInv(d)
  BY InitPlatform DEF TypesInv
<1>1. pointers[d] = {} /\ leaked[d] = {}
  BY DEF PlatformInit
<1> QED
  BY <1>1 DEF LeftInv

LEMMA NextTypes == TypesInv /\ [PlatformNext]_platformVars => TypesInv'
<1> SUFFICES ASSUME TypesInv, [PlatformNext]_platformVars PROVE TypesInv'
  OBVIOUS
<1>1. PlatformInv'
  BY NextPlatform DEF TypesInv
<1>2. CASE \E d \in installed : DriverStep(d)
  <2>1. PICK d \in installed : DriverStep(d)
    BY <1>2
  <2>2. Only(d)
    BY <2>1, StepOfOne DEF TypesInv
  <2>3. LeftInv(d)'
    BY <2>1, StartLeft, TakeLeft, BindLeft, BindIncompleteLeft, RefuseLeft, DieLeft, GoneLeft,
       UseLeft DEF DriverStep
  <2>4. ASSUME NEW e \in installed \ {d} PROVE LeftInv(e)'
    BY <2>2, SameLeft DEF Only, TypesInv
  <2> QED
    BY <1>1, <2>2, <2>3, <2>4 DEF Only, TypesInv
<1>3. CASE UNCHANGED platformVars
  <2>1. ASSUME NEW e \in installed PROVE LeftInv(e)'
    <3>1. Same(e)
      BY <1>3 DEF platformVars, Same
    <3> QED
      BY <3>1, SameLeft DEF TypesInv
  <2> QED
    BY <1>1, <1>3, <2>1 DEF TypesInv, platformVars
<1>4. CASE Reboot
  <2>1. \A d \in installed' : pointers'[d] = {} /\ leaked'[d] = {}
    BY <1>4, RebootInit DEF TypesInv
  <2> QED
    BY <1>1, <2>1 DEF TypesInv, LeftInv
<1> QED
  BY <1>2, <1>3, <1>4 DEF PlatformNext

\* PlatformTypeOK holds of every board.  The part that is not plain: what a
\* refused probe has left behind, the driver holds until the machine is started
\* again, since no later probe gets past it to where remove would give it back.
THEOREM AlwaysPlatformTypes == PlatformSpec => []PlatformTypeOK
<1>1. TypesInv => PlatformTypeOK
  <2> SUFFICES ASSUME TypesInv PROVE PlatformTypeOK
    OBVIOUS
  <2>1. Functions
    BY DEF TypesInv, PlatformInv
  <2>2. ASSUME NEW d \in installed
        PROVE  pointers[d] \subseteq {Steps(d)[i] : i \in 1..Len(Steps(d))}
    <3>1. {Steps(d)[i] : i \in 1..Len(Steps(d))} = Complete(d)
      BY <2>1, Order DEF Functions, Ordered, All
    <3> QED
      BY <3>1 DEF TypesInv, LeftInv
  <2>3. \A d \in installed : leaked[d] \subseteq held[d]
    BY DEF TypesInv, LeftInv
  <2> QED
    BY <2>1, <2>2, <2>3 DEF PlatformTypeOK, Functions
<1> QED
  BY InitTypes, NextTypes, <1>1, PTL DEF PlatformSpec
=============================================================================
