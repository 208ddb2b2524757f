---------------------------- MODULE AxiLiteSlave ----------------------------
(***************************************************************************)
(* The AXI4-Lite side that the two register banks of axi_irq_prj1 share    *)
(* (wzab_ip_ms_v1_0_S00_AXI, wzab_ip_ms_v1_0_S_AXI_INTR), with the master  *)
(* at its other end, which is external.  One step of the slave is a rising *)
(* edge; between edges the master raises its valid signals.  The master    *)
(* has one write and one read under way at most: "This design expects no   *)
(* outstanding transactions."                                              *)
(*                                                                         *)
(* axi_wready is set and cleared with axi_awready.  axi_awaddr and         *)
(* axi_araddr are copies, made one edge earlier, of what the master still  *)
(* holds; wcmd and rcmd stand for both.  All strobes of a write are on.    *)
(***************************************************************************)
EXTENDS Integers

CONSTANT None  \* no access under way

ASSUME NoneAssumption == None \notin Int /\ None \notin [addr : Int, data : Int]

VARIABLES
  wcmd, awvalid, wvalid,    \* the master's write, until its answer; what is offered
  rcmd, arvalid,            \* the same for its read
  axi_awready, axi_bvalid,  \* registers of the slave
  axi_arready, axi_rvalid, axi_rdata

writeVars == <<wcmd, awvalid, wvalid, axi_awready, axi_bvalid>>
readVars == <<rcmd, arvalid, axi_arready, axi_rvalid, axi_rdata>>
axiVars == <<writeVars, readVars>>

AxiInit ==
  /\ wcmd = None /\ awvalid = FALSE /\ wvalid = FALSE
  /\ rcmd = None /\ arvalid = FALSE
  /\ axi_awready = FALSE /\ axi_bvalid = FALSE
  /\ axi_arready = FALSE /\ axi_rvalid = FALSE /\ axi_rdata = 0

AxiReset ==
  /\ wcmd' = None /\ awvalid' = FALSE /\ wvalid' = FALSE
  /\ rcmd' = None /\ arvalid' = FALSE
  /\ axi_awready' = FALSE /\ axi_bvalid' = FALSE
  /\ axi_arready' = FALSE /\ axi_rvalid' = FALSE /\ axi_rdata' = 0

-----------------------------------------------------------------------------
(* The master *)

\* Address and data are offered together or one before the other.
StartWrite(cmd) ==
  /\ wcmd = None /\ wcmd' = cmd
  /\ awvalid' \in BOOLEAN /\ wvalid' \in BOOLEAN /\ (awvalid' \/ wvalid')
  /\ UNCHANGED <<axi_awready, axi_bvalid, readVars>>

OfferRest ==
  /\ awvalid # wvalid
  /\ awvalid' = TRUE /\ wvalid' = TRUE
  /\ UNCHANGED <<wcmd, axi_awready, axi_bvalid, readVars>>

StartRead(addr) ==
  /\ rcmd = None /\ rcmd' = addr /\ arvalid' = TRUE
  /\ UNCHANGED <<axi_arready, axi_rvalid, axi_rdata, writeVars>>

-----------------------------------------------------------------------------
(* The slave *)

Offering == awvalid /\ wvalid
\* slv_reg_wren, intr_reg_wren: the edge that writes the register.
Taking == axi_awready /\ Offering
Reading == axi_arready /\ arvalid

FaultyBvalid(bready) == Taking /\ ~axi_bvalid
NextBvalid(bready) == (Taking /\ ~axi_bvalid) \/ (axi_bvalid /\ ~bready)

WriteClock(bready) ==
  /\ axi_awready' = (~axi_awready /\ Offering)
  /\ awvalid' = (awvalid /\ ~Taking) /\ wvalid' = (wvalid /\ ~Taking)
  /\ axi_bvalid' = NextBvalid(bready)
  /\ wcmd' = IF axi_bvalid /\ bready THEN None ELSE wcmd

\* An answer the master takes at this edge.
Answered(rready) == axi_rvalid /\ rready

NextRdata(word) == IF Reading /\ ~axi_rvalid THEN word ELSE axi_rdata

\* word: what the register at rcmd shows.
ReadClock(rready, word) ==
  /\ axi_arready' = (~axi_arready /\ arvalid)
  /\ arvalid' = (arvalid /\ ~axi_arready)
  /\ axi_rvalid' = ((Reading /\ ~axi_rvalid) \/ (axi_rvalid /\ ~rready))
  /\ axi_rdata' = NextRdata(word)
  /\ rcmd' = IF Answered(rready) THEN None ELSE rcmd

-----------------------------------------------------------------------------
\* Both kinds of access come to an end, the write's answer included.
AccessEnds ==
  /\ Offering ~> wcmd = None
  /\ arvalid ~> rcmd = None
=============================================================================
