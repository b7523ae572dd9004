------------------------------- MODULE MCAhci -------------------------------
(* Small instances of Ahci for TLC.                                        *)
EXTENDS Ahci

Cmd(kind, ncq, parts) == [op |-> kind, ncq |-> ncq, parts |-> parts]

Read    == Cmd("READ", FALSE, 1)
LongRead == Cmd("READ", FALSE, 2)
NcqRead == Cmd("READ", TRUE, 1)
NcqTrim == Cmd("DELETE", TRUE, 1)
NoTrim  == Cmd("DELETE", TRUE, 0)
Trim    == Cmd("DELETE", FALSE, 1)
NoData  == Cmd("NODATA", FALSE, 0)
Abort   == Cmd("ABORT", FALSE, 0)
SoftReset  == Cmd("SRST", FALSE, 0)
EndOfReset == Cmd("NOSRST", FALSE, 0)
(* SEND FPDMA QUEUED with an unsupported subcommand                        *)
NcqAbort == Cmd("ABORT", TRUE, 0)
NotFis  == Cmd("NOTFIS", FALSE, 0)

(* What makes the device fail, and what may stop it.                       *)
MCCmds     == {Read, LongRead, NcqRead, NcqTrim, NoTrim, Abort, NotFis}
(* What a careful host sends.                                              *)
MCCareful  == {Read, NcqRead, NcqTrim, NoTrim, SoftReset, EndOfReset, NcqAbort, NoData}
MCMasks    == {Causes}
MCTwoMasks == {{}, Causes}
MCReads    == {Read}
MCAborts   == {Abort, NoData}
MCOffMax   == 9
=============================================================================
