------------------------------ MODULE MCNucleus -----------------------------
(***************************************************************************)
(* Instances of Nucleus for TLC.  Processes are interchangeable.           *)
(***************************************************************************)
EXTENDS Nucleus

Symmetry == Permutations(Pcb)

Disk0 == <<DISKINT, 0, 0>>
Printer0 == <<6, 0, 0>>
Transmitter0 == <<TERMINT, 0, 0>>
Receiver0 == <<TERMINT, 0, 1>>

NoUnits == {}
DiskOnly == {Disk0}
DiskAndTerminal == {Disk0, Transmitter0, Receiver0}
TerminalOnly == {Transmitter0, Receiver0}
=============================================================================
