------------------------------- MODULE MCAta -------------------------------
(***************************************************************************)
(* Values of Ata for TLC: one disk behind another, one behind a CD drive,  *)
(* and a drive without a medium.                                           *)
(***************************************************************************)
EXTENDS Ata

Machine(first, second) ==
  [d \in Drive |-> IF d = <<1, 0>> THEN first
                   ELSE IF d = <<1, 1>> THEN second ELSE "none"]

MCMachines == {Machine("disk", "disk"), Machine("atapi", "disk"), Machine("empty", "none")}
=============================================================================
