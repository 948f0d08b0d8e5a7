------------------------ MODULE MCInterruptDelivery ------------------------
(* A guest thread and the audio thread, which visits two levels; two interrupts
   of one level; two DPCs, one of which has a routine outside guest memory. *)
EXTENDS InterruptDelivery, TLC

CONSTANTS t1, audio, d1, d2, i1, i2

MCThreads == {t1, audio}
MCConfigurers == {t1}
MCDevices == {audio}
MCServes == audio :> <<5, 6>>
MCDpcs == {d1, d2}
MCValid == {d1}
MCInterrupts == {i1, i2}
MCLevelOf == [i \in MCInterrupts |-> 5]
=============================================================================
