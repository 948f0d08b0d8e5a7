---------------------------- MODULE MCXactEngine ----------------------------
(* One engine address, a wave bank, a sound bank and two cue addresses; a
   registration for the whole engine, one for a cue index of one bank and a
   one-shot one for one cue. *)
EXTENDS XactEngine

CONSTANTS e1, w1, b1, c1, c2

MCEngines == {e1}
MCWaveBanks == {w1}
MCSoundBanks == {b1}
MCCues == {c1, c2}
MCDescription(b, c, persistent) == [bank |-> b, index |-> 1, cue |-> c, persistent |-> persistent]
MCDescriptions == {MCDescription(NoBank, NoCue, TRUE), MCDescription(b1, NoCue, FALSE),
                   MCDescription(NoBank, c1, FALSE)}
=============================================================================
