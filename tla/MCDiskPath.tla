---------------------------- MODULE MCDiskPath -----------------------------
(* DiskPath with a few guests.                                             *)
EXTENDS DiskPath

G(slots, writers, lbas, events, times, hasty) ==
    [slots |-> slots, writers |-> writers, lbas |-> lbas, events |-> events,
     times |-> times, hasty |-> hasty]

\* Reading and writing near and across the window; the same with the host's
\* switch; near only, with the switch and machine resets that find no target at
\* work; a disc that is read and exchanged, with bus resets of that kind.
MCOneSlot ==
    {G({0}, {0}, {0, 1, 4}, {}, 0, FALSE),
     G({0}, {0}, {1, 4}, {"bypass"}, 1, FALSE),
     G({0}, {0}, {1}, {"bypass", "quietreset"}, 2, FALSE),
     G({0}, {}, {0, 1, 4}, {"swap", "quietbusreset"}, 2, TRUE)}
\* Two slots, both written to.
MCTwoSlots == {G({0, 1}, {0, 1}, {1}, {}, 0, FALSE)}
MCBoth == MCOneSlot \cup MCTwoSlots

MCHasty == {G({0}, {0}, {0, 1, 4}, {}, 0, TRUE)}
\* The same resets at any time: ReadsLatest fails on the first and CleanMatchesImage
\* on the second (README, section 7).
MCBusReset == {G({0}, {}, {0, 1}, {"busreset"}, 1, FALSE)}
MCReset == {G({0}, {0}, {0, 1}, {"reset"}, 1, FALSE)}
=============================================================================
