---------------------------- MODULE MCConfigFlow ----------------------------
(* ConfigFlow with two accounts, one of them spelled in two ways, and a     *)
(* band of three intervals.  Dialogs and entry ids are interchangeable.     *)
EXTENDS ConfigFlow, TLC

CONSTANTS owner, guest, junk

MCEmails == {"owner", "Owner", "guest"}
MCAccount == [m \in MCEmails |-> IF m = "guest" THEN guest ELSE owner]
MCIntervals == {1, 4, 9, junk}
MCSymmetry == Permutations(Dialogs) \cup Permutations(Entries) \cup Permutations(Passwords)
============================================================================
