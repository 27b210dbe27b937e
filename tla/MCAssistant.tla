----------------------------- MODULE MCAssistant -----------------------------
(* Assistant for TLC: the messages, windows and modes of its instances.    *)
EXTENDS Assistant

CONSTANTS home, ann

Message(i, how, mention) ==
    [id |-> i, chat |-> home, sender |-> ann, mentioned |-> mention, kind |-> how]

\* Two messages of one person in a group, one of which mentions the owner.
GroupPair == {Message(1, "group", TRUE), Message(2, "group", FALSE)}

\* Two messages of one person in a private chat, and one alone.
PairOfMsgs == {Message(1, "private", FALSE), Message(2, "private", FALSE)}
OneMsg == {Message(1, "private", FALSE)}

None == {}
TwoModes == {"mention", "groups"}

\* A window that passes midnight, in a day of three instants.
NightWindow == {[start |-> 2, end |-> 0]}
=============================================================================
